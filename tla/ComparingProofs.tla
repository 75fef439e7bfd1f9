--------------------------- MODULE ComparingProofs ---------------------------
(***************************************************************************)
(* Proofs about equality, hashing, membership, order and the algebra of    *)
(* sets, for every heap.                                                   *)
(*                                                                         *)
(* The functions of Comparing and PyValues are recursive on the cells.     *)
(* First that each of them has the values its definition says, then that   *)
(* two values are equal when they denote the same, by induction on the     *)
(* later one, and the rest from that.                                      *)
(***************************************************************************)
EXTENDS PyValues, NumberProofs

-----------------------------------------------------------------------------
(* The heap. *)

LEMMA CellsAre == Len(heap) \in Nat /\ \A v \in Cells : v \in Nat /\ v # 0 /\ v <= Len(heap)
BY HeapAssumption DEF Cells

\* What a cell holds comes before it.
LEMMA BelowIsCell ==
  ASSUME NEW v \in Cells, NEW w \in 1..(v - 1)
  PROVE  w \in Cells /\ w < v /\ w \in Nat
BY CellsAre DEF Cells

LEMMA ItemsBelow ==
  ASSUME NEW v \in Cells
  PROVE  /\ Items(v) \in Seq(1..(v - 1)) /\ Vals(v) \in Seq(1..(v - 1))
         /\ Len(Items(v)) \in Nat /\ Len(Vals(v)) \in Nat
         /\ \A i \in 1..Len(Items(v)) : Items(v)[i] \in 1..(v - 1)
         /\ \A i \in 1..Len(Vals(v)) : Vals(v)[i] \in 1..(v - 1)
         /\ ToSet(Items(v)) = {Items(v)[i] : i \in 1..Len(Items(v))}
         /\ ToSet(Vals(v)) = {Vals(v)[i] : i \in 1..Len(Vals(v))}
<1>1. Items(v) \in Seq(1..(v - 1)) /\ Vals(v) \in Seq(1..(v - 1))
  BY HeapAssumption, Zenon DEF WellFormed
<1>2. ASSUME NEW s, NEW B, s \in Seq(B)
      PROVE  Len(s) \in Nat /\ (\A i \in 1..Len(s) : s[i] \in B) /\ ToSet(s) = {s[i] : i \in 1..Len(s)}
  BY <1>2 DEF ToSet
<1>3. PICK B : B = 1..(v - 1)
  OBVIOUS
<1>4. Items(v) \in Seq(B) /\ Vals(v) \in Seq(B)
  BY <1>1, <1>3
<1> QED
  BY <1>1, <1>2, <1>3, <1>4, Zenon

\* Of a keys view, the dict comes before it and the keys before that.
LEMMA KeysBelow ==
  ASSUME NEW v \in Cells, Tag(v) = "DICT_VIEW"
  PROVE  /\ Items(v)[1] \in 1..(v - 1) /\ Items(v)[1] \in ToSet(Items(v))
         /\ Tag(Items(v)[1]) = "DICT"
         /\ Items(v)[1] \in Cells
<1>1. Len(Items(v)) = 1 /\ Tag(Items(v)[1]) = "DICT"
  BY HeapAssumption DEF WellFormed
<1> QED
  BY <1>1, ItemsBelow, BelowIsCell

LEMMA ElementsBelow ==
  ASSUME NEW v \in Cells
  PROVE  /\ SetElements(v) \in Seq(1..(v - 1)) /\ Len(SetElements(v)) \in Nat
         /\ \A i \in 1..Len(SetElements(v)) : SetElements(v)[i] \in 1..(v - 1)
         /\ ToSet(SetElements(v)) = {SetElements(v)[i] : i \in 1..Len(SetElements(v))}
<1>1. CASE IsKeys(v)
  <2> DEFINE d == Items(v)[1]
  <2>1. d \in 1..(v - 1) /\ d \in Cells /\ d \in Nat /\ v \in Nat
    BY <1>1, KeysBelow, BelowIsCell, CellsAre DEF IsKeys
  <2>2. SetElements(v) = Items(d)
    BY <1>1 DEF SetElements, KeysOf
  <2> HIDE DEF d
  <2>3. /\ Len(Items(d)) \in Nat
        /\ \A i \in 1..Len(Items(d)) : Items(d)[i] \in 1..(d - 1)
        /\ ToSet(Items(d)) = {Items(d)[i] : i \in 1..Len(Items(d))}
        /\ Items(d) \in Seq(1..(d - 1))
    BY <2>1, ItemsBelow
  <2>4. 1..(d - 1) \subseteq 1..(v - 1)
    BY <2>1
  <2>5. Items(d) \in Seq(1..(v - 1))
    <3>1. ASSUME NEW A, NEW B, NEW s \in Seq(A), A \subseteq B PROVE s \in Seq(B)
      BY <3>1
    <3> QED
      BY <2>3, <2>4, <3>1
  <2>6. \A i \in 1..Len(Items(d)) : Items(d)[i] \in 1..(v - 1)
    BY <2>3, <2>4
  <2> QED
    BY <2>2, <2>3, <2>5, <2>6
<1>2. CASE ~IsKeys(v)
  BY <1>2, ItemsBelow, Zenon DEF SetElements
<1> QED
  BY <1>1, <1>2

-----------------------------------------------------------------------------
(* The recursive functions. *)

CanHashBy(canHash, v) ==
  /\ Tag(v) \notin {"LIST", "DICT", "SET", "DICT_VIEW"}
  /\ Tag(v) = "TUPLE" => \A i \in 1..Len(Items(v)) : canHash[Items(v)[i]]

ReachBy(reach, v) == {v} \cup UNION {reach[x] : x \in ToSet(Items(v)) \cup ToSet(Vals(v))}

\* What a value denotes, tag by tag.
LEMMA DenotesCases ==
  ASSUME NEW v, NEW f
  PROVE  /\ Tag(v) = "NONE" => DenotesBy(f, v) = <<"none">>
         /\ IsNan(v) => DenotesBy(f, v) = <<"nan", v>>
         /\ IsNumber(v) /\ ~IsNan(v) => DenotesBy(f, v) = <<"num", N(v)[1]>>
         /\ Tag(v) = "STRING" => DenotesBy(f, v) = <<"str", N(v)>>
         /\ Tag(v) = "BYTES" => DenotesBy(f, v) = <<"bytes", N(v)>>
         /\ Tag(v) = "TUPLE" => DenotesBy(f, v) = <<"tuple", AllOf(f, Items(v))>>
         /\ Tag(v) = "LIST" => DenotesBy(f, v) = <<"list", AllOf(f, Items(v))>>
         /\ SetLike(v) => DenotesBy(f, v) = <<"set", SetOf(f, SetElements(v))>>
         /\ Tag(v) = "DICT" => DenotesBy(f, v) = <<"dict", PairsOf(f, Items(v), Vals(v))>>
         /\ Tag(v) = "RANGE" =>
              DenotesBy(f, v) = <<"range", InOrder(RangeSet(N(v)[1], N(v)[2], N(v)[3]), N(v)[3])>>
         /\ /\ ~IsNumber(v) /\ ~SetLike(v)
            /\ Tag(v) \notin {"NONE", "STRING", "BYTES", "TUPLE", "LIST", "DICT", "RANGE"}
            => DenotesBy(f, v) = <<"at", v>>
<1> DEFINE set == <<"set", SetOf(f, SetElements(v))>>
           pairs == <<"dict", PairsOf(f, Items(v), Vals(v))>>
           tuple == <<"tuple", AllOf(f, Items(v))>>
           list == <<"list", AllOf(f, Items(v))>>
           range == <<"range", InOrder(RangeSet(N(v)[1], N(v)[2], N(v)[3]), N(v)[3])>>
           none == <<"none">>
           nan == <<"nan", v>>
           num == <<"num", N(v)[1]>>
           str == <<"str", N(v)>>
           bytes == <<"bytes", N(v)>>
           at == <<"at", v>>
<1>1. DenotesBy(f, v) =
        CASE Tag(v) = "NONE"   -> none
          [] IsNan(v)          -> nan
          [] IsNumber(v) /\ ~IsNan(v) -> num
          [] Tag(v) = "STRING" -> str
          [] Tag(v) = "BYTES"  -> bytes
          [] Tag(v) = "TUPLE"  -> tuple
          [] Tag(v) = "LIST"   -> list
          [] SetLike(v)        -> set
          [] Tag(v) = "DICT"   -> pairs
          [] Tag(v) = "RANGE"  -> range
          [] OTHER             -> at
  BY DEF DenotesBy
<1> HIDE DEF set, pairs, tuple, list, range, none, nan, num, str, bytes, at
<1>2. /\ Tag(v) = "NONE" => DenotesBy(f, v) = none
      /\ IsNan(v) => DenotesBy(f, v) = nan
      /\ IsNumber(v) /\ ~IsNan(v) => DenotesBy(f, v) = num
      /\ Tag(v) = "STRING" => DenotesBy(f, v) = str
      /\ Tag(v) = "BYTES" => DenotesBy(f, v) = bytes
      /\ Tag(v) = "TUPLE" => DenotesBy(f, v) = tuple
      /\ Tag(v) = "LIST" => DenotesBy(f, v) = list
      /\ SetLike(v) => DenotesBy(f, v) = set
      /\ Tag(v) = "DICT" => DenotesBy(f, v) = pairs
      /\ Tag(v) = "RANGE" => DenotesBy(f, v) = range
      /\ /\ ~IsNumber(v) /\ ~SetLike(v)
         /\ Tag(v) \notin {"NONE", "STRING", "BYTES", "TUPLE", "LIST", "DICT", "RANGE"}
         => DenotesBy(f, v) = at
  BY <1>1 DEF IsNan, IsNumber, IntLike, SetLike, IsKeys
<1> QED
  BY <1>2 DEF set, pairs, tuple, list, range, none, nan, num, str, bytes, at

\* Each is determined by its values for the cells before.
LEMMA SameBelow ==
  ASSUME NEW v \in Cells, NEW f, NEW g, \A w \in 1..(v - 1) : f[w] = g[w]
  PROVE  /\ CanHashBy(f, v) = CanHashBy(g, v)
         /\ ReachBy(f, v) = ReachBy(g, v)
         /\ HashBy(f, v) = HashBy(g, v)
         /\ DenotesBy(f, v) = DenotesBy(g, v)
<1>1. /\ \A i \in 1..Len(Items(v)) : f[Items(v)[i]] = g[Items(v)[i]]
      /\ \A i \in 1..Len(Vals(v)) : f[Vals(v)[i]] = g[Vals(v)[i]]
      /\ \A i \in 1..Len(SetElements(v)) : f[SetElements(v)[i]] = g[SetElements(v)[i]]
  BY ItemsBelow, ElementsBelow
<1>2. AllOf(f, Items(v)) = AllOf(g, Items(v))
  BY <1>1 DEF AllOf
<1>3. SetOf(f, Items(v)) = SetOf(g, Items(v)) /\ SetOf(f, SetElements(v)) = SetOf(g, SetElements(v))
  BY <1>1 DEF SetOf
<1>4. Tag(v) = "DICT" => PairsOf(f, Items(v), Vals(v)) = PairsOf(g, Items(v), Vals(v))
  <2>1. Tag(v) = "DICT" => Len(Vals(v)) = Len(Items(v))
    BY HeapAssumption DEF WellFormed
  <2> QED
    BY <1>1, <2>1 DEF PairsOf
<1>5. CanHashBy(f, v) = CanHashBy(g, v)
  BY <1>1 DEF CanHashBy
<1>6. ReachBy(f, v) = ReachBy(g, v)
  <2>1. \A x \in ToSet(Items(v)) \cup ToSet(Vals(v)) : f[x] = g[x]
    BY ItemsBelow
  <2> QED
    BY <2>1 DEF ReachBy
<1>7. HashBy(f, v) = HashBy(g, v)
  BY <1>2, <1>3, Zenon DEF HashBy
<1>8. DenotesBy(f, v) = DenotesBy(g, v)
  BY <1>2, <1>3, <1>4, DenotesCases
<1> QED
  BY <1>5, <1>6, <1>7, <1>8

\* What can be hashed is what its definition says.
LEMMA CanHashIs == CanHash = [v \in Cells |-> CanHashBy(CanHash, v)]
<1> DEFINE Upto(n, f) == f = [v \in 1..n |-> CanHashBy(f, v)]
           T == {n \in Nat : n <= Len(heap) => \E f : Upto(n, f)}
<1>1. 0 \in T
  <2>1. Upto(0, [v \in 1..0 |-> 0])
    OBVIOUS
  <2> QED
    BY <2>1
<1>2. ASSUME NEW n \in Nat, n \in T, n + 1 <= Len(heap)
      PROVE  \E g : Upto(n + 1, g)
  <2>1. PICK f : Upto(n, f)
    BY <1>2, CellsAre
  <2> DEFINE g == [v \in 1..(n + 1) |-> IF v <= n THEN f[v] ELSE CanHashBy(f, v)]
  <2>2. ASSUME NEW v \in 1..(n + 1) PROVE g[v] = CanHashBy(g, v)
    <3>1. v \in Cells
      BY <1>2, CellsAre DEF Cells
    <3>2. \A w \in 1..(v - 1) : f[w] = g[w]
      OBVIOUS
    <3> HIDE DEF g
    <3>3. CanHashBy(f, v) = CanHashBy(g, v)
      BY <3>1, <3>2, SameBelow
    <3>4. v <= n => f[v] = CanHashBy(f, v)
      BY <2>1
    <3>5. g[v] = CanHashBy(f, v)
      BY <3>4 DEF g
    <3> QED
      BY <3>3, <3>5
  <2>3. g = [v \in 1..(n + 1) |-> g[v]]
    OBVIOUS
  <2> HIDE DEF g
  <2>4. g = [v \in 1..(n + 1) |-> CanHashBy(g, v)]
    BY <2>2, <2>3
  <2> QED
    BY <2>4
<1>3. \A n \in Nat : n \in T => n + 1 \in T
  <2> HIDE DEF Upto
  <2> QED
    BY <1>2, CellsAre
<1>4. Len(heap) \in T
  <2>1. \A n \in Nat : n \in T
    <3> HIDE DEF T
    <3> QED
      BY <1>1, <1>3, Induction
  <2> QED
    BY <2>1, CellsAre
<1> DEFINE Is(f) == f = [v \in Cells |-> CanHashBy(f, v)]
<1>5. \E f : Is(f)
  BY <1>4, CellsAre DEF Cells
<1>6. CanHash = CHOOSE f : Is(f)
  BY Zenon DEF CanHash, CanHashBy
<1>7. Is(CHOOSE f : Is(f))
  <2> HIDE DEF Is
  <2> QED
    BY <1>5
<1> QED
  BY <1>6, <1>7

\* So is what can be reached.
LEMMA ReachableIs == Reachable = [v \in Cells |-> ReachBy(Reachable, v)]
<1> DEFINE Upto(n, f) == f = [v \in 1..n |-> ReachBy(f, v)]
           T == {n \in Nat : n <= Len(heap) => \E f : Upto(n, f)}
<1>1. 0 \in T
  <2>1. Upto(0, [v \in 1..0 |-> 0])
    OBVIOUS
  <2> QED
    BY <2>1
<1>2. ASSUME NEW n \in Nat, n \in T, n + 1 <= Len(heap)
      PROVE  \E g : Upto(n + 1, g)
  <2>1. PICK f : Upto(n, f)
    BY <1>2, CellsAre
  <2> DEFINE g == [v \in 1..(n + 1) |-> IF v <= n THEN f[v] ELSE ReachBy(f, v)]
  <2>2. ASSUME NEW v \in 1..(n + 1) PROVE g[v] = ReachBy(g, v)
    <3>1. v \in Cells
      BY <1>2, CellsAre DEF Cells
    <3>2. \A w \in 1..(v - 1) : f[w] = g[w]
      OBVIOUS
    <3> HIDE DEF g
    <3>3. ReachBy(f, v) = ReachBy(g, v)
      BY <3>1, <3>2, SameBelow
    <3>4. v <= n => f[v] = ReachBy(f, v)
      BY <2>1
    <3>5. g[v] = ReachBy(f, v)
      BY <3>4 DEF g
    <3> QED
      BY <3>3, <3>5
  <2>3. g = [v \in 1..(n + 1) |-> g[v]]
    OBVIOUS
  <2> HIDE DEF g
  <2>4. g = [v \in 1..(n + 1) |-> ReachBy(g, v)]
    BY <2>2, <2>3
  <2> QED
    BY <2>4
<1>3. \A n \in Nat : n \in T => n + 1 \in T
  <2> HIDE DEF Upto
  <2> QED
    BY <1>2, CellsAre
<1>4. Len(heap) \in T
  <2>1. \A n \in Nat : n \in T
    <3> HIDE DEF T
    <3> QED
      BY <1>1, <1>3, Induction
  <2> QED
    BY <2>1, CellsAre
<1> DEFINE Is(f) == f = [v \in Cells |-> ReachBy(f, v)]
<1>5. \E f : Is(f)
  BY <1>4, CellsAre DEF Cells
<1>6. Reachable = CHOOSE f : Is(f)
  BY Zenon DEF Reachable, ReachBy
<1>7. Is(CHOOSE f : Is(f))
  <2> HIDE DEF Is
  <2> QED
    BY <1>5
<1> QED
  BY <1>6, <1>7

\* The hashes.
LEMMA HashTermsIs == HashTerms = [v \in Cells |-> HashBy(HashTerms, v)]
<1> DEFINE Upto(n, f) == f = [v \in 1..n |-> HashBy(f, v)]
           T == {n \in Nat : n <= Len(heap) => \E f : Upto(n, f)}
<1>1. 0 \in T
  <2>1. Upto(0, [v \in 1..0 |-> 0])
    OBVIOUS
  <2> QED
    BY <2>1
<1>2. ASSUME NEW n \in Nat, n \in T, n + 1 <= Len(heap)
      PROVE  \E g : Upto(n + 1, g)
  <2>1. PICK f : Upto(n, f)
    BY <1>2, CellsAre
  <2> DEFINE g == [v \in 1..(n + 1) |-> IF v <= n THEN f[v] ELSE HashBy(f, v)]
  <2>2. ASSUME NEW v \in 1..(n + 1) PROVE g[v] = HashBy(g, v)
    <3>1. v \in Cells
      BY <1>2, CellsAre DEF Cells
    <3>2. \A w \in 1..(v - 1) : f[w] = g[w]
      OBVIOUS
    <3> HIDE DEF g
    <3>3. HashBy(f, v) = HashBy(g, v)
      BY <3>1, <3>2, SameBelow
    <3>4. v <= n => f[v] = HashBy(f, v)
      BY <2>1
    <3>5. g[v] = HashBy(f, v)
      BY <3>4 DEF g
    <3> QED
      BY <3>3, <3>5
  <2>3. g = [v \in 1..(n + 1) |-> g[v]]
    OBVIOUS
  <2> HIDE DEF g
  <2>4. g = [v \in 1..(n + 1) |-> HashBy(g, v)]
    BY <2>2, <2>3
  <2> QED
    BY <2>4
<1>3. \A n \in Nat : n \in T => n + 1 \in T
  <2> HIDE DEF Upto
  <2> QED
    BY <1>2, CellsAre
<1>4. Len(heap) \in T
  <2>1. \A n \in Nat : n \in T
    <3> HIDE DEF T
    <3> QED
      BY <1>1, <1>3, Induction
  <2> QED
    BY <2>1, CellsAre
<1> DEFINE Is(f) == f = [v \in Cells |-> HashBy(f, v)]
<1>5. \E f : Is(f)
  BY <1>4, CellsAre DEF Cells
<1>6. HashTerms = CHOOSE f : Is(f)
  BY Zenon DEF HashTerms
<1>7. Is(CHOOSE f : Is(f))
  <2> HIDE DEF Is
  <2> QED
    BY <1>5
<1> QED
  BY <1>6, <1>7

\* What the values denote.
LEMMA DenotationIs == Denotation = [v \in Cells |-> DenotesBy(Denotation, v)]
<1> DEFINE Upto(n, f) == f = [v \in 1..n |-> DenotesBy(f, v)]
           T == {n \in Nat : n <= Len(heap) => \E f : Upto(n, f)}
<1>1. 0 \in T
  <2>1. Upto(0, [v \in 1..0 |-> 0])
    OBVIOUS
  <2> QED
    BY <2>1
<1>2. ASSUME NEW n \in Nat, n \in T, n + 1 <= Len(heap)
      PROVE  \E g : Upto(n + 1, g)
  <2>1. PICK f : Upto(n, f)
    BY <1>2, CellsAre
  <2> DEFINE g == [v \in 1..(n + 1) |-> IF v <= n THEN f[v] ELSE DenotesBy(f, v)]
  <2>2. ASSUME NEW v \in 1..(n + 1) PROVE g[v] = DenotesBy(g, v)
    <3>1. v \in Cells
      BY <1>2, CellsAre DEF Cells
    <3>2. \A w \in 1..(v - 1) : f[w] = g[w]
      OBVIOUS
    <3> HIDE DEF g
    <3>3. DenotesBy(f, v) = DenotesBy(g, v)
      BY <3>1, <3>2, SameBelow
    <3>4. v <= n => f[v] = DenotesBy(f, v)
      BY <2>1
    <3>5. g[v] = DenotesBy(f, v)
      BY <3>4 DEF g
    <3> QED
      BY <3>3, <3>5
  <2>3. g = [v \in 1..(n + 1) |-> g[v]]
    OBVIOUS
  <2> HIDE DEF g
  <2>4. g = [v \in 1..(n + 1) |-> DenotesBy(g, v)]
    BY <2>2, <2>3
  <2> QED
    BY <2>4
<1>3. \A n \in Nat : n \in T => n + 1 \in T
  <2> HIDE DEF Upto
  <2> QED
    BY <1>2, CellsAre
<1>4. Len(heap) \in T
  <2>1. \A n \in Nat : n \in T
    <3> HIDE DEF T
    <3> QED
      BY <1>1, <1>3, Induction
  <2> QED
    BY <2>1, CellsAre
<1> DEFINE Is(f) == f = [v \in Cells |-> DenotesBy(f, v)]
<1>5. \E f : Is(f)
  BY <1>4, CellsAre DEF Cells
<1>6. Denotation = CHOOSE f : Is(f)
  BY Zenon DEF Denotation
<1>7. Is(CHOOSE f : Is(f))
  <2> HIDE DEF Is
  <2> QED
    BY <1>5
<1> QED
  BY <1>6, <1>7

\* Two functions on pairs say the same of all cells up to n.
AgreeUpto(n, f, g) == \A x, y \in 1..n : f[<<x, y>>] = g[<<x, y>>]

LEMMA BelowIsUpto ==
  ASSUME NEW n \in Nat, NEW v \in Cells, v <= n + 1
  PROVE  1..(v - 1) \subseteq 1..n
BY CellsAre

\* The values of a dict go with its keys.
LEMMA DictIs ==
  ASSUME NEW d \in Cells, Tag(d) = "DICT"
  PROVE  Len(Vals(d)) = Len(Items(d)) /\ NoneMatch(Items(d))
BY HeapAssumption DEF WellFormed

LEMMA SetLikeEqualSame ==
  ASSUME NEW n \in Nat, NEW a \in Cells, NEW b \in Cells, a <= n + 1, b <= n + 1,
         NEW f, NEW g, AgreeUpto(n, f, g)
  PROVE  SetLikeEqual(HashTerms, f, a, b) <=> SetLikeEqual(HashTerms, g, a, b)
<1>1. ASSUME NEW x \in ToSet(SetElements(a))
      PROVE  SetLikeContains(HashTerms, f, b, x) <=> SetLikeContains(HashTerms, g, b, x)
  <2>1. x \in 1..n
    BY ElementsBelow, BelowIsUpto
  <2>2. CASE IsKeys(b)
    <3> DEFINE d == Items(b)[1]
    <3>1. d \in Cells /\ d <= n + 1
      BY <2>2, KeysBelow, CellsAre DEF IsKeys
    <3> HIDE DEF d
    <3>2. ASSUME NEW i \in 1..Len(Items(d)) PROVE Matches(HashTerms, f, Items(d)[i], x) <=> Matches(HashTerms, g, Items(d)[i], x)
      <4>1. Items(d)[i] \in 1..n
        BY <3>1, ItemsBelow, BelowIsUpto
      <4>2. f[<<Items(d)[i], x>>] = g[<<Items(d)[i], x>>]
        BY <2>1, <4>1 DEF AgreeUpto
      <4> QED
        BY <4>2 DEF Matches
    <3>3. DictGet(HashTerms, f, d, x) = DictGet(HashTerms, g, d, x)
      BY <3>2 DEF DictGet
    <3> QED
      BY <2>2, <3>3 DEF SetLikeContains, d
  <2>3. CASE ~IsKeys(b)
    <3>1. ASSUME NEW y \in ToSet(Items(b))
          PROVE  (Matches(HashTerms, f, y, x) <=> Matches(HashTerms, g, y, x)) /\ f[<<y, x>>] = g[<<y, x>>]
      <4>1. y \in 1..n
        BY ItemsBelow, BelowIsUpto
      <4>2. f[<<y, x>>] = g[<<y, x>>]
        BY <2>1, <4>1 DEF AgreeUpto
      <4> QED
        BY <4>2 DEF Matches
    <3>2. SetContains(HashTerms, f, b, x) <=> SetContains(HashTerms, g, b, x)
      BY <3>1 DEF SetContains
    <3> QED
      BY <2>3, <3>2 DEF SetLikeContains
  <2> QED
    BY <2>2, <2>3
<1> QED
  BY <1>1 DEF SetLikeEqual

LEMMA ItemsEqualSame ==
  ASSUME NEW n \in Nat, NEW a \in Cells, NEW b \in Cells, a <= n + 1, b <= n + 1,
         NEW f, NEW g, AgreeUpto(n, f, g)
  PROVE  ItemsEqual(f, Items(a), Items(b)) <=> ItemsEqual(g, Items(a), Items(b))
<1>1. ASSUME Len(Items(a)) = Len(Items(b)), NEW i \in 1..Len(Items(a))
      PROVE  f[<<Items(a)[i], Items(b)[i]>>] = g[<<Items(a)[i], Items(b)[i]>>]
  <2>1. Items(a)[i] \in 1..n /\ Items(b)[i] \in 1..n
    BY <1>1, ItemsBelow, BelowIsUpto
  <2> QED
    BY <2>1 DEF AgreeUpto
<1> QED
  BY <1>1 DEF ItemsEqual

LEMMA DictsEqualSame ==
  ASSUME NEW n \in Nat, NEW a \in Cells, NEW b \in Cells, a <= n + 1, b <= n + 1,
         Tag(a) = "DICT", Tag(b) = "DICT", NEW f, NEW g, AgreeUpto(n, f, g)
  PROVE  DictsEqual(HashTerms, f, a, b) <=> DictsEqual(HashTerms, g, a, b)
<1>1. ASSUME NEW i \in 1..Len(Items(a)), NEW j \in 1..Len(Items(b))
      PROVE  /\ f[<<Items(b)[j], Items(a)[i]>>] = g[<<Items(b)[j], Items(a)[i]>>]
             /\ f[<<Vals(a)[i], Vals(b)[j]>>] = g[<<Vals(a)[i], Vals(b)[j]>>]
  <2>1. Items(a)[i] \in 1..n /\ Items(b)[j] \in 1..n
    BY ItemsBelow, BelowIsUpto
  <2>2. Vals(a)[i] \in 1..n /\ Vals(b)[j] \in 1..n
    BY ItemsBelow, BelowIsUpto, DictIs
  <2> QED
    BY <2>1, <2>2 DEF AgreeUpto
<1>2. ASSUME NEW i \in 1..Len(Items(a))
      PROVE  DictGet(HashTerms, f, b, Items(a)[i]) = DictGet(HashTerms, g, b, Items(a)[i])
  BY <1>1 DEF DictGet, Matches
<1>3. ASSUME NEW i \in 1..Len(Items(a))
      PROVE  DictGet(HashTerms, f, b, Items(a)[i]) \subseteq 1..Len(Items(b))
  BY DEF DictGet
<1> QED
  BY <1>1, <1>2, <1>3 DEF DictsEqual

\* What is said of two cells depends on those before them.
LEMMA EqualSame ==
  ASSUME NEW n \in Nat, NEW a \in Cells, NEW b \in Cells, a <= n + 1, b <= n + 1,
         NEW f, NEW g, AgreeUpto(n, f, g)
  PROVE  EqualBy(HashTerms, f, a, b) = EqualBy(HashTerms, g, a, b)
<1>1. /\ SetLikeEqual(HashTerms, f, a, b) <=> SetLikeEqual(HashTerms, g, a, b)
      /\ ItemsEqual(f, Items(a), Items(b)) <=> ItemsEqual(g, Items(a), Items(b))
      /\ Tag(a) = "DICT" /\ Tag(b) = "DICT" => (DictsEqual(HashTerms, f, a, b) <=> DictsEqual(HashTerms, g, a, b))
  BY SetLikeEqualSame, ItemsEqualSame, DictsEqualSame
<1>2. EqualBy(HashTerms, f, a, b) <=> EqualBy(HashTerms, g, a, b)
  BY <1>1, Zenon DEF EqualBy
<1> QED
  BY <1>2 DEF EqualBy

\* The first place where two sequences differ is in both.
LEMMA FirstOfBoth ==
  ASSUME NEW m \in Nat, NEW n \in Nat, NEW differs \in SUBSET (1..Min({m, n}))
  PROVE  differs # {} => /\ Min(differs) \in 1..m /\ Min(differs) \in 1..n
                         /\ Min(differs) \in differs
                         /\ \A i \in differs : Min(differs) <= i
<1>1. SUFFICES ASSUME differs # {}
               PROVE  /\ Min(differs) \in 1..m /\ Min(differs) \in 1..n
                      /\ Min(differs) \in differs
                      /\ \A i \in differs : Min(differs) <= i
  OBVIOUS
<1>2. Min({m, n}) \in Nat /\ Min({m, n}) <= m /\ Min({m, n}) <= n
  BY MinIs
<1>3. differs \subseteq Nat
  BY <1>2
<1>4. PICK x \in differs : \A y \in differs : x <= y
  BY <1>1, <1>3, LeastNumber
<1>5. Min(differs) \in differs /\ \A i \in differs : Min(differs) <= i
  BY <1>4 DEF Min
<1>6. Min(differs) \in 1..Min({m, n})
  BY <1>5
<1> HIDE DEF Min
<1>7. PICK k, l \in Nat : k = Min(differs) /\ l = Min({m, n}) /\ k \in 1..l /\ l <= m /\ l <= n
  BY <1>2, <1>6
<1>8. k \in 1..m /\ k \in 1..n
  BY <1>7
<1> QED
  BY <1>5, <1>7, <1>8

LEMMA OrderSame ==
  ASSUME NEW n \in Nat, NEW a \in Cells, NEW b \in Cells, a <= n + 1, b <= n + 1,
         NEW f, NEW g, AgreeUpto(n, f, g)
  PROVE  OrderBy(f, a, b) = OrderBy(g, a, b)
<1>1. OrderItems(f, Items(a), Items(b)) = OrderItems(g, Items(a), Items(b))
  <2> DEFINE differs == {i \in 1..Min({Len(Items(a)), Len(Items(b))}) : ~Equal(Items(a)[i], Items(b)[i])}
  <2>1. Len(Items(a)) \in Nat /\ Len(Items(b)) \in Nat
    BY ItemsBelow
  <2>2. differs # {} => Min(differs) \in 1..Len(Items(a)) /\ Min(differs) \in 1..Len(Items(b))
    <3>1. differs \in SUBSET (1..Min({Len(Items(a)), Len(Items(b))}))
      OBVIOUS
    <3> HIDE DEF differs
    <3> QED
      BY <2>1, <3>1, FirstOfBoth
  <2> HIDE DEF differs
  <2>3. differs # {} => f[<<Items(a)[Min(differs)], Items(b)[Min(differs)]>>]
                          = g[<<Items(a)[Min(differs)], Items(b)[Min(differs)]>>]
    <3>1. differs # {} => Items(a)[Min(differs)] \in 1..n /\ Items(b)[Min(differs)] \in 1..n
      BY <2>2, ItemsBelow, BelowIsUpto
    <3> QED
      BY <3>1 DEF AgreeUpto
  <2> QED
    BY <2>3, Zenon DEF OrderItems, AtFirst, Differing, differs
<1> QED
  BY <1>1, Zenon DEF OrderBy

RanksBy(rank, a, b) == [op \in Orderings |-> RankBy(rank, op, a, b)]

LEMMA RanksSame ==
  ASSUME NEW n \in Nat, NEW a \in Cells, NEW b \in Cells, a <= n + 1, b <= n + 1,
         NEW f, NEW g, AgreeUpto(n, f, g)
  PROVE  RanksBy(f, a, b) = RanksBy(g, a, b)
<1>1. ASSUME NEW op \in Orderings PROVE RankBy(f, op, a, b) = RankBy(g, op, a, b)
  <2>1. RankItems(f, op, Items(a), Items(b)) = RankItems(g, op, Items(a), Items(b))
    <3> DEFINE differs == {i \in 1..Min({Len(Items(a)), Len(Items(b))}) : ~Same(Items(a)[i], Items(b)[i])}
    <3>1. Len(Items(a)) \in Nat /\ Len(Items(b)) \in Nat
      BY ItemsBelow
    <3>2. differs # {} => Min(differs) \in 1..Len(Items(a)) /\ Min(differs) \in 1..Len(Items(b))
      <4>1. differs \in SUBSET (1..Min({Len(Items(a)), Len(Items(b))}))
        OBVIOUS
      <4> HIDE DEF differs
      <4> QED
        BY <3>1, <4>1, FirstOfBoth
    <3> HIDE DEF differs
    <3>3. differs # {} => f[<<Items(a)[Min(differs)], Items(b)[Min(differs)]>>]
                            = g[<<Items(a)[Min(differs)], Items(b)[Min(differs)]>>]
      <4>1. differs # {} => Items(a)[Min(differs)] \in 1..n /\ Items(b)[Min(differs)] \in 1..n
        BY <3>2, ItemsBelow, BelowIsUpto
      <4> QED
        BY <4>1 DEF AgreeUpto
    <3> QED
      BY <3>3, Zenon DEF RankItems, RankAt, differs
  <2> QED
    BY <2>1, Zenon DEF RankBy
<1> QED
  BY <1>1, Zenon DEF RanksBy

\* Equality is what its definition says.
LEMMA AreEqualIs == AreEqual = [p \in Cells \X Cells |-> EqualBy(HashTerms, AreEqual, p[1], p[2])]
<1> DEFINE Upto(n, f) == f = [p \in (1..n) \X (1..n) |-> EqualBy(HashTerms, f, p[1], p[2])]
           T == {n \in Nat : n <= Len(heap) => \E f : Upto(n, f)}
<1>1. 0 \in T
  <2>1. (1..0) \X (1..0) = {}
    OBVIOUS
  <2>2. Upto(0, [p \in {} |-> 0])
    BY <2>1
  <2> QED
    BY <2>2
<1>2. ASSUME NEW n \in Nat, n \in T, n + 1 <= Len(heap)
      PROVE  \E g : Upto(n + 1, g)
  <2>1. PICK f : Upto(n, f)
    <3> HIDE DEF Upto
    <3> QED
      BY <1>2, CellsAre
  <2> DEFINE old == (1..n) \X (1..n)
             new == (1..(n + 1)) \X (1..(n + 1))
             g == [p \in new |-> IF p \in old THEN f[p] ELSE EqualBy(HashTerms, f, p[1], p[2])]
  <2>2. old \subseteq new
    OBVIOUS
  <2>3. AgreeUpto(n, f, g)
    BY <2>2 DEF AgreeUpto
  <2>4. ASSUME NEW p \in new PROVE g[p] = EqualBy(HashTerms, g, p[1], p[2])
    <3>1. p[1] \in Cells /\ p[2] \in Cells /\ p[1] <= n + 1 /\ p[2] <= n + 1
      BY <1>2, CellsAre DEF Cells
    <3> HIDE DEF g
    <3>2. EqualBy(HashTerms, f, p[1], p[2]) = EqualBy(HashTerms, g, p[1], p[2])
      BY <2>3, <3>1, EqualSame
    <3>3. p \in old => f[p] = EqualBy(HashTerms, f, p[1], p[2])
      BY <2>1
    <3>4. g[p] = EqualBy(HashTerms, f, p[1], p[2])
      BY <3>3 DEF g
    <3> QED
      BY <3>2, <3>4
  <2>5. g = [p \in new |-> g[p]]
    OBVIOUS
  <2> HIDE DEF g
  <2>6. g = [p \in new |-> EqualBy(HashTerms, g, p[1], p[2])]
    BY <2>4, <2>5
  <2> QED
    BY <2>6
<1>3. \A n \in Nat : n \in T => n + 1 \in T
  <2> HIDE DEF Upto
  <2> QED
    BY <1>2, CellsAre
<1>4. Len(heap) \in T
  <2>1. \A n \in Nat : n \in T
    <3> HIDE DEF T
    <3> QED
      BY <1>1, <1>3, Induction
  <2> QED
    BY <2>1, CellsAre
<1> DEFINE Is(f) == f = [p \in Cells \X Cells |-> EqualBy(HashTerms, f, p[1], p[2])]
<1>5. \E f : Is(f)
  BY <1>4, CellsAre DEF Cells
<1>6. AreEqual = CHOOSE f : Is(f)
  BY Zenon DEF AreEqual
<1>7. Is(CHOOSE f : Is(f))
  <2> HIDE DEF Is
  <2> QED
    BY <1>5
<1> QED
  BY <1>6, <1>7

\* So is the order of the code.
LEMMA OrdersIs == Orders = [p \in Cells \X Cells |-> OrderBy(Orders, p[1], p[2])]
<1> DEFINE Upto(n, f) == f = [p \in (1..n) \X (1..n) |-> OrderBy(f, p[1], p[2])]
           T == {n \in Nat : n <= Len(heap) => \E f : Upto(n, f)}
<1>1. 0 \in T
  <2>1. (1..0) \X (1..0) = {}
    OBVIOUS
  <2>2. Upto(0, [p \in {} |-> 0])
    BY <2>1
  <2> QED
    BY <2>2
<1>2. ASSUME NEW n \in Nat, n \in T, n + 1 <= Len(heap)
      PROVE  \E g : Upto(n + 1, g)
  <2>1. PICK f : Upto(n, f)
    <3> HIDE DEF Upto
    <3> QED
      BY <1>2, CellsAre
  <2> DEFINE old == (1..n) \X (1..n)
             new == (1..(n + 1)) \X (1..(n + 1))
             g == [p \in new |-> IF p \in old THEN f[p] ELSE OrderBy(f, p[1], p[2])]
  <2>2. old \subseteq new
    OBVIOUS
  <2>3. AgreeUpto(n, f, g)
    BY <2>2 DEF AgreeUpto
  <2>4. ASSUME NEW p \in new PROVE g[p] = OrderBy(g, p[1], p[2])
    <3>1. p[1] \in Cells /\ p[2] \in Cells /\ p[1] <= n + 1 /\ p[2] <= n + 1
      BY <1>2, CellsAre DEF Cells
    <3> HIDE DEF g
    <3>2. OrderBy(f, p[1], p[2]) = OrderBy(g, p[1], p[2])
      BY <2>3, <3>1, OrderSame
    <3>3. p \in old => f[p] = OrderBy(f, p[1], p[2])
      BY <2>1
    <3>4. g[p] = OrderBy(f, p[1], p[2])
      BY <3>3 DEF g
    <3> QED
      BY <3>2, <3>4
  <2>5. g = [p \in new |-> g[p]]
    OBVIOUS
  <2> HIDE DEF g
  <2>6. g = [p \in new |-> OrderBy(g, p[1], p[2])]
    BY <2>4, <2>5
  <2> QED
    BY <2>6
<1>3. \A n \in Nat : n \in T => n + 1 \in T
  <2> HIDE DEF Upto
  <2> QED
    BY <1>2, CellsAre
<1>4. Len(heap) \in T
  <2>1. \A n \in Nat : n \in T
    <3> HIDE DEF T
    <3> QED
      BY <1>1, <1>3, Induction
  <2> QED
    BY <2>1, CellsAre
<1> DEFINE Is(f) == f = [p \in Cells \X Cells |-> OrderBy(f, p[1], p[2])]
<1>5. \E f : Is(f)
  BY <1>4, CellsAre DEF Cells
<1>6. Orders = CHOOSE f : Is(f)
  BY Zenon DEF Orders
<1>7. Is(CHOOSE f : Is(f))
  <2> HIDE DEF Is
  <2> QED
    BY <1>5
<1> QED
  BY <1>6, <1>7

\* And that of Python.
LEMMA RankingIs == Ranking = [p \in Cells \X Cells |-> RanksBy(Ranking, p[1], p[2])]
<1> DEFINE Upto(n, f) == f = [p \in (1..n) \X (1..n) |-> RanksBy(f, p[1], p[2])]
           T == {n \in Nat : n <= Len(heap) => \E f : Upto(n, f)}
<1>1. 0 \in T
  <2>1. (1..0) \X (1..0) = {}
    OBVIOUS
  <2>2. Upto(0, [p \in {} |-> 0])
    BY <2>1
  <2> QED
    BY <2>2
<1>2. ASSUME NEW n \in Nat, n \in T, n + 1 <= Len(heap)
      PROVE  \E g : Upto(n + 1, g)
  <2>1. PICK f : Upto(n, f)
    <3> HIDE DEF Upto
    <3> QED
      BY <1>2, CellsAre
  <2> DEFINE old == (1..n) \X (1..n)
             new == (1..(n + 1)) \X (1..(n + 1))
             g == [p \in new |-> IF p \in old THEN f[p] ELSE RanksBy(f, p[1], p[2])]
  <2>2. old \subseteq new
    OBVIOUS
  <2>3. AgreeUpto(n, f, g)
    BY <2>2 DEF AgreeUpto
  <2>4. ASSUME NEW p \in new PROVE g[p] = RanksBy(g, p[1], p[2])
    <3>1. p[1] \in Cells /\ p[2] \in Cells /\ p[1] <= n + 1 /\ p[2] <= n + 1
      BY <1>2, CellsAre DEF Cells
    <3> HIDE DEF g
    <3>2. RanksBy(f, p[1], p[2]) = RanksBy(g, p[1], p[2])
      BY <2>3, <3>1, RanksSame
    <3>3. p \in old => f[p] = RanksBy(f, p[1], p[2])
      BY <2>1
    <3>4. g[p] = RanksBy(f, p[1], p[2])
      BY <3>3 DEF g
    <3> QED
      BY <3>2, <3>4
  <2>5. g = [p \in new |-> g[p]]
    OBVIOUS
  <2> HIDE DEF g
  <2>6. g = [p \in new |-> RanksBy(g, p[1], p[2])]
    BY <2>4, <2>5
  <2> QED
    BY <2>6
<1>3. \A n \in Nat : n \in T => n + 1 \in T
  <2> HIDE DEF Upto
  <2> QED
    BY <1>2, CellsAre
<1>4. Len(heap) \in T
  <2>1. \A n \in Nat : n \in T
    <3> HIDE DEF T
    <3> QED
      BY <1>1, <1>3, Induction
  <2> QED
    BY <2>1, CellsAre
<1> DEFINE Is(f) == f = [p \in Cells \X Cells |-> RanksBy(f, p[1], p[2])]
<1>5. \E f : Is(f)
  BY <1>4, CellsAre DEF Cells
<1>6. Ranking = CHOOSE f : Is(f)
  BY Zenon DEF Ranking, RanksBy
<1>7. Is(CHOOSE f : Is(f))
  <2> HIDE DEF Is
  <2> QED
    BY <1>5
<1> QED
  BY <1>6, <1>7

\* What each function is of a cell, or of two.
LEMMA CellFunctions ==
  ASSUME NEW v \in Cells
  PROVE  /\ Hashable(v) = CanHashBy(CanHash, v)
         /\ HashOf(v) = HashBy(HashTerms, v)
         /\ Denotes(v) = DenotesBy(Denotation, v)
         /\ Reachable[v] = ReachBy(Reachable, v)
<1>1. Hashable(v) = CanHashBy(CanHash, v)
  <2> DEFINE By(w) == CanHashBy(CanHash, w)
  <2>1. CanHash = [w \in Cells |-> By(w)]
    BY CanHashIs, Zenon
  <2> HIDE DEF By
  <2>2. CanHash[v] = By(v)
    BY <2>1
  <2> QED
    BY <2>2 DEF By, Hashable
<1>2. HashOf(v) = HashBy(HashTerms, v)
  <2> DEFINE By(w) == HashBy(HashTerms, w)
  <2>1. HashTerms = [w \in Cells |-> By(w)]
    BY HashTermsIs, Zenon
  <2> HIDE DEF By
  <2>2. HashTerms[v] = By(v)
    BY <2>1
  <2> QED
    BY <2>2 DEF By, HashOf
<1>3. Denotes(v) = DenotesBy(Denotation, v)
  <2> DEFINE By(w) == DenotesBy(Denotation, w)
  <2>1. Denotation = [w \in Cells |-> By(w)]
    BY DenotationIs, Zenon
  <2> HIDE DEF By
  <2>2. Denotation[v] = By(v)
    BY <2>1
  <2> QED
    BY <2>2 DEF By, Denotes
<1>4. Reachable[v] = ReachBy(Reachable, v)
  <2> DEFINE By(w) == ReachBy(Reachable, w)
  <2>1. Reachable = [w \in Cells |-> By(w)]
    BY ReachableIs, Zenon
  <2> HIDE DEF By
  <2>2. Reachable[v] = By(v)
    BY <2>1
  <2> QED
    BY <2>2 DEF By
<1> QED
  BY <1>1, <1>2, <1>3, <1>4, Zenon

\* What a value denotes, tag by tag.
LEMMA DenotesIs ==
  ASSUME NEW v \in Cells
  PROVE  /\ Tag(v) = "NONE" => Denotes(v) = <<"none">>
         /\ IsNan(v) => Denotes(v) = <<"nan", v>>
         /\ IsNumber(v) /\ ~IsNan(v) => Denotes(v) = <<"num", N(v)[1]>>
         /\ Tag(v) = "STRING" => Denotes(v) = <<"str", N(v)>>
         /\ Tag(v) = "BYTES" => Denotes(v) = <<"bytes", N(v)>>
         /\ Tag(v) = "TUPLE" => Denotes(v) = <<"tuple", AllOf(Denotation, Items(v))>>
         /\ Tag(v) = "LIST" => Denotes(v) = <<"list", AllOf(Denotation, Items(v))>>
         /\ SetLike(v) => Denotes(v) = <<"set", SetOf(Denotation, SetElements(v))>>
         /\ Tag(v) = "DICT" => Denotes(v) = <<"dict", PairsOf(Denotation, Items(v), Vals(v))>>
         /\ Tag(v) = "RANGE" =>
              Denotes(v) = <<"range", InOrder(RangeSet(N(v)[1], N(v)[2], N(v)[3]), N(v)[3])>>
         /\ /\ ~IsNumber(v) /\ ~SetLike(v)
            /\ Tag(v) \notin {"NONE", "STRING", "BYTES", "TUPLE", "LIST", "DICT", "RANGE"}
            => Denotes(v) = <<"at", v>>
<1> DEFINE f == Denotation
<1>1. Denotes(v) = DenotesBy(f, v)
  BY CellFunctions
<1> HIDE DEF f
<1> QED
  BY <1>1, DenotesCases DEF f

LEMMA PairFunctions ==
  ASSUME NEW a \in Cells, NEW b \in Cells
  PROVE  /\ Equal(a, b) = EqualBy(HashTerms, AreEqual, a, b)
         /\ AreEqual[<<a, b>>] = EqualBy(HashTerms, AreEqual, a, b)
         /\ Order(a, b) = OrderBy(Orders, a, b)
         /\ \A op \in Orderings : Ranks(op, a, b) = RankBy(Ranking, op, a, b)
<1> DEFINE E(x, y) == EqualBy(HashTerms, AreEqual, x, y)
           O(x, y) == OrderBy(Orders, x, y)
           R(x, y) == RanksBy(Ranking, x, y)
<1>2. /\ AreEqual = [p \in Cells \X Cells |-> E(p[1], p[2])]
      /\ Orders = [p \in Cells \X Cells |-> O(p[1], p[2])]
      /\ Ranking = [p \in Cells \X Cells |-> R(p[1], p[2])]
  BY AreEqualIs, OrdersIs, RankingIs, Zenon
<1> HIDE DEF E, O, R
<1>3. AreEqual[<<a, b>>] = E(a, b) /\ Orders[<<a, b>>] = O(a, b) /\ Ranking[<<a, b>>] = R(a, b)
  BY <1>2
<1>4. ASSUME NEW op \in Orderings PROVE Ranks(op, a, b) = RankBy(Ranking, op, a, b)
  BY <1>3 DEF R, RanksBy, Ranks
<1> QED
  BY <1>3, <1>4, Zenon DEF E, O, Equal, Order

-----------------------------------------------------------------------------
(* What is met in a comparison. *)

\* x is a cell, and all that it holds is held by a.
Under(x, a) == x \in Cells /\ Reachable[x] \subseteq Reachable[a]

LEMMA ReachSelf ==
  ASSUME NEW v \in Cells
  PROVE  v \in Reachable[v] /\ Under(v, v)
BY CellFunctions DEF ReachBy, Under

LEMMA ItemsUnder ==
  ASSUME NEW v \in Cells, NEW x \in ToSet(Items(v)) \cup ToSet(Vals(v))
  PROVE  Under(x, v)
<1>1. Reachable[v] = ReachBy(Reachable, v)
  BY CellFunctions
<1>2. Reachable[x] \subseteq Reachable[v]
  BY <1>1 DEF ReachBy
<1>3. x \in Cells
  <2>1. x \in 1..(v - 1)
    BY ItemsBelow
  <2> QED
    BY <2>1, BelowIsCell
<1> QED
  BY <1>2, <1>3 DEF Under

LEMMA UnderUnder ==
  ASSUME NEW x, NEW y, NEW z, Under(x, y), Under(y, z)
  PROVE  Under(x, z)
BY DEF Under

LEMMA ElementsUnder ==
  ASSUME NEW v \in Cells
  PROVE  /\ \A i \in 1..Len(Items(v)) : Under(Items(v)[i], v)
         /\ \A i \in 1..Len(Vals(v)) : Under(Vals(v)[i], v)
         /\ \A i \in 1..Len(SetElements(v)) : Under(SetElements(v)[i], v)
<1>1. \A i \in 1..Len(Items(v)) : Under(Items(v)[i], v)
  BY ItemsUnder, ItemsBelow
<1>2. \A i \in 1..Len(Vals(v)) : Under(Vals(v)[i], v)
  BY ItemsUnder, ItemsBelow
<1>3. CASE IsKeys(v)
  <2>1. Items(v)[1] \in Cells /\ Under(Items(v)[1], v)
    BY <1>3, KeysBelow, ItemsUnder DEF IsKeys
  <2>2. \A x \in ToSet(Items(Items(v)[1])) : Under(x, v)
    BY <2>1, ItemsUnder, UnderUnder
  <2>3. SetElements(v) = Items(Items(v)[1])
    BY <1>3 DEF SetElements, KeysOf
  <2>4. \A i \in 1..Len(SetElements(v)) : SetElements(v)[i] \in ToSet(Items(Items(v)[1]))
    BY <2>1, <2>3, ItemsBelow
  <2> QED
    BY <1>1, <1>2, <2>2, <2>4
<1>4. CASE ~IsKeys(v)
  BY <1>1, <1>2, <1>4, Zenon DEF SetElements
<1> QED
  BY <1>3, <1>4

LEMMA ClearUnder ==
  ASSUME NEW a \in Cells, NEW b \in Cells, Clear(a, b),
         NEW x, NEW y, Under(x, a) \/ Under(x, b), Under(y, a) \/ Under(y, b)
  PROVE  Clear(x, y)
<1>1. Reachable[x] \cup Reachable[y] \subseteq Reachable[a] \cup Reachable[b]
  BY DEF Under
<1>2. \A x1 \in Reachable[a] \cup Reachable[b] :
         ~Wide(x1) /\ \A y1 \in Reachable[a] \cup Reachable[b] : ~Inexact(x1, y1) /\ ~StepsDiffer(x1, y1)
  BY Zenon DEF Clear
<1> QED
  BY <1>1, <1>2, Zenon DEF Clear

\* Of two values that are clear, neither is an exception.
LEMMA ClearSelf ==
  ASSUME NEW a \in Cells, NEW b \in Cells, Clear(a, b)
  PROVE  /\ ~Wide(a) /\ ~Wide(b)
         /\ ~Inexact(a, b) /\ ~Inexact(b, a) /\ ~StepsDiffer(a, b)
<1>1. a \in Reachable[a] \cup Reachable[b] /\ b \in Reachable[a] \cup Reachable[b]
  BY ReachSelf
<1>2. \A x \in Reachable[a] \cup Reachable[b] :
         ~Wide(x) /\ \A y \in Reachable[a] \cup Reachable[b] : ~Inexact(x, y) /\ ~StepsDiffer(x, y)
  BY Zenon DEF Clear
<1> QED
  BY <1>1, <1>2, Zenon

-----------------------------------------------------------------------------
(* Sets by the sequence of their items. *)

OneToOne(e, n) == \A j, k \in 1..n : e[j] = e[k] => j = k

LEMMA ImageOf ==
  ASSUME NEW n \in Nat, NEW e, OneToOne(e, n)
  PROVE  IsFiniteSet({e[k] : k \in 1..n}) /\ Cardinality({e[k] : k \in 1..n}) = n
<1> DEFINE R == {e[k] : k \in 1..n}
<1>1. \A j, k \in 1..n : j < k => e[j] # e[k]
  BY DEF OneToOne
<1>2. Cardinality(R) = n
  <2> HIDE DEF R
  <2> QED
    BY <1>1, CountOf DEF R
<1>3. [k \in 1..n |-> e[k]] \in Surjection(1..n, R)
  BY DEF Surjection
<1>4. IsFiniteSet(1..n)
  BY FS_Interval
<1>5. IsFiniteSet(R)
  <2> HIDE DEF R
  <2> QED
    BY <1>3, <1>4, FS_Surjection
<1> QED
  BY <1>2, <1>5

Image(e, n)         == {e[k] : k \in 1..n}
Covered(e, m, f, n) == \A k \in 1..m : e[k] \in Image(f, n)

\* As many items, all of them in the other: then the sets are the same.
LEMMA SameImages ==
  ASSUME NEW m \in Nat, NEW n \in Nat, NEW e, NEW f, OneToOne(e, m), OneToOne(f, n)
  PROVE  Image(e, m) = Image(f, n) <=> m = n /\ Covered(e, m, f, n)
<1> USE DEF Image, Covered
<1> DEFINE A == {e[k] : k \in 1..m}
           B == {f[k] : k \in 1..n}
<1>1. Cardinality(A) = m /\ IsFiniteSet(B) /\ Cardinality(B) = n
  BY ImageOf
<1>2. (\A k \in 1..m : e[k] \in B) <=> A \subseteq B
  OBVIOUS
<1> HIDE DEF A, B
<1>3. ASSUME A \subseteq B, m = n PROVE A = B
  <2>1. A \in SUBSET B
    BY <1>3
  <2> QED
    BY <1>1, <1>3, <2>1, FS_Subset
<1>4. A = B <=> m = n /\ \A k \in 1..m : e[k] \in B
  BY <1>1, <1>2, <1>3
<1> QED
  BY <1>4 DEF A, B

-----------------------------------------------------------------------------
(* Equality is denoting the same. *)

\* The code and Python say the same of x and y.
Agree(x, y) ==
  /\ Equal(x, y) <=> Same(x, y)
  /\ Hashable(x) /\ Hashable(y) /\ Same(x, y) => HashOf(x) = HashOf(y)

\* They do of all that comes before a or b.
Settled(a, b) ==
  \A x, y \in Cells : (x < a \/ x < b) /\ (y < a \/ y < b) /\ Clear(x, y) => Agree(x, y)

\* x is held by a.
Part(x, a) == x \in 1..(a - 1) /\ Under(x, a)

LEMMA PartsOf ==
  ASSUME NEW v \in Cells
  PROVE  /\ \A i \in 1..Len(Items(v)) : Part(Items(v)[i], v)
         /\ \A i \in 1..Len(Vals(v)) : Part(Vals(v)[i], v)
         /\ \A i \in 1..Len(SetElements(v)) : Part(SetElements(v)[i], v)
BY ItemsBelow, ElementsBelow, ElementsUnder DEF Part

LEMMA AgreeOnParts ==
  ASSUME NEW a \in Cells, NEW b \in Cells, Clear(a, b), Settled(a, b),
         NEW x, NEW y, Part(x, a) \/ Part(x, b), Part(y, a) \/ Part(y, b)
  PROVE  Agree(x, y) /\ x \in Cells /\ y \in Cells
<1>1. x \in Cells /\ y \in Cells
  BY BelowIsCell DEF Part
<1>2. (x < a \/ x < b) /\ (y < a \/ y < b)
  BY BelowIsCell DEF Part
<1>3. Clear(x, y)
  BY ClearUnder DEF Part
<1> QED
  BY <1>1, <1>2, <1>3 DEF Settled

LEMMA MatchesIs ==
  ASSUME NEW x, NEW y, Agree(x, y), Hashable(x), Hashable(y)
  PROVE  Matches(HashTerms, AreEqual, x, y) <=> Same(x, y)
BY DEF Matches, HashOf, Agree, Equal

\* Items of which no two match denote different things.
LEMMA NoneSame ==
  ASSUME NEW s, NoneMatch(s), \A i, j \in 1..Len(s) : Agree(s[i], s[j])
  PROVE  OneToOne(AllOf(Denotation, s), Len(s))
<1>1. ASSUME NEW i \in 1..Len(s), NEW j \in 1..Len(s), Same(s[i], s[j]) PROVE i = j
  <2>1. Hashable(s[i]) /\ Hashable(s[j]) /\ Agree(s[i], s[j])
    BY DEF NoneMatch
  <2>2. Matches(HashTerms, AreEqual, s[i], s[j])
    BY <1>1, <2>1, MatchesIs
  <2> QED
    BY <2>2 DEF NoneMatch
<1> QED
  BY <1>1 DEF OneToOne, AllOf, Same, Denotes

LEMMA SetOfIs ==
  ASSUME NEW s
  PROVE  SetOf(Denotation, s) = Image(AllOf(Denotation, s), Len(s))
BY DEF SetOf, AllOf, Image

\* The elements of a set or of a keys view can be hashed and no two match.
LEMMA ElementsDistinct ==
  ASSUME NEW v \in Cells, SetLike(v)
  PROVE  NoneMatch(SetElements(v))
<1>1. CASE IsKeys(v)
  BY <1>1, KeysBelow, DictIs DEF IsKeys, SetElements, KeysOf
<1>2. CASE ~IsKeys(v)
  <2>1. Tag(v) \in {"SET", "FROZENSET"}
    BY <1>2 DEF SetLike
  <2>2. NoneMatch(Items(v))
    BY <2>1, HeapAssumption DEF WellFormed
  <2> QED
    BY <1>2, <2>2 DEF SetElements
<1> QED
  BY <1>1, <1>2

\* A look-up by hash finds what denotes the same.
LEMMA ContainsIs ==
  ASSUME NEW b \in Cells, SetLike(b), NEW x, Hashable(x),
         \A i \in 1..Len(SetElements(b)) : Agree(SetElements(b)[i], x)
  PROVE  SetLikeContains(HashTerms, AreEqual, b, x) <=> Denotes(x) \in SetOf(Denotation, SetElements(b))
<1> DEFINE s == SetElements(b)
<1>1. \A i \in 1..Len(s) : Matches(HashTerms, AreEqual, s[i], x) <=> Same(s[i], x)
  BY ElementsDistinct, MatchesIs DEF NoneMatch
<1>2. Denotes(x) \in SetOf(Denotation, s) <=> \E i \in 1..Len(s) : Same(s[i], x)
  BY DEF SetOf, Same, Denotes
<1>3. SetLikeContains(HashTerms, AreEqual, b, x) <=> \E i \in 1..Len(s) : Matches(HashTerms, AreEqual, s[i], x)
  <2>1. CASE IsKeys(b)
    BY <2>1 DEF SetLikeContains, DictGet, SetElements, KeysOf
  <2>2. CASE ~IsKeys(b)
    <3>1. s = Items(b) /\ Tag(b) \in {"SET", "FROZENSET"}
      BY <2>2 DEF SetElements, SetLike
    <3>2. ToSet(Items(b)) = {Items(b)[i] : i \in 1..Len(Items(b))}
      BY ItemsBelow
    <3>3. SetContains(HashTerms, AreEqual, b, x) <=> \E i \in 1..Len(Items(b)) : Matches(HashTerms, AreEqual, Items(b)[i], x)
      BY <3>1, <3>2 DEF SetContains
    <3> QED
      BY <2>2, <3>1, <3>3 DEF SetLikeContains
  <2> QED
    BY <2>1, <2>2
<1> QED
  BY <1>1, <1>2, <1>3

LEMMA SetLikesAgree ==
  ASSUME NEW a \in Cells, NEW b \in Cells, Clear(a, b), Settled(a, b), SetLike(a), SetLike(b)
  PROVE  SetLikeEqual(HashTerms, AreEqual, a, b) <=> Same(a, b)
<1> DEFINE s == SetElements(a)
           t == SetElements(b)
           e == AllOf(Denotation, s)
           f == AllOf(Denotation, t)
<1>1. Len(s) \in Nat /\ Len(t) \in Nat /\ ToSet(s) = {s[i] : i \in 1..Len(s)}
  BY ElementsBelow
<1>2. NoneMatch(s) /\ NoneMatch(t)
  BY ElementsDistinct
<1>3. /\ \A i \in 1..Len(s) : Part(s[i], a)
      /\ \A i \in 1..Len(t) : Part(t[i], b)
  BY PartsOf
<1>4. OneToOne(e, Len(s)) /\ OneToOne(f, Len(t))
  <2>1. /\ \A i, j \in 1..Len(s) : Agree(s[i], s[j])
        /\ \A i, j \in 1..Len(t) : Agree(t[i], t[j])
    BY <1>3, AgreeOnParts
  <2> HIDE DEF s, t
  <2> QED
    BY <1>2, <2>1, NoneSame
<1>5. ASSUME NEW k \in 1..Len(s)
      PROVE  SetLikeContains(HashTerms, AreEqual, b, s[k]) <=> e[k] \in Image(f, Len(t))
  <2>1. Hashable(s[k])
    BY <1>2 DEF NoneMatch
  <2>2. \A i \in 1..Len(t) : Agree(t[i], s[k])
    BY <1>3, AgreeOnParts
  <2>3. SetLikeContains(HashTerms, AreEqual, b, s[k]) <=> Denotes(s[k]) \in SetOf(Denotation, t)
    BY <2>1, <2>2, ContainsIs
  <2>4. Denotes(s[k]) = e[k]
    BY DEF Denotes, AllOf
  <2> QED
    BY <2>3, <2>4, SetOfIs
<1>6. SetLikeEqual(HashTerms, AreEqual, a, b)
        <=> Len(s) = Len(t) /\ \A k \in 1..Len(s) : SetLikeContains(HashTerms, AreEqual, b, s[k])
  BY <1>1 DEF SetLikeEqual
<1>7. Denotes(a) = <<"set", SetOf(Denotation, s)>> /\ Denotes(b) = <<"set", SetOf(Denotation, t)>>
  BY DenotesIs
<1>8. Same(a, b) <=> Image(e, Len(s)) = Image(f, Len(t))
  BY <1>7, SetOfIs DEF Same
<1> HIDE DEF s, t, e, f
<1>9. Image(e, Len(s)) = Image(f, Len(t))
        <=> Len(s) = Len(t) /\ Covered(e, Len(s), f, Len(t))
  BY <1>1, <1>4, SameImages
<1> QED
  BY <1>5, <1>6, <1>8, <1>9 DEF Covered

LEMMA AllOfEqual ==
  ASSUME NEW s, NEW t, Len(s) \in Nat, Len(t) \in Nat
  PROVE  AllOf(Denotation, s) = AllOf(Denotation, t)
           <=> Len(s) = Len(t) /\ \A i \in 1..Len(s) : Same(s[i], t[i])
<1>1. ASSUME NEW m \in Nat, NEW n \in Nat, NEW e, NEW f
      PROVE  [i \in 1..m |-> e[i]] = [i \in 1..n |-> f[i]] <=> m = n /\ \A i \in 1..m : e[i] = f[i]
  <2>1. ASSUME [i \in 1..m |-> e[i]] = [i \in 1..n |-> f[i]] PROVE m = n /\ \A i \in 1..m : e[i] = f[i]
    <3>1. 1..m = 1..n
      BY <2>1
    <3>2. m = n
      BY <3>1
    <3> QED
      BY <2>1, <3>2
  <2> QED
    BY <2>1
<1> DEFINE e == [i \in 1..Len(s) |-> Denotation[s[i]]]
           f == [i \in 1..Len(t) |-> Denotation[t[i]]]
<1>2. AllOf(Denotation, s) = [i \in 1..Len(s) |-> e[i]] /\ AllOf(Denotation, t) = [i \in 1..Len(t) |-> f[i]]
  BY DEF AllOf
<1>3. Len(s) = Len(t) => \A i \in 1..Len(s) : e[i] = f[i] <=> Same(s[i], t[i])
  BY DEF Same, Denotes
<1> HIDE DEF e, f
<1> QED
  BY <1>1, <1>2, <1>3

LEMMA ItemsAgree ==
  ASSUME NEW a \in Cells, NEW b \in Cells, Clear(a, b), Settled(a, b),
         Tag(a) = Tag(b), Tag(a) \in {"LIST", "TUPLE"}
  PROVE  ItemsEqual(AreEqual, Items(a), Items(b)) <=> Same(a, b)
<1> DEFINE s == Items(a)
           t == Items(b)
<1>1. Len(s) \in Nat /\ Len(t) \in Nat
  BY ItemsBelow
<1>2. Len(s) = Len(t) => \A i \in 1..Len(s) : AreEqual[<<s[i], t[i]>>] <=> Same(s[i], t[i])
  BY PartsOf, AgreeOnParts DEF Agree, Equal
<1>3. Same(a, b) <=> AllOf(Denotation, s) = AllOf(Denotation, t)
  <2>1. PICK kind : Denotes(a) = <<kind, AllOf(Denotation, s)>> /\ Denotes(b) = <<kind, AllOf(Denotation, t)>>
    BY DenotesIs
  <2> QED
    BY <2>1 DEF Same
<1> HIDE DEF s, t
<1>4. AllOf(Denotation, s) = AllOf(Denotation, t)
        <=> Len(s) = Len(t) /\ \A i \in 1..Len(s) : Same(s[i], t[i])
  BY <1>1, AllOfEqual
<1>5. ItemsEqual(AreEqual, s, t) <=> Len(s) = Len(t) /\ \A i \in 1..Len(s) : AreEqual[<<s[i], t[i]>>]
  BY DEF ItemsEqual
<1> QED
  BY <1>2, <1>3, <1>4, <1>5 DEF s, t

LEMMA DictsAgree ==
  ASSUME NEW a \in Cells, NEW b \in Cells, Clear(a, b), Settled(a, b),
         Tag(a) = "DICT", Tag(b) = "DICT"
  PROVE  DictsEqual(HashTerms, AreEqual, a, b) <=> Same(a, b)
<1> DEFINE s == Items(a)
           t == Items(b)
           u == Vals(a)
           v == Vals(b)
           m == Len(s)
           n == Len(t)
           e == [i \in 1..m |-> <<Denotes(s[i]), Denotes(u[i])>>]
           f == [i \in 1..n |-> <<Denotes(t[i]), Denotes(v[i])>>]
<1>1. m \in Nat /\ n \in Nat /\ Len(u) = m /\ Len(v) = n /\ NoneMatch(s) /\ NoneMatch(t)
  BY ItemsBelow, DictIs
<1>2. /\ \A i \in 1..m : Part(s[i], a) /\ Part(u[i], a)
      /\ \A i \in 1..n : Part(t[i], b) /\ Part(v[i], b)
  BY <1>1, PartsOf
<1>3. OneToOne(AllOf(Denotation, s), m) /\ OneToOne(AllOf(Denotation, t), n)
  <2>1. /\ \A i, j \in 1..m : Agree(s[i], s[j])
        /\ \A i, j \in 1..n : Agree(t[i], t[j])
    BY <1>2, AgreeOnParts
  <2> HIDE DEF s, t
  <2> QED
    BY <1>1, <2>1, NoneSame
<1>4. OneToOne(e, m) /\ OneToOne(f, n)
  BY <1>3 DEF OneToOne, AllOf, Denotes
<1>5. ASSUME NEW i \in 1..m
      PROVE  (\E j \in DictGet(HashTerms, AreEqual, b, s[i]) : AreEqual[<<u[i], v[j]>>])
               <=> e[i] \in Image(f, n)
  <2>1. ASSUME NEW j \in 1..n
        PROVE  /\ Hashable(s[i]) /\ (Matches(HashTerms, AreEqual, t[j], s[i]) <=> Same(t[j], s[i]))
               /\ AreEqual[<<u[i], v[j]>>] <=> Same(u[i], v[j])
    <3>1. Hashable(s[i]) /\ Hashable(t[j])
      BY <1>1 DEF NoneMatch
    <3>2. Agree(t[j], s[i]) /\ Agree(u[i], v[j])
      BY <1>2, AgreeOnParts
    <3> QED
      BY <3>1, <3>2, MatchesIs DEF Agree, Equal
  <2>2. DictGet(HashTerms, AreEqual, b, s[i]) = {j \in 1..n : Same(t[j], s[i])}
    BY <2>1 DEF DictGet
  <2>3. (\E j \in DictGet(HashTerms, AreEqual, b, s[i]) : AreEqual[<<u[i], v[j]>>])
          <=> \E j \in 1..n : Same(t[j], s[i]) /\ Same(u[i], v[j])
    BY <2>1, <2>2
  <2>4. \A j \in 1..n : e[i] = f[j] <=> Same(t[j], s[i]) /\ Same(u[i], v[j])
    BY DEF Same
  <2> QED
    BY <2>3, <2>4 DEF Image
<1>6. DictsEqual(HashTerms, AreEqual, a, b)
        <=> m = n /\ \A i \in 1..m : \E j \in DictGet(HashTerms, AreEqual, b, s[i]) : AreEqual[<<u[i], v[j]>>]
  BY DEF DictsEqual
<1>7. Same(a, b) <=> Image(e, m) = Image(f, n)
  <2>1. Denotes(a) = <<"dict", PairsOf(Denotation, s, u)>> /\ Denotes(b) = <<"dict", PairsOf(Denotation, t, v)>>
    BY DenotesIs
  <2>2. /\ PairsOf(Denotation, s, u) = Image(e, m)
        /\ PairsOf(Denotation, t, v) = Image(f, n)
    BY DEF PairsOf, Denotes, Image
  <2> QED
    BY <2>1, <2>2 DEF Same
<1> HIDE DEF s, t, u, v, m, n, e, f
<1>8. Image(e, m) = Image(f, n)
        <=> m = n /\ Covered(e, m, f, n)
  BY <1>1, <1>4, SameImages
<1> QED
  BY <1>5, <1>6, <1>7, <1>8 DEF Covered

\* The k-th number of a range is k - 1 steps from the start.
LEMMA NumbersOfRange ==
  ASSUME NEW start \in Ints, NEW stop \in Ints, NEW step \in Ints, step # 0,
         stop - start \in (-IntMax)..IntMax
  PROVE  /\ RangeLen(start, stop, step) \in Nat
         /\ InOrder(RangeSet(start, stop, step), step)
              = [k \in 1..RangeLen(start, stop, step) |-> start + (k - 1) * step]
<1> DEFINE n == RangeLen(start, stop, step)
           R == RangeSet(start, stop, step)
           e == [k \in 1..n |-> start + (k - 1) * step]
<1>1. start \in Int /\ stop \in Int /\ step \in Int
  BY Word DEF Ints
<1>2. n \in Nat /\ \A k \in Nat : k < n <=> Within(start + k * step, stop, step)
  BY RangeLenExact
<1>3. \A x \in Int : x \in R <=> Within(x, stop, step) /\ \E k \in Nat : x = start + k * step
  BY <1>1, RangeMember
<1>4. R \subseteq Int
  BY <1>1 DEF RangeSet
<1> HIDE DEF n, R
<1>5. e \in Seq(Int) /\ Len(e) = n
  BY <1>1, <1>2
<1>6. ASSUME NEW x \in R PROVE \E k \in 1..n : x = e[k]
  <2>1. PICK k \in Nat : x = start + k * step /\ Within(start + k * step, stop, step)
    BY <1>3, <1>4
  <2>2. k + 1 \in 1..n /\ k + 1 - 1 = k
    BY <1>2, <2>1
  <2> QED
    BY <2>1, <2>2
<1>7. ASSUME NEW k \in 1..n PROVE e[k] \in R
  <2>1. PICK j \in Nat : j = k - 1 /\ j < n
    BY <1>2
  <2>2. Within(start + j * step, stop, step)
    BY <1>2, <2>1
  <2>3. start + j * step \in Int
    BY <1>1
  <2>4. start + j * step \in R
    BY <1>3, <2>2, <2>3
  <2> QED
    BY <2>1, <2>4
<1>8. ASSUME NEW j \in 1..n, NEW k \in 1..n, j < k
      PROVE  IF step > 0 THEN e[j] < e[k] ELSE e[j] > e[k]
  <2>1. PICK d \in Nat, i \in Nat : d = k - j /\ d > 0 /\ i = j - 1 /\ k - 1 = i + d
    BY <1>2, <1>8
  <2>2. (i + d) * step = i * step + d * step
    BY <1>1
  <2>3. IF step > 0 THEN d * step > 0 ELSE d * step < 0
    BY <1>1, <2>1
  <2>4. e[j] = start + i * step /\ e[k] = start + (i * step + d * step)
    BY <2>1, <2>2
  <2>5. i * step \in Int /\ d * step \in Int
    BY <1>1
  <2> QED
    BY <1>1, <2>3, <2>4, <2>5
<1>9. Enumerates(e, R, step)
  <2>1. R = {e[k] : k \in 1..n}
    BY <1>6, <1>7
  <2> HIDE DEF e
  <2> QED
    BY <1>5, <1>8, <2>1, Zenon DEF Enumerates
<1> HIDE DEF e
<1>10. InOrder(R, step) = e
  BY <1>1, <1>9, InOrderIs
<1> QED
  BY <1>2, <1>10 DEF n, R, e

\* A range that is not wide, and what it goes through.
LEMMA RangeIs ==
  ASSUME NEW v \in Cells, Tag(v) = "RANGE", ~Wide(v)
  PROVE  /\ N(v)[1] \in Ints /\ N(v)[2] \in Ints /\ N(v)[3] \in Ints /\ N(v)[3] # 0
         /\ N(v)[1] \in Int /\ N(v)[3] \in Int
         /\ N(v)[2] - N(v)[1] \in (-IntMax)..IntMax
         /\ ValueRangeLen(v) \in Nat
         /\ Denotes(v) = <<"range", [k \in 1..ValueRangeLen(v) |-> N(v)[1] + (k - 1) * N(v)[3]]>>
<1>1. N(v)[1] \in Ints /\ N(v)[2] \in Ints /\ N(v)[3] \in Ints /\ N(v)[3] # 0
  BY HeapAssumption DEF WellFormed
<1>2. PICK x, y, z \in Int : x = N(v)[1] /\ y = N(v)[2] /\ z = N(v)[3]
  BY <1>1, Word DEF Ints
<1>3. y - x \in (-IntMax)..IntMax
  BY <1>2, Word DEF Wide, Magnitude
<1>4. /\ RangeLen(x, y, z) \in Nat
      /\ InOrder(RangeSet(x, y, z), z) = [k \in 1..RangeLen(x, y, z) |-> x + (k - 1) * z]
  BY <1>1, <1>2, <1>3, NumbersOfRange
<1>5. Denotes(v) = <<"range", InOrder(RangeSet(x, y, z), z)>>
  BY <1>2, DenotesIs
<1>6. ValueRangeLen(v) = RangeLen(x, y, z)
  BY <1>2 DEF ValueRangeLen
<1> QED
  BY <1>1, <1>2, <1>3, <1>4, <1>5, <1>6

LEMMA RangesAgree ==
  ASSUME NEW a \in Cells, NEW b \in Cells, Tag(a) = "RANGE", Tag(b) = "RANGE", ~Wide(a), ~Wide(b)
  PROVE  RangesEqual(a, b) <=> Same(a, b)
<1>1. PICK m, n \in Nat, x, y, s, t \in Int :
        /\ m = ValueRangeLen(a) /\ n = ValueRangeLen(b)
        /\ x = N(a)[1] /\ y = N(b)[1] /\ s = N(a)[3] /\ t = N(b)[3]
  BY RangeIs
<1> DEFINE e == [k \in 1..m |-> x + (k - 1) * s]
           f == [k \in 1..n |-> y + (k - 1) * t]
<1>2. Denotes(a) = <<"range", e>> /\ Denotes(b) = <<"range", f>>
  BY <1>1, RangeIs
<1>3. Same(a, b) <=> e = f
  <2> HIDE DEF e, f
  <2> QED
    BY <1>2 DEF Same
<1>4. RangesEqual(a, b) <=> m = n /\ (m # 0 => x = y) /\ (m \notin {0, 1} => s = t)
  BY <1>1 DEF RangesEqual, RangesOf
<1>5. ASSUME e = f PROVE m = n /\ (m # 0 => x = y) /\ (m \notin {0, 1} => s = t)
  <2>1. m = n
    <3>1. DOMAIN e = 1..m /\ DOMAIN f = 1..n
      OBVIOUS
    <3>2. 1..m = 1..n
      BY <1>5, <3>1
    <3> QED
      BY <3>2
  <2>2. ASSUME m # 0 PROVE x = y
    <3>1. 1 \in 1..m /\ e[1] = f[1]
      <4>1. 1 \in 1..m
        BY <2>2
      <4> HIDE DEF e, f
      <4> QED
        BY <1>5, <4>1
    <3>2. e[1] = x /\ f[1] = y
      BY <2>1, <3>1
    <3> QED
      BY <3>1, <3>2
  <2>3. ASSUME m \notin {0, 1} PROVE s = t
    <3>1. 2 \in 1..m /\ e[2] = f[2]
      <4>1. 2 \in 1..m
        BY <2>3
      <4> HIDE DEF e, f
      <4> QED
        BY <1>5, <4>1
    <3>2. e[2] = x + s /\ f[2] = y + t
      BY <2>1, <3>1
    <3>3. x = y
      BY <2>2, <2>3
    <3> QED
      BY <3>1, <3>2, <3>3
  <2> QED
    BY <2>1, <2>2, <2>3
<1>6. ASSUME m = n, m # 0 => x = y, m \notin {0, 1} => s = t PROVE e = f
  <2>1. ASSUME NEW k \in 1..m PROVE x + (k - 1) * s = y + (k - 1) * t
    <3>1. x = y
      BY <1>6
    <3>2. CASE m = 1
      <4>1. k - 1 = 0 /\ 0 * s = 0 /\ 0 * t = 0
        BY <3>2
      <4> QED
        BY <3>1, <4>1
    <3>3. CASE m # 1
      <4>1. s = t
        BY <1>6, <3>3
      <4> QED
        BY <3>1, <4>1
    <3> QED
      BY <3>2, <3>3
  <2> QED
    BY <1>6, <2>1
<1> QED
  BY <1>3, <1>4, <1>5, <1>6

LEMMA NumberIs ==
  ASSUME NEW v \in Cells, IsNumber(v), ~IsNan(v)
  PROVE  /\ N(v)[1] \in Ints /\ N(v)[1] \in Int
         /\ ~IntLike(v) => N(v)[1] \in Doubles
         /\ Denotes(v) = <<"num", N(v)[1]>>
<1>1. 0 \in Ints /\ 1 \in Ints
  BY Word DEF Ints
<1>2. N(v)[1] \in Ints /\ (~IntLike(v) => N(v)[1] \in Doubles)
  BY <1>1, HeapAssumption DEF WellFormed, IsNumber, IntLike
<1> QED
  BY <1>2, DenotesIs, Word DEF Ints

LEMMA NumbersAgree ==
  ASSUME NEW a \in Cells, NEW b \in Cells, IsNumber(a), IsNumber(b), ~IsNan(a), ~IsNan(b),
         ~Inexact(a, b), ~Inexact(b, a)
  PROVE  NumbersEqual(a, b) <=> Same(a, b)
<1>1. Same(a, b) <=> N(a)[1] = N(b)[1]
  BY NumberIs DEF Same
<1>2. ASSUME NEW x \in Cells, NEW y \in Cells, IsNumber(y), ~IsNan(y), IntLike(x), ~IntLike(y), ~Inexact(x, y)
      PROVE  ToDouble[N(x)[1]] = N(y)[1] <=> N(x)[1] = N(y)[1]
  <2>1. IsNumber(x) /\ ~IsNan(x) /\ Tag(y) = "FLOAT"
    BY <1>2 DEF IsNumber, IsNan, IntLike
  <2>2. PICK i \in Ints, d \in Doubles : i = N(x)[1] /\ d = N(y)[1]
    BY <1>2, <2>1, NumberIs
  <2>3. ToDouble[i] \in Doubles /\ (i <= d => ToDouble[i] <= d) /\ (i >= d => ToDouble[i] >= d)
    BY DoubleAssumption
  <2>4. ToDouble[i] \in Int /\ d \in Int /\ i \in Int
    <3>1. i \in Int
      BY Word DEF Ints
    <3>2. Doubles \subseteq Int
      BY DoubleAssumption
    <3> QED
      BY <2>3, <3>1, <3>2
  <2>5. i = d => ToDouble[i] = d
    BY <2>3, <2>4
  <2>6. ToDouble[i] = d => i = d
    BY <1>2, <2>1, <2>2 DEF Inexact
  <2> QED
    BY <2>2, <2>5, <2>6
<1>3. CASE IntLike(a) /\ IntLike(b)
  BY <1>1, <1>3 DEF NumbersEqual
<1>4. CASE IntLike(a) /\ ~IntLike(b)
  <2>1. ToDouble[N(a)[1]] = N(b)[1] <=> N(a)[1] = N(b)[1]
    BY <1>2, <1>4
  <2> QED
    BY <1>1, <1>4, <2>1 DEF NumbersEqual, AsDouble
<1>5. CASE ~IntLike(a) /\ IntLike(b)
  <2>1. ToDouble[N(b)[1]] = N(a)[1] <=> N(b)[1] = N(a)[1]
    BY <1>2, <1>5
  <2> QED
    BY <1>1, <1>5, <2>1 DEF NumbersEqual, AsDouble
<1>6. CASE ~IntLike(a) /\ ~IntLike(b)
  BY <1>1, <1>6 DEF NumbersEqual, AsDouble
<1> QED
  BY <1>3, <1>4, <1>5, <1>6

\* What kind of thing a value denotes.
Kind(v) ==
  IF Tag(v) = "NONE" THEN "none"
  ELSE IF IsNan(v) THEN "nan"
  ELSE IF IsNumber(v) THEN "num"
  ELSE IF Tag(v) = "STRING" THEN "str"
  ELSE IF Tag(v) = "BYTES" THEN "bytes"
  ELSE IF Tag(v) = "TUPLE" THEN "tuple"
  ELSE IF Tag(v) = "LIST" THEN "list"
  ELSE IF SetLike(v) THEN "set"
  ELSE IF Tag(v) = "DICT" THEN "dict"
  ELSE IF Tag(v) = "RANGE" THEN "range" ELSE "at"

LEMMA KindIs ==
  ASSUME NEW v \in Cells
  PROVE  /\ Denotes(v)[1] = Kind(v)
         /\ Kind(v) \in {"nan", "at"} => Denotes(v)[2] = v
<1>1. CASE Kind(v) \in {"none", "nan", "num", "str", "bytes"}
  BY <1>1, DenotesIs DEF Kind, IsNan, IsNumber, IntLike, SetLike, IsKeys
<1>2. CASE Kind(v) \notin {"none", "nan", "num", "str", "bytes"}
  BY <1>2, DenotesIs DEF Kind, IsNan, IsNumber, IntLike, SetLike, IsKeys
<1> QED
  BY <1>1, <1>2

LEMMA SameKind ==
  ASSUME NEW a \in Cells, NEW b \in Cells, Same(a, b)
  PROVE  Kind(a) = Kind(b) /\ (Kind(a) \in {"nan", "at"} => a = b)
BY KindIs DEF Same

\* Two values that the code calls equal are of one kind.
LEMMA EqualKind ==
  ASSUME NEW a \in Cells, NEW b \in Cells, a # b, NEW f, EqualBy(HashTerms, f, a, b)
  PROVE  Kind(a) = Kind(b) /\ Kind(a) \notin {"nan", "at"}
<1>1. CASE IsNumber(a) /\ IsNumber(b) /\ NumbersEqual(a, b)
  BY <1>1 DEF Kind, NumbersEqual, IsNumber, IntLike, IsNan
<1>2. CASE SetLike(a) /\ SetLike(b)
  BY <1>2 DEF Kind, SetLike, IsKeys, IsNumber, IntLike, IsNan
<1>3. CASE Tag(a) = Tag(b) /\ Tag(a) \in {"NONE", "STRING", "BYTES", "LIST", "TUPLE", "DICT", "RANGE"}
  BY <1>3 DEF Kind, SetLike, IsKeys, IsNumber, IntLike, IsNan
<1> QED
  BY <1>1, <1>2, <1>3, Zenon DEF EqualBy

LEMMA EqualStep ==
  ASSUME NEW a \in Cells, NEW b \in Cells, Clear(a, b), Settled(a, b)
  PROVE  EqualBy(HashTerms, AreEqual, a, b) <=> Same(a, b)
<1>1. CASE a = b
  BY <1>1 DEF EqualBy, Same
<1>2. CASE a # b /\ Kind(a) = Kind(b) /\ Kind(a) \notin {"nan", "at"}
  <2> USE <1>2
  <2>1. CASE Kind(a) = "none"
    <3>1. Tag(a) = "NONE" /\ Tag(b) = "NONE"
      BY <2>1 DEF Kind
    <3>2. Same(a, b)
      BY <3>1, DenotesIs DEF Same
    <3> QED
      BY <3>1, <3>2 DEF EqualBy
  <2>2. CASE Kind(a) = "num"
    <3>1. IsNumber(a) /\ ~IsNan(a) /\ IsNumber(b) /\ ~IsNan(b)
      BY <2>2 DEF Kind
    <3>2. NumbersEqual(a, b) <=> Same(a, b)
      BY <3>1, ClearSelf, NumbersAgree
    <3>3. EqualBy(HashTerms, AreEqual, a, b) <=> NumbersEqual(a, b)
      BY <3>1 DEF EqualBy, IsNumber, IntLike, SetLike, IsKeys
    <3> QED
      BY <3>2, <3>3
  <2>3. CASE Kind(a) \in {"str", "bytes"}
    <3>1. Tag(a) = Tag(b) /\ Tag(a) \in {"STRING", "BYTES"}
      BY <2>3 DEF Kind
    <3>2. Same(a, b) <=> N(a) = N(b)
      <4>1. PICK kind : Denotes(a) = <<kind, N(a)>> /\ Denotes(b) = <<kind, N(b)>>
        BY <3>1, DenotesIs
      <4> QED
        BY <4>1 DEF Same
    <3>3. EqualBy(HashTerms, AreEqual, a, b) <=> N(a) = N(b)
      BY <3>1 DEF EqualBy, IsNumber, IntLike, SetLike, IsKeys
    <3> QED
      BY <3>2, <3>3
  <2>4. CASE Kind(a) \in {"tuple", "list"}
    <3>1. Tag(a) = Tag(b) /\ Tag(a) \in {"LIST", "TUPLE"}
      BY <2>4 DEF Kind
    <3>2. ItemsEqual(AreEqual, Items(a), Items(b)) <=> Same(a, b)
      BY <3>1, ItemsAgree
    <3>3. EqualBy(HashTerms, AreEqual, a, b) <=> ItemsEqual(AreEqual, Items(a), Items(b))
      BY <3>1 DEF EqualBy, IsNumber, IntLike, SetLike, IsKeys
    <3> QED
      BY <3>2, <3>3
  <2>5. CASE Kind(a) = "set"
    <3>1. SetLike(a) /\ SetLike(b)
      BY <2>5 DEF Kind
    <3>2. SetLikeEqual(HashTerms, AreEqual, a, b) <=> Same(a, b)
      BY <3>1, SetLikesAgree
    <3>3. EqualBy(HashTerms, AreEqual, a, b) <=> SetLikeEqual(HashTerms, AreEqual, a, b)
      BY <3>1 DEF EqualBy, IsNumber, IntLike, SetLike, IsKeys
    <3> QED
      BY <3>2, <3>3
  <2>6. CASE Kind(a) = "dict"
    <3>1. Tag(a) = "DICT" /\ Tag(b) = "DICT"
      BY <2>6 DEF Kind
    <3>2. DictsEqual(HashTerms, AreEqual, a, b) <=> Same(a, b)
      BY <3>1, DictsAgree
    <3>3. EqualBy(HashTerms, AreEqual, a, b) <=> DictsEqual(HashTerms, AreEqual, a, b)
      BY <3>1 DEF EqualBy, IsNumber, IntLike, SetLike, IsKeys
    <3> QED
      BY <3>2, <3>3
  <2>7. CASE Kind(a) = "range"
    <3>1. Tag(a) = "RANGE" /\ Tag(b) = "RANGE"
      BY <2>7 DEF Kind
    <3>2. RangesEqual(a, b) <=> Same(a, b)
      BY <3>1, ClearSelf, RangesAgree
    <3>3. EqualBy(HashTerms, AreEqual, a, b) <=> RangesEqual(a, b)
      BY <3>1 DEF EqualBy, IsNumber, IntLike, SetLike, IsKeys
    <3> QED
      BY <3>2, <3>3
  <2>8. Kind(a) \in {"none", "num", "str", "bytes", "tuple", "list", "set", "dict", "range"}
    BY DEF Kind
  <2> QED
    BY <2>1, <2>2, <2>3, <2>4, <2>5, <2>6, <2>7, <2>8
<1>3. CASE a # b /\ ~(Kind(a) = Kind(b) /\ Kind(a) \notin {"nan", "at"})
  BY <1>3, EqualKind, SameKind
<1> QED
  BY <1>1, <1>2, <1>3

\* What a hash is, tag by tag.
LEMMA HashIs ==
  ASSUME NEW v \in Cells
  PROVE  /\ Tag(v) = "NONE" => HashOf(v) = <<"none">>
         /\ IsNumber(v) /\ ~IsNan(v) => HashOf(v) = <<"num", N(v)[1]>>
         /\ Tag(v) \in {"STRING", "BYTES"} => HashOf(v) = <<"text", N(v)>>
         /\ Tag(v) = "TUPLE" => HashOf(v) = <<"tuple", AllOf(HashTerms, Items(v))>>
         /\ Tag(v) = "FROZENSET" => HashOf(v) = <<"set", SetOf(HashTerms, Items(v))>>
         /\ Tag(v) = "RANGE" => HashOf(v) = RangeHash(v)
<1> DEFINE none == <<"none">>
           num == <<"num", N(v)[1]>>
           text == <<"text", N(v)>>
           tuple == <<"tuple", AllOf(HashTerms, Items(v))>>
           set == <<"set", SetOf(HashTerms, Items(v))>>
           at == <<"at", v>>
<1>1. HashOf(v) =
        CASE Tag(v) = "NONE"                -> none
          [] IsNumber(v) /\ ~IsNan(v)       -> num
          [] Tag(v) \in {"STRING", "BYTES"} -> text
          [] Tag(v) = "TUPLE"               -> tuple
          [] Tag(v) = "FROZENSET"           -> set
          [] Tag(v) = "RANGE"               -> RangeHash(v)
          [] OTHER                          -> at
  BY CellFunctions DEF HashBy
<1> HIDE DEF none, num, text, tuple, set, at
<1>2. /\ Tag(v) = "NONE" => HashOf(v) = none
      /\ IsNumber(v) /\ ~IsNan(v) => HashOf(v) = num
      /\ Tag(v) \in {"STRING", "BYTES"} => HashOf(v) = text
      /\ Tag(v) = "TUPLE" => HashOf(v) = tuple
      /\ Tag(v) = "FROZENSET" => HashOf(v) = set
      /\ Tag(v) = "RANGE" => HashOf(v) = RangeHash(v)
  BY <1>1 DEF IsNan, IsNumber, IntLike
<1> QED
  BY <1>2 DEF none, num, text, tuple, set, at

LEMMA TupleHash ==
  ASSUME NEW a \in Cells, NEW b \in Cells, Clear(a, b), Settled(a, b),
         Hashable(a), Hashable(b), Same(a, b), Tag(a) = "TUPLE", Tag(b) = "TUPLE"
  PROVE  HashOf(a) = HashOf(b)
<1> DEFINE s == Items(a)
           t == Items(b)
<1>1. Len(s) \in Nat /\ Len(t) \in Nat
  BY ItemsBelow
<1>2. AllOf(Denotation, s) = AllOf(Denotation, t)
  BY DenotesIs DEF Same
<1>3. /\ \A i \in 1..Len(s) : Hashable(s[i])
      /\ \A i \in 1..Len(t) : Hashable(t[i])
  BY CellFunctions DEF CanHashBy, Hashable
<1>4. Len(s) = Len(t) /\ \A i \in 1..Len(s) : Same(s[i], t[i])
  <2> HIDE DEF s, t
  <2> QED
    BY <1>1, <1>2, AllOfEqual
<1>5. \A i \in 1..Len(s) : Agree(s[i], t[i])
  BY <1>4, PartsOf, AgreeOnParts
<1>6. \A i \in 1..Len(s) : HashTerms[s[i]] = HashTerms[t[i]]
  BY <1>3, <1>4, <1>5 DEF Agree, HashOf
<1>7. AllOf(HashTerms, s) = AllOf(HashTerms, t)
  BY <1>4, <1>6 DEF AllOf
<1> QED
  BY <1>7, HashIs

LEMMA FrozensetHash ==
  ASSUME NEW a \in Cells, NEW b \in Cells, Clear(a, b), Settled(a, b),
         Same(a, b), Tag(a) = "FROZENSET", Tag(b) = "FROZENSET"
  PROVE  HashOf(a) = HashOf(b)
<1> DEFINE s == Items(a)
           t == Items(b)
<1>1. /\ SetLike(a) /\ SetLike(b) /\ SetElements(a) = s /\ SetElements(b) = t
      /\ NoneMatch(s) /\ NoneMatch(t)
  BY HeapAssumption DEF WellFormed, SetLike, SetElements, IsKeys
<1>2. SetOf(Denotation, s) = SetOf(Denotation, t)
  BY <1>1, DenotesIs DEF Same
<1>3. ASSUME NEW i \in 1..Len(s), NEW j \in 1..Len(t), Same(s[i], t[j])
      PROVE  HashTerms[s[i]] = HashTerms[t[j]]
  <2>1. Hashable(s[i]) /\ Hashable(t[j])
    BY <1>1 DEF NoneMatch
  <2>2. Agree(s[i], t[j])
    BY PartsOf, AgreeOnParts
  <2> QED
    BY <1>3, <2>1, <2>2 DEF Agree, HashOf
<1>4. /\ \A i \in 1..Len(s) : \E j \in 1..Len(t) : Same(s[i], t[j])
      /\ \A j \in 1..Len(t) : \E i \in 1..Len(s) : Same(s[i], t[j])
  <2> HIDE DEF s, t
  <2>1. \A i \in 1..Len(s) : Denotation[s[i]] \in SetOf(Denotation, t)
    BY <1>2 DEF SetOf
  <2>2. \A j \in 1..Len(t) : Denotation[t[j]] \in SetOf(Denotation, s)
    BY <1>2 DEF SetOf
  <2> QED
    BY <2>1, <2>2 DEF SetOf, Same, Denotes
<1> HIDE DEF s, t
<1>5. SetOf(HashTerms, s) \subseteq SetOf(HashTerms, t)
  <2>1. ASSUME NEW i \in 1..Len(s) PROVE HashTerms[s[i]] \in SetOf(HashTerms, t)
    <3>1. PICK j \in 1..Len(t) : Same(s[i], t[j])
      BY <1>4
    <3> QED
      BY <1>3, <3>1 DEF SetOf
  <2> QED
    BY <2>1 DEF SetOf
<1>6. SetOf(HashTerms, t) \subseteq SetOf(HashTerms, s)
  <2>1. ASSUME NEW j \in 1..Len(t) PROVE HashTerms[t[j]] \in SetOf(HashTerms, s)
    <3>1. PICK i \in 1..Len(s) : Same(s[i], t[j])
      BY <1>4
    <3> QED
      BY <1>3, <3>1 DEF SetOf
  <2> QED
    BY <2>1 DEF SetOf
<1>7. SetOf(HashTerms, s) = SetOf(HashTerms, t)
  BY <1>5, <1>6
<1> QED
  BY <1>7, HashIs DEF s, t

LEMMA RangeHashSame ==
  ASSUME NEW a \in Cells, NEW b \in Cells, Clear(a, b), Same(a, b), Tag(a) = "RANGE", Tag(b) = "RANGE"
  PROVE  HashOf(a) = HashOf(b)
<1>1. ~Wide(a) /\ ~Wide(b) /\ ~StepsDiffer(a, b)
  BY ClearSelf
<1>2. RangesEqual(a, b)
  BY <1>1, RangesAgree
<1>3. RangeHash(a) = RangeHash(b)
  BY <1>1, <1>2 DEF RangeHash, RangeTerm, RangesEqual, RangesOf, StepsDiffer, OneNumber
<1> QED
  BY <1>3, HashIs

LEMMA HashStep ==
  ASSUME NEW a \in Cells, NEW b \in Cells, Clear(a, b), Settled(a, b),
         Hashable(a), Hashable(b), Same(a, b)
  PROVE  HashOf(a) = HashOf(b)
<1>1. Kind(a) = Kind(b)
  BY SameKind
<1>2. Kind(a) \in {"nan", "at"} => a = b
  BY SameKind
<1>3. /\ Tag(a) \notin {"LIST", "DICT", "SET", "DICT_VIEW"}
      /\ Tag(b) \notin {"LIST", "DICT", "SET", "DICT_VIEW"}
  BY CellFunctions DEF CanHashBy
<1>4. Kind(a) \in {"none", "nan", "num", "str", "bytes", "tuple", "set", "range", "at"}
  BY <1>3 DEF Kind, IsNan, SetLike, IsKeys
<1>5. CASE Kind(a) = "none"
  <2>1. Tag(a) = "NONE" /\ Tag(b) = "NONE"
    BY <1>1, <1>5 DEF Kind
  <2> QED
    BY <2>1, HashIs
<1>6. CASE Kind(a) = "num"
  <2>1. IsNumber(a) /\ ~IsNan(a) /\ IsNumber(b) /\ ~IsNan(b)
    BY <1>1, <1>6 DEF Kind
  <2>2. N(a)[1] = N(b)[1]
    BY <2>1, NumberIs DEF Same
  <2> QED
    BY <2>1, <2>2, HashIs
<1>7. CASE Kind(a) \in {"str", "bytes"}
  <2>1. Tag(a) = Tag(b) /\ Tag(a) \in {"STRING", "BYTES"}
    BY <1>1, <1>7 DEF Kind
  <2>2. N(a) = N(b)
    BY <2>1, DenotesIs DEF Same
  <2> QED
    BY <2>1, <2>2, HashIs
<1>8. CASE Kind(a) = "tuple"
  <2>1. Tag(a) = "TUPLE" /\ Tag(b) = "TUPLE"
    BY <1>1, <1>8 DEF Kind
  <2> QED
    BY <2>1, TupleHash
<1>9. CASE Kind(a) = "set"
  <2>1. Tag(a) = "FROZENSET" /\ Tag(b) = "FROZENSET"
    BY <1>1, <1>3, <1>9 DEF Kind, SetLike, IsKeys
  <2> QED
    BY <2>1, FrozensetHash
<1>10. CASE Kind(a) = "range"
  <2>1. Tag(a) = "RANGE" /\ Tag(b) = "RANGE"
    BY <1>1, <1>10 DEF Kind
  <2> QED
    BY <2>1, RangeHashSame
<1> QED
  BY <1>2, <1>4, <1>5, <1>6, <1>7, <1>8, <1>9, <1>10

\* The code and Python agree on every two values that are clear.
LEMMA AgreeAll ==
  ASSUME NEW a \in Cells, NEW b \in Cells, Clear(a, b)
  PROVE  Agree(a, b)
<1> DEFINE T == {n \in Nat : \A x, y \in Cells : x <= n /\ y <= n /\ Clear(x, y) => Agree(x, y)}
<1>1. 0 \in T
  BY CellsAre
<1>2. ASSUME NEW n \in Nat, n \in T PROVE n + 1 \in T
  <2>1. ASSUME NEW x \in Cells, NEW y \in Cells, x <= n + 1, y <= n + 1, Clear(x, y)
        PROVE  Agree(x, y)
    <3>1. Settled(x, y)
      <4>1. SUFFICES ASSUME NEW u \in Cells, NEW w \in Cells, u < x \/ u < y, w < x \/ w < y, Clear(u, w)
                     PROVE  Agree(u, w)
        BY DEF Settled
      <4>2. u <= n /\ w <= n
        BY <2>1, <4>1, CellsAre
      <4> QED
        BY <1>2, <4>1, <4>2
    <3>2. EqualBy(HashTerms, AreEqual, x, y) <=> Same(x, y)
      BY <2>1, <3>1, EqualStep
    <3>3. Hashable(x) /\ Hashable(y) /\ Same(x, y) => HashOf(x) = HashOf(y)
      BY <2>1, <3>1, HashStep
    <3>4. Equal(x, y) = EqualBy(HashTerms, AreEqual, x, y)
      BY PairFunctions
    <3> QED
      BY <3>2, <3>3, <3>4 DEF Agree
  <2> QED
    BY <2>1
<1>3. \A n \in Nat : n \in T
  <2> HIDE DEF T
  <2> QED
    BY <1>1, <1>2, Induction
<1>4. Len(heap) \in T
  BY <1>3, CellsAre
<1> QED
  BY <1>4, CellsAre

-----------------------------------------------------------------------------
(***************************************************************************)
(* For every heap, two values are equal, and unequal, when Python says so, *)
(* through every mixture of int, bool and float, set and frozenset and     *)
(* keys view, and nesting, and equal values that can be keys have equal    *)
(* hashes: value_equal, value_hash.                                        *)
(***************************************************************************)
THEOREM EqualityTheorem == ValuesType => EqualityAsPython
<1> SUFFICES ASSUME ValuesType, case.kind = "values" PROVE EqualityAsPython
  BY DEF EqualityAsPython
<1> DEFINE a == case.a
           b == case.b
<1>1. a \in Cells /\ b \in Cells
  BY DEF ValuesType
<1> HIDE DEF a, b
<1>2. Compare("EQ", a, b) = Done(Equal(a, b)) /\ Compare("NE", a, b) = Done(~Equal(a, b))
  BY DEF Compare
<1>3. ASSUME Clear(a, b) \/ TwoRanges(a, b) PROVE Equal(a, b) <=> Same(a, b)
  <2>1. CASE Clear(a, b)
    BY <1>1, <2>1, AgreeAll DEF Agree
  <2>2. CASE TwoRanges(a, b)
    <3>1. Tag(a) = "RANGE" /\ Tag(b) = "RANGE" /\ ~Wide(a) /\ ~Wide(b)
      BY <2>2 DEF TwoRanges
    <3>2. RangesEqual(a, b) <=> Same(a, b)
      BY <1>1, <3>1, RangesAgree
    <3>3. a = b => Same(a, b)
      BY DEF Same
    <3>4. EqualBy(HashTerms, AreEqual, a, b) <=> a = b \/ RangesEqual(a, b)
      BY <3>1 DEF EqualBy, IsNumber, IntLike, SetLike, IsKeys
    <3>5. Equal(a, b) = EqualBy(HashTerms, AreEqual, a, b)
      BY <1>1, PairFunctions
    <3> QED
      BY <3>2, <3>3, <3>4, <3>5
  <2> QED
    BY <1>3, <2>1, <2>2
<1>4. ASSUME Clear(a, b), Hashable(a), Hashable(b), Same(a, b) PROVE HashOf(a) = HashOf(b)
  BY <1>1, <1>4, AgreeAll DEF Agree
<1>5. Clear(a, b) \/ TwoRanges(a, b) =>
        Compare("EQ", a, b) = Done(Same(a, b)) /\ Compare("NE", a, b) = Done(~Same(a, b))
  <2>1. ASSUME Clear(a, b) \/ TwoRanges(a, b)
        PROVE  Compare("EQ", a, b) = Done(Same(a, b)) /\ Compare("NE", a, b) = Done(~Same(a, b))
    <3>1. EqualBy(HashTerms, AreEqual, a, b) <=> Same(a, b)
      BY <1>1, <1>3, <2>1, PairFunctions
    <3>2. EqualBy(HashTerms, AreEqual, a, b) = Same(a, b)
      BY <3>1 DEF EqualBy, Same
    <3>3. Equal(a, b) = Same(a, b) /\ (~Equal(a, b)) = (~Same(a, b))
      BY <1>1, <3>2, PairFunctions
    <3> QED
      BY <1>2, <3>3
  <2> QED
    BY <2>1
<1>6. ASSUME Clear(a, b) \/ TwoRanges(a, b), NEW op \in {"EQ", "NE"}
      PROVE  Compare(op, a, b) = Done(Same(a, b) = (op = "EQ"))
  <2>1. CASE op = "EQ"
    <3>1. Same(a, b) = (Same(a, b) = (op = "EQ"))
      BY <2>1 DEF Same
    <3> QED
      BY <1>5, <1>6, <2>1, <3>1
  <2>2. CASE op = "NE"
    <3>1. (~Same(a, b)) = (Same(a, b) = (op = "EQ"))
      BY <2>2 DEF Same
    <3> QED
      BY <1>5, <1>6, <2>2, <3>1
  <2> QED
    BY <2>1, <2>2
<1> QED
  BY <1>4, <1>6 DEF EqualityAsPython, a, b

-----------------------------------------------------------------------------
(* Membership. *)

LEMMA AgreeInside ==
  ASSUME NEW a \in Cells, NEW b \in Cells, Clear(a, b), NEW x, NEW y,
         Under(x, a) \/ Under(x, b), Under(y, a) \/ Under(y, b)
  PROVE  x \in Cells /\ y \in Cells /\ Agree(x, y)
<1>1. x \in Cells /\ y \in Cells
  BY DEF Under
<1>2. Clear(x, y)
  BY ClearUnder
<1> QED
  BY <1>1, <1>2, AgreeAll

\* The items of a sequence that is within a container, and what they denote.
Listed(s, container) ==
  ToSet(s) = {s[i] : i \in 1..Len(s)} /\ \A i \in 1..Len(s) : Under(s[i], container)
Denoted(s)          == {Denotes(x) : x \in ToSet(s)}
OneIsEqual(s, item) == \E x \in ToSet(s) : Equal(x, item)
OneMatches(s, item) == \E i \in 1..Len(s) : Matches(HashTerms, AreEqual, s[i], item)

\* The item is one of a sequence, compared one by one.
LEMMA AmongIs ==
  ASSUME NEW item \in Cells, NEW container \in Cells, Clear(item, container),
         NEW s, Listed(s, container)
  PROVE  /\ OneIsEqual(s, item) = (Denotes(item) \in Denoted(s))
         /\ \A x \in ToSet(s) : Agree(x, item)
<1>1. ASSUME NEW x \in ToSet(s) PROVE Agree(x, item)
  <2>1. Under(x, container) /\ Under(item, item)
    BY ReachSelf DEF Listed
  <2> QED
    BY <2>1, AgreeInside
<1>2. (\E x \in ToSet(s) : Equal(x, item)) <=> \E x \in ToSet(s) : Same(x, item)
  BY <1>1 DEF Agree
<1>3. OneIsEqual(s, item) <=> Denotes(item) \in Denoted(s)
  BY <1>2 DEF Same, OneIsEqual, Denoted
<1>4. OneIsEqual(s, item) \in BOOLEAN
  BY DEF OneIsEqual
<1> QED
  BY <1>1, <1>3, <1>4

\* The item is looked up by its hash.
LEMMA LookUpIs ==
  ASSUME NEW item \in Cells, NEW container \in Cells, Clear(item, container), Hashable(item),
         NEW s, Listed(s, container), NoneMatch(s)
  PROVE  OneMatches(s, item) = (Denotes(item) \in Denoted(s))
<1>1. \A x \in ToSet(s) : Agree(x, item)
  BY AmongIs
<1>2. ASSUME NEW i \in 1..Len(s) PROVE Matches(HashTerms, AreEqual, s[i], item) <=> Same(s[i], item)
  <2>1. Hashable(s[i]) /\ Agree(s[i], item)
    BY <1>1 DEF NoneMatch, Listed
  <2> QED
    BY <2>1, MatchesIs
<1>3. OneMatches(s, item) <=> Denotes(item) \in Denoted(s)
  BY <1>2 DEF Same, OneMatches, Denoted, Listed
<1>4. OneMatches(s, item) \in BOOLEAN
  BY DEF OneMatches
<1> QED
  BY <1>3, <1>4

LEMMA RangeContainsIs ==
  ASSUME NEW x \in Ints, NEW start \in Ints, NEW stop \in Ints, NEW step \in Ints, step # 0,
         stop - start \in (-IntMax)..IntMax
  PROVE  RangeContains(x, start, stop, step) <=> x \in RangeSet(start, stop, step)
<1>1. x \in Int /\ start \in Int /\ stop \in Int /\ step \in Int
  BY Word DEF Ints
<1>2. RangeContains(x, start, stop, step) <=> Within(x, stop, step) /\ \E k \in Nat : x = start + k * step
  BY RangeContainsExact
<1> QED
  BY <1>1, <1>2, RangeMember

LEMMA InSequence ==
  ASSUME NEW item \in Cells, NEW container \in Cells, Clear(item, container),
         Tag(container) \in {"LIST", "TUPLE"}
  PROVE  In(item, container) = Done(Denotes(item) \in Members(container))
<1> DEFINE s == Items(container)
<1>1. Listed(s, container)
  BY ItemsBelow, ElementsUnder DEF Listed
<1>2. Members(container) = Denoted(s)
  BY DEF Members, Held, SetElements, IsKeys, Denoted
<1>3. In(item, container) = Done(OneIsEqual(s, item))
  BY DEF In, OneIsEqual
<1> HIDE DEF s
<1>4. OneIsEqual(s, item) = (Denotes(item) \in Denoted(s))
  BY <1>1, AmongIs
<1> QED
  BY <1>2, <1>3, <1>4

LEMMA InDict ==
  ASSUME NEW item \in Cells, NEW dict \in Cells, NEW container \in Cells, Clear(item, container),
         Tag(dict) = "DICT", Under(dict, container), Hashable(item)
  PROVE  (DictGet(HashTerms, AreEqual, dict, item) # {}) = (Denotes(item) \in Denoted(Items(dict)))
<1> DEFINE s == Items(dict)
<1>1. Listed(s, container)
  <2>1. \A i \in 1..Len(s) : Under(s[i], container)
    BY ElementsUnder, UnderUnder
  <2> QED
    BY <2>1, ItemsBelow DEF Listed
<1>2. NoneMatch(s)
  BY DictIs
<1>3. (DictGet(HashTerms, AreEqual, dict, item) # {}) = OneMatches(s, item)
  <2>1. DictGet(HashTerms, AreEqual, dict, item) # {} <=> OneMatches(s, item)
    BY DEF DictGet, OneMatches
  <2>2. OneMatches(s, item) \in BOOLEAN
    BY DEF OneMatches
  <2> QED
    BY <2>1, <2>2
<1> HIDE DEF s
<1>4. OneMatches(s, item) = (Denotes(item) \in Denoted(s))
  BY <1>1, <1>2, LookUpIs
<1> QED
  BY <1>3, <1>4 DEF s

LEMMA InSet ==
  ASSUME NEW item \in Cells, NEW container \in Cells, Clear(item, container),
         Tag(container) \in {"SET", "FROZENSET"}
  PROVE  SetContains(HashTerms, AreEqual, container, item) = (Denotes(item) \in Members(container))
<1> DEFINE s == Items(container)
<1>1. Listed(s, container)
  BY ItemsBelow, ElementsUnder DEF Listed
<1>2. Members(container) = Denoted(s)
  BY DEF Members, Held, SetElements, IsKeys, Denoted
<1>3. NoneMatch(s)
  BY HeapAssumption DEF WellFormed
<1>4. CASE Hashable(item)
  <2>1. SetContains(HashTerms, AreEqual, container, item) <=> OneMatches(s, item)
    BY <1>1, <1>4 DEF SetContains, OneMatches, Listed
  <2> HIDE DEF s
  <2>2. OneMatches(s, item) = (Denotes(item) \in Denoted(s))
    BY <1>1, <1>3, <1>4, LookUpIs
  <2>3. SetContains(HashTerms, AreEqual, container, item) <=> Denotes(item) \in Members(container)
    BY <1>2, <2>1, <2>2
  <2>4. SetContains(HashTerms, AreEqual, container, item) \in BOOLEAN
    BY DEF SetContains
  <2> QED
    BY <2>3, <2>4
<1>5. CASE ~Hashable(item)
  <2>1. SetContains(HashTerms, AreEqual, container, item) <=> OneIsEqual(s, item)
    BY <1>5 DEF SetContains, Equal, OneIsEqual
  <2> HIDE DEF s
  <2>2. OneIsEqual(s, item) = (Denotes(item) \in Denoted(s))
    BY <1>1, AmongIs
  <2>3. SetContains(HashTerms, AreEqual, container, item) <=> Denotes(item) \in Members(container)
    BY <1>2, <2>1, <2>2
  <2>4. SetContains(HashTerms, AreEqual, container, item) \in BOOLEAN
    BY DEF SetContains
  <2> QED
    BY <2>3, <2>4
<1> QED
  BY <1>4, <1>5

LEMMA InView ==
  ASSUME NEW item \in Cells, NEW container \in Cells, Clear(item, container),
         Tag(container) = "DICT_VIEW", IsKeys(container) => Hashable(item)
  PROVE  ViewContains(container, item) = (Denotes(item) \in Members(container))
<1> DEFINE d == Items(container)[1]
<1>1. d \in Cells /\ Tag(d) = "DICT" /\ Under(d, container)
  BY KeysBelow, ItemsUnder
<1>2. CASE IsKeys(container)
  <2>1. Members(container) = Denoted(Items(d))
    BY <1>2 DEF Members, Held, SetElements, KeysOf, IsKeys, Denoted
  <2>2. ViewContains(container, item) = (DictGet(HashTerms, AreEqual, d, item) # {})
    BY <1>2 DEF ViewContains
  <2>3. Hashable(item)
    BY <1>2
  <2> HIDE DEF d
  <2>4. (DictGet(HashTerms, AreEqual, d, item) # {}) = (Denotes(item) \in Denoted(Items(d)))
    BY <1>1, <2>3, InDict
  <2> QED
    BY <2>1, <2>2, <2>4
<1>3. CASE ~IsKeys(container)
  <2>1. Members(container) = Denoted(Vals(d))
    BY <1>3 DEF Members, Held, ValsOf, Denoted
  <2>2. ViewContains(container, item) = OneIsEqual(Vals(d), item)
    BY <1>3 DEF ViewContains, ValsOf, OneIsEqual
  <2> HIDE DEF d
  <2>3. Listed(Vals(d), container)
    <3>1. \A i \in 1..Len(Vals(d)) : Under(Vals(d)[i], container)
      BY <1>1, ElementsUnder, UnderUnder
    <3> QED
      BY <1>1, <3>1, ItemsBelow DEF Listed
  <2>4. OneIsEqual(Vals(d), item) = (Denotes(item) \in Denoted(Vals(d)))
    BY <2>3, AmongIs
  <2> QED
    BY <2>1, <2>2, <2>4
<1> QED
  BY <1>2, <1>3

LEMMA InRange ==
  ASSUME NEW item \in Cells, NEW container \in Cells, Clear(item, container), Tag(container) = "RANGE"
  PROVE  In(item, container) = Done(Denotes(item) \in Members(container))
<1> DEFINE R == RangeSet(N(container)[1], N(container)[2], N(container)[3])
<1>1. ~Wide(container)
  BY ClearSelf
<1>2. PICK x, y, z \in Ints :
        /\ x = N(container)[1] /\ y = N(container)[2] /\ z = N(container)[3] /\ z # 0
        /\ y - x \in (-IntMax)..IntMax
  BY <1>1, RangeIs
<1>3. Members(container) = {<<"num", n>> : n \in R}
  BY DEF Members, Held
<1>4. In(item, container) = Done(IsNumber(item) /\ ~IsNan(item) /\ RangeContains(N(item)[1], x, y, z))
  BY <1>2 DEF In
<1>5. R = RangeSet(x, y, z)
  BY <1>2
<1> HIDE DEF R
<1>6. CASE IsNumber(item) /\ ~IsNan(item)
  <2>1. PICK n \in Ints : n = N(item)[1] /\ Denotes(item) = <<"num", n>>
    BY <1>6, NumberIs
  <2>2. RangeContains(n, x, y, z) <=> n \in R
    BY <1>2, <1>5, RangeContainsIs
  <2>3. Denotes(item) \in Members(container) <=> n \in R
    BY <1>3, <2>1
  <2>4. (IsNumber(item) /\ ~IsNan(item) /\ RangeContains(N(item)[1], x, y, z))
          = (Denotes(item) \in Members(container))
    BY <1>6, <2>1, <2>2, <2>3
  <2> QED
    BY <1>4, <2>4
<1>7. CASE ~(IsNumber(item) /\ ~IsNan(item))
  <2>1. Denotes(item)[1] # "num"
    BY <1>7, KindIs DEF Kind
  <2>2. Denotes(item) \notin Members(container)
    BY <1>3, <2>1
  <2>3. (IsNumber(item) /\ ~IsNan(item) /\ RangeContains(N(item)[1], x, y, z))
          = (Denotes(item) \in Members(container))
    BY <1>7, <2>2
  <2> QED
    BY <1>4, <2>3
<1> QED
  BY <1>6, <1>7

(***************************************************************************)
(* For every heap, item in container finds what the container holds, and   *)
(* is an error where an item without a hash is looked up: op_contains.     *)
(***************************************************************************)
THEOREM MembershipTheorem == ValuesType => MembershipAsPython
<1> SUFFICES ASSUME ValuesType, case.kind = "values", Tag(case.b) \notin {"STRING", "BYTES"},
                    Clear(case.a, case.b)
             PROVE  MembershipAsPython
  BY DEF MembershipAsPython
<1> DEFINE item == case.a
           container == case.b
           keyed == Tag(container) \in {"DICT", "SET", "FROZENSET"} \/ IsKeys(container)
           holds == keyed \/ Tag(container) \in {"LIST", "TUPLE", "RANGE", "DICT_VIEW"}
           as_set == Tag(item) = "SET" /\ Tag(container) \in {"SET", "FROZENSET"}
           found == Done(Denotes(item) \in Members(container))
           wanted == In(item, container) =
                       IF ~holds \/ (keyed /\ ~Hashable(item) /\ ~as_set) THEN Failed("TYPE") ELSE found
<1>1. item \in Cells /\ container \in Cells
  BY DEF ValuesType
<1>2. wanted => MembershipAsPython
  BY DEF MembershipAsPython
<1> HIDE DEF item, container
<1>3. Clear(item, container)
  BY DEF item, container
<1>4. CASE Tag(container) \in {"LIST", "TUPLE"}
  BY <1>1, <1>2, <1>3, <1>4, InSequence DEF IsKeys
<1>5. CASE Tag(container) = "DICT"
  <2>1. ~Hashable(item) => In(item, container) = Failed("TYPE")
    BY <1>5 DEF In
  <2>2. ASSUME Hashable(item) PROVE In(item, container) = found
    <3>1. Members(container) = Denoted(Items(container))
      BY <1>5 DEF Members, Held, SetElements, IsKeys, Denoted
    <3>2. In(item, container) = Done(DictGet(HashTerms, AreEqual, container, item) # {})
      BY <1>5, <2>2 DEF In
    <3>3. Under(container, container)
      BY <1>1, ReachSelf
    <3>4. (DictGet(HashTerms, AreEqual, container, item) # {})
            = (Denotes(item) \in Denoted(Items(container)))
      BY <1>1, <1>3, <1>5, <2>2, <3>3, InDict
    <3> QED
      BY <3>1, <3>2, <3>4
  <2> QED
    BY <1>2, <1>5, <2>1, <2>2 DEF IsKeys
<1>6. CASE Tag(container) \in {"SET", "FROZENSET"}
  <2>1. SetContains(HashTerms, AreEqual, container, item) = (Denotes(item) \in Members(container))
    BY <1>1, <1>3, <1>6, InSet
  <2>2. In(item, container) = IF ~Hashable(item) /\ Tag(item) # "SET" THEN Failed("TYPE")
                              ELSE Done(SetContains(HashTerms, AreEqual, container, item))
    BY <1>6 DEF In
  <2> QED
    BY <1>2, <1>6, <2>1, <2>2 DEF IsKeys
<1>7. CASE Tag(container) = "DICT_VIEW"
  <2>1. IsKeys(container) /\ ~Hashable(item) => In(item, container) = Failed("TYPE")
    BY <1>7 DEF In
  <2>2. ASSUME IsKeys(container) => Hashable(item) PROVE In(item, container) = found
    <3>1. In(item, container) = Done(ViewContains(container, item))
      BY <1>7, <2>2 DEF In
    <3>2. ViewContains(container, item) = (Denotes(item) \in Members(container))
      BY <1>1, <1>3, <1>7, <2>2, InView
    <3> QED
      BY <3>1, <3>2
  <2> QED
    BY <1>2, <1>7, <2>1, <2>2
<1>8. CASE Tag(container) = "RANGE"
  BY <1>1, <1>2, <1>3, <1>8, InRange DEF IsKeys
<1>9. CASE Tag(container) \notin {"LIST", "TUPLE", "DICT", "SET", "FROZENSET", "DICT_VIEW", "RANGE"}
  <2>1. In(item, container) = Failed("TYPE")
    BY <1>9 DEF In
  <2> QED
    BY <1>2, <1>9, <2>1 DEF IsKeys
<1> QED
  BY <1>4, <1>5, <1>6, <1>7, <1>8, <1>9

-----------------------------------------------------------------------------
(* Order. *)

LEMMA OrderedTruth ==
  ASSUME NEW op \in Orderings, NEW c \in Int
  PROVE  Ordered(op, c) \in BOOLEAN
<1>1. CASE op = "LT"
  BY <1>1 DEF Ordered
<1>2. CASE op = "LE"
  BY <1>2 DEF Ordered
<1>3. CASE op = "GT"
  BY <1>3 DEF Ordered
<1>4. CASE op = "GE"
  BY <1>4 DEF Ordered
<1> QED
  BY <1>1, <1>2, <1>3, <1>4 DEF Orderings

LEMMA OrderedSign ==
  ASSUME NEW op \in Orderings, NEW x \in Int, NEW y \in Int
  PROVE  Ordered(op, Sign(x, y)) = Ordered(op, x - y)
<1>1. Ordered(op, Sign(x, y)) <=> Ordered(op, x - y)
  BY DEF Ordered, Sign, Orderings
<1>2. Sign(x, y) \in Int /\ x - y \in Int
  BY DEF Sign
<1> QED
  BY <1>1, <1>2, OrderedTruth

LEMMA JudgedIs ==
  ASSUME NEW op, NEW c
  PROVE  Judged(op, Done(c)) = Done(Ordered(op, c)) /\ Judged(op, Failed("TYPE")) = Failed("TYPE")
BY DEF Judged, Done, Failed

\* Texts are in the order of the first place where they part.
LEMMA TextOrderIs ==
  ASSUME NEW s \in Seq(Nat), NEW t \in Seq(Nat)
  PROVE  TextOrder(s, t) = TextRank(s, t)
<1> DEFINE common == Min({Len(s), Len(t)})
           differs == {i \in 1..common : s[i] # t[i]}
           d == Min(differs)
<1>1. Len(s) \in Nat /\ Len(t) \in Nat
  OBVIOUS
<1>2. common \in Nat /\ common <= Len(s) /\ common <= Len(t) /\ common \in {Len(s), Len(t)}
  BY <1>1, MinIs
<1>3. (\A i \in 1..Len(s) : s[i] \in Nat) /\ (\A i \in 1..Len(t) : t[i] \in Nat)
  OBVIOUS
<1>4. TextOrder(s, t) = IF differs = {} THEN Sign(Len(s), Len(t)) ELSE Sign(s[d], t[d])
  BY DEF TextOrder
<1>5. Precedes(s, t) <=> \/ Len(s) < Len(t) /\ \A i \in 1..Len(s) : s[i] = t[i]
                         \/ \E i \in 1..common : s[i] < t[i] /\ \A j \in 1..(i - 1) : s[j] = t[j]
  BY DEF Precedes
<1>6. differs # {} => d \in 1..Len(s) /\ d \in 1..Len(t) /\ d \in differs /\ \A i \in differs : d <= i
  <2>1. differs \in SUBSET (1..Min({Len(s), Len(t)}))
    OBVIOUS
  <2> HIDE DEF differs
  <2> QED
    BY <1>1, <2>1, FirstOfBoth
<1>7. \A i : i \in differs <=> i \in 1..common /\ s[i] # t[i]
  OBVIOUS
<1> HIDE DEF common, differs, d
<1>8. CASE differs = {}
  <2>1. \A i \in 1..common : s[i] = t[i]
    BY <1>7, <1>8
  <2>2. CASE Len(s) = Len(t)
    <3>1. s = t
      BY <1>2, <2>1, <2>2
    <3> QED
      BY <1>4, <1>8, <2>2, <3>1 DEF Sign, TextRank
  <2>3. CASE Len(s) < Len(t)
    <3>1. common = Len(s)
      BY <1>1, <1>2, <2>3
    <3>2. Precedes(s, t) /\ s # t
      BY <1>5, <2>1, <2>3, <3>1
    <3> QED
      BY <1>4, <1>8, <2>3, <3>2 DEF Sign, TextRank
  <2>4. CASE Len(s) > Len(t)
    <3>1. ~Precedes(s, t)
      BY <1>1, <1>2, <1>3, <1>5, <2>1, <2>4
    <3>2. s # t
      BY <1>1, <2>4
    <3> QED
      BY <1>1, <1>4, <1>8, <2>4, <3>1, <3>2 DEF Sign, TextRank
  <2> QED
    BY <1>1, <2>2, <2>3, <2>4
<1>9. CASE differs # {}
  <2>1. d \in 1..common /\ d \in Nat /\ s[d] # t[d] /\ s[d] \in Nat /\ t[d] \in Nat /\ d <= Len(s)
    BY <1>3, <1>6, <1>7, <1>9
  <2>2. \A j \in 1..(d - 1) : s[j] = t[j]
    BY <1>2, <1>6, <1>7, <1>9, <2>1
  <2>3. s # t
    BY <2>1
  <2>4. CASE s[d] < t[d]
    <3>1. Precedes(s, t)
      BY <1>5, <2>1, <2>2, <2>4
    <3> QED
      BY <1>4, <1>9, <2>3, <2>4, <3>1 DEF Sign, TextRank
  <2>5. CASE s[d] > t[d]
    <3>1. ~(\A i \in 1..Len(s) : s[i] = t[i])
      BY <1>1, <2>1
    <3>2. ASSUME NEW i \in 1..common, s[i] < t[i], \A j \in 1..(i - 1) : s[j] = t[j] PROVE FALSE
      <4>1. i \in 1..Len(s) /\ i \in 1..Len(t)
        BY <1>1, <1>2
      <4>2. s[i] \in Nat /\ t[i] \in Nat
        BY <1>3, <4>1
      <4>3. s[i] # t[i]
        BY <3>2, <4>2
      <4>4. i \in differs
        BY <1>7, <4>3
      <4>5. d <= i
        BY <1>6, <1>9, <4>4
      <4>6. i # d
        BY <2>1, <2>5, <3>2
      <4>7. d \in 1..(i - 1)
        BY <1>2, <2>1, <4>5, <4>6
      <4> QED
        BY <2>1, <3>2, <4>7
    <3>3. ~Precedes(s, t)
      BY <1>5, <3>1, <3>2
    <3> QED
      BY <1>4, <1>9, <2>1, <2>3, <2>5, <3>3 DEF Sign, TextRank
  <2> QED
    BY <2>1, <2>4, <2>5
<1> QED
  BY <1>8, <1>9

\* Numbers are in the order of what they denote, an int and a float by the double.
LEMMA NumberOrderIs ==
  ASSUME NEW a \in Cells, NEW b \in Cells, IsNumber(a), IsNumber(b), ~IsNan(a), ~IsNan(b),
         ~Inexact(a, b), ~Inexact(b, a)
  PROVE  NumberOrder(a, b) = Sign(N(a)[1], N(b)[1])
<1>1. ASSUME NEW i \in Ints, NEW d \in Doubles, ToDouble[i] = d => i = d
      PROVE  /\ Sign(ToDouble[i], d) = Sign(i, d)
             /\ Sign(d, ToDouble[i]) = Sign(d, i)
  <2>1. ToDouble[i] \in Doubles /\ (i <= d => ToDouble[i] <= d) /\ (i >= d => ToDouble[i] >= d)
    BY DoubleAssumption
  <2>2. Doubles \subseteq Int
    BY DoubleAssumption
  <2>3. i \in Int
    BY Word DEF Ints
  <2>4. PICK r \in Int : r = ToDouble[i] /\ (i <= d => r <= d) /\ (i >= d => r >= d) /\ (r = d => i = d)
    BY <1>1, <2>1, <2>2
  <2>5. Sign(r, d) = Sign(i, d) /\ Sign(d, r) = Sign(d, i)
    BY <2>2, <2>3, <2>4 DEF Sign
  <2> QED
    BY <2>4, <2>5
<1>2. ASSUME NEW x \in Cells, NEW y \in Cells, IsNumber(y), ~IsNan(y), IntLike(x), ~IntLike(y), ~Inexact(x, y)
      PROVE  /\ Sign(ToDouble[N(x)[1]], N(y)[1]) = Sign(N(x)[1], N(y)[1])
             /\ Sign(N(y)[1], ToDouble[N(x)[1]]) = Sign(N(y)[1], N(x)[1])
  <2>1. IsNumber(x) /\ ~IsNan(x) /\ Tag(y) = "FLOAT"
    BY <1>2 DEF IsNumber, IsNan, IntLike
  <2>2. PICK i \in Ints, d \in Doubles : i = N(x)[1] /\ d = N(y)[1]
    BY <1>2, <2>1, NumberIs
  <2>3. ToDouble[i] = d => i = d
    BY <1>2, <2>1, <2>2 DEF Inexact
  <2> QED
    BY <1>1, <2>2, <2>3
<1>3. CASE IntLike(a) /\ IntLike(b)
  BY <1>3 DEF NumberOrder
<1>4. CASE IntLike(a) /\ ~IntLike(b)
  <2>1. Sign(ToDouble[N(a)[1]], N(b)[1]) = Sign(N(a)[1], N(b)[1])
    BY <1>2, <1>4
  <2> QED
    BY <1>4, <2>1 DEF NumberOrder, AsDouble
<1>5. CASE ~IntLike(a) /\ IntLike(b)
  <2>1. Sign(N(a)[1], ToDouble[N(b)[1]]) = Sign(N(a)[1], N(b)[1])
    BY <1>2, <1>5
  <2> QED
    BY <1>5, <2>1 DEF NumberOrder, AsDouble
<1>6. CASE ~IntLike(a) /\ ~IntLike(b)
  BY <1>6 DEF NumberOrder, AsDouble
<1> QED
  BY <1>3, <1>4, <1>5, <1>6

OrderedAlike(op, a, b) == Judged(op, Order(a, b)) = Ranks(op, a, b)

LEMMA ItemsAlike ==
  ASSUME NEW op \in Orderings, NEW a \in Cells, NEW b \in Cells, Clear(a, b),
         \A i \in 1..Len(Items(a)), j \in 1..Len(Items(b)) : OrderedAlike(op, Items(a)[i], Items(b)[j])
  PROVE  Judged(op, OrderItems(Orders, Items(a), Items(b)))
           = RankItems(Ranking, op, Items(a), Items(b))
<1> DEFINE s == Items(a)
           t == Items(b)
           common == Min({Len(s), Len(t)})
           differs == {i \in 1..common : ~Equal(s[i], t[i])}
           others == {i \in 1..common : ~Same(s[i], t[i])}
           d == Min(differs)
<1>1. Len(s) \in Nat /\ Len(t) \in Nat
  BY ItemsBelow
<1>2. common \in Nat /\ common <= Len(s) /\ common <= Len(t)
  <2> HIDE DEF s, t
  <2> QED
    BY <1>1, MinIs
<1>3. OrderItems(Orders, s, t) = IF differs = {} THEN Done(Sign(Len(s), Len(t))) ELSE Orders[<<s[d], t[d]>>]
  BY DEF OrderItems, AtFirst, Differing
<1>4. RankItems(Ranking, op, s, t)
        = IF others = {} THEN Done(Ordered(op, Len(s) - Len(t)))
          ELSE Ranking[<<s[Min(others)], t[Min(others)]>>][op]
  BY DEF RankItems, RankAt
<1>5. differs = others
  <2>1. ASSUME NEW i \in 1..common PROVE Equal(s[i], t[i]) <=> Same(s[i], t[i])
    <3>1. i \in 1..Len(s) /\ i \in 1..Len(t)
      BY <1>1, <1>2
    <3>2. Under(s[i], a) /\ Under(t[i], b)
      BY <3>1, ElementsUnder
    <3> QED
      BY <3>2, AgreeInside DEF Agree
  <2> QED
    BY <2>1
<1>6. differs # {} => d \in 1..Len(s) /\ d \in 1..Len(t)
  <2>1. differs \in SUBSET (1..Min({Len(s), Len(t)}))
    OBVIOUS
  <2> HIDE DEF differs, s, t
  <2> QED
    BY <1>1, <2>1, FirstOfBoth
<1>7. differs # {} => Judged(op, Orders[<<s[d], t[d]>>]) = Ranking[<<s[d], t[d]>>][op]
  <2> HIDE DEF differs, d
  <2> QED
    BY <1>6 DEF OrderedAlike, Order, Ranks
<1>8. Judged(op, Done(Sign(Len(s), Len(t)))) = Done(Ordered(op, Len(s) - Len(t)))
  <2> HIDE DEF s, t
  <2> QED
    BY <1>1, JudgedIs, OrderedSign
<1> HIDE DEF s, t, differs, others
<1>9. Judged(op, OrderItems(Orders, s, t)) = RankItems(Ranking, op, s, t)
  BY <1>3, <1>4, <1>5, <1>7, <1>8
<1> QED
  BY <1>9 DEF s, t

\* Two values that are neither sets nor nan, when the items of two lists are.
LEMMA OrderStep ==
  ASSUME NEW op \in Orderings, NEW a \in Cells, NEW b \in Cells, Clear(a, b),
         IsNumber(a) /\ IsNumber(b) => ~IsNan(a) /\ ~IsNan(b),
         ~(SetLike(a) /\ SetLike(b)),
         Tag(a) = Tag(b) /\ Tag(a) \in {"LIST", "TUPLE"} =>
           \A i \in 1..Len(Items(a)), j \in 1..Len(Items(b)) : OrderedAlike(op, Items(a)[i], Items(b)[j])
  PROVE  OrderedAlike(op, a, b)
<1> DEFINE f == Orders
           g == Ranking
<1>1. Order(a, b) = OrderBy(f, a, b) /\ Ranks(op, a, b) = RankBy(g, op, a, b)
  BY PairFunctions
<1>2. ASSUME Tag(a) = Tag(b), Tag(a) \in {"LIST", "TUPLE"}
      PROVE  Judged(op, OrderItems(f, Items(a), Items(b))) = RankItems(g, op, Items(a), Items(b))
  BY <1>2, ItemsAlike
<1> HIDE DEF f, g
<1>3. CASE IsNumber(a) /\ IsNumber(b)
  <2>1. Order(a, b) = Done(Sign(N(a)[1], N(b)[1]))
    BY <1>1, <1>3, NumberOrderIs, ClearSelf DEF OrderBy
  <2>2. Ranks(op, a, b) = Done(~IsNan(a) /\ ~IsNan(b) /\ Ordered(op, N(a)[1] - N(b)[1]))
    BY <1>1, <1>3 DEF RankBy
  <2>3. Ordered(op, Sign(N(a)[1], N(b)[1])) = Ordered(op, N(a)[1] - N(b)[1])
    BY <1>3, NumberIs, OrderedSign
  <2>4. (~IsNan(a) /\ ~IsNan(b) /\ Ordered(op, N(a)[1] - N(b)[1])) = Ordered(op, N(a)[1] - N(b)[1])
    <3>1. N(a)[1] \in Int /\ N(b)[1] \in Int
      BY <1>3, NumberIs
    <3>2. Ordered(op, N(a)[1] - N(b)[1]) \in BOOLEAN
      BY <3>1, OrderedTruth
    <3> QED
      BY <1>3, <3>2
  <2> QED
    BY <2>1, <2>2, <2>3, <2>4, JudgedIs DEF OrderedAlike
<1>4. CASE ~(IsNumber(a) /\ IsNumber(b)) /\ Tag(a) # Tag(b)
  BY <1>1, <1>4, JudgedIs DEF OrderedAlike, OrderBy, RankBy
<1>5. CASE Tag(a) = Tag(b) /\ Tag(a) \in {"STRING", "BYTES"}
  <2>1. Order(a, b) = Done(TextOrder(N(a), N(b))) /\ Ranks(op, a, b) = Done(Ordered(op, TextRank(N(a), N(b))))
    BY <1>1, <1>5 DEF OrderBy, RankBy, IsNumber, IntLike, SetLike, IsKeys
  <2>2. N(a) \in Seq(Nat) /\ N(b) \in Seq(Nat)
    BY <1>5, HeapAssumption DEF WellFormed
  <2> QED
    BY <2>1, <2>2, TextOrderIs, JudgedIs DEF OrderedAlike
<1>6. CASE Tag(a) = Tag(b) /\ Tag(a) \in {"LIST", "TUPLE"}
  <2>1. Order(a, b) = OrderItems(f, Items(a), Items(b))
    BY <1>1, <1>6 DEF OrderBy, IsNumber, IntLike
  <2>2. Ranks(op, a, b) = RankItems(g, op, Items(a), Items(b))
    BY <1>1, <1>6 DEF RankBy, IsNumber, IntLike, SetLike, IsKeys
  <2> QED
    BY <1>2, <1>6, <2>1, <2>2 DEF OrderedAlike
<1>7. CASE ~(IsNumber(a) /\ IsNumber(b)) /\ Tag(a) \notin {"STRING", "BYTES", "LIST", "TUPLE"}
  BY <1>1, <1>7, JudgedIs DEF OrderedAlike, OrderBy, RankBy
<1> QED
  BY <1>3, <1>4, <1>5, <1>6, <1>7

LEMMA PlainUnder ==
  ASSUME NEW a \in Cells, Plain(a), NEW x, Under(x, a)
  PROVE  Plain(x) /\ ~IsNan(x) /\ ~SetLike(x)
<1>1. x \in Reachable[x] /\ Reachable[x] \subseteq Reachable[a]
  BY ReachSelf DEF Under
<1> QED
  BY <1>1 DEF Plain

LEMMA PlainAlike ==
  ASSUME NEW op \in Orderings, NEW a \in Cells, NEW b \in Cells, Clear(a, b), Plain(a), Plain(b)
  PROVE  OrderedAlike(op, a, b)
<1> DEFINE T == {n \in Nat : \A x, y \in Cells :
                   x <= n /\ Clear(x, y) /\ Plain(x) /\ Plain(y) => OrderedAlike(op, x, y)}
<1>1. 0 \in T
  BY CellsAre
<1>2. ASSUME NEW n \in Nat, n \in T PROVE n + 1 \in T
  <2>1. ASSUME NEW x \in Cells, NEW y \in Cells, x <= n + 1, Clear(x, y), Plain(x), Plain(y)
        PROVE  OrderedAlike(op, x, y)
    <3>1. ASSUME NEW i \in 1..Len(Items(x)), NEW j \in 1..Len(Items(y))
          PROVE  OrderedAlike(op, Items(x)[i], Items(y)[j])
      <4>1. PICK u, w : u = Items(x)[i] /\ w = Items(y)[j]
        OBVIOUS
      <4>2. Under(u, x) /\ Under(w, y) /\ u \in 1..(x - 1)
        BY <4>1, ElementsUnder, ItemsBelow
      <4>3. u \in Cells /\ w \in Cells /\ Clear(u, w)
        BY <2>1, <4>2, AgreeInside, ClearUnder
      <4>4. Plain(u) /\ Plain(w)
        BY <2>1, <4>2, PlainUnder
      <4>5. u <= n
        BY <2>1, <4>2, CellsAre
      <4> QED
        BY <1>2, <4>1, <4>3, <4>4, <4>5
    <3>2. ~IsNan(x) /\ ~IsNan(y) /\ ~SetLike(x)
      BY <2>1, PlainUnder, ReachSelf
    <3> QED
      BY <2>1, <3>1, <3>2, OrderStep
  <2> QED
    BY <2>1
<1>3. \A n \in Nat : n \in T
  <2> HIDE DEF T
  <2> QED
    BY <1>1, <1>2, Induction
<1>4. a \in T
  BY <1>3, CellsAre
<1>5. a <= a
  BY CellsAre
<1> QED
  BY <1>4, <1>5

IsASet(v) == Tag(v) \in {"SET", "FROZENSET"}

\* A set holds as many different things as it has items.
LEMMA MembersIs ==
  ASSUME NEW v \in Cells, IsASet(v), Clear(v, v)
  PROVE  /\ Members(v) = Image(AllOf(Denotation, Items(v)), Len(Items(v)))
         /\ OneToOne(AllOf(Denotation, Items(v)), Len(Items(v)))
         /\ IsFiniteSet(Members(v)) /\ Cardinality(Members(v)) = Len(Items(v))
<1> DEFINE s == Items(v)
           e == AllOf(Denotation, s)
<1>1. Len(s) \in Nat /\ ToSet(s) = {s[i] : i \in 1..Len(s)}
  BY ItemsBelow
<1>2. Members(v) = Image(e, Len(s))
  <2>1. Members(v) = {Denotes(x) : x \in ToSet(s)}
    BY DEF Members, Held, SetElements, IsKeys, IsASet
  <2> QED
    BY <1>1, <2>1 DEF Image, AllOf, Denotes
<1>3. OneToOne(e, Len(s))
  <2>1. NoneMatch(s)
    BY HeapAssumption DEF WellFormed, IsASet
  <2>2. \A i, j \in 1..Len(s) : Agree(s[i], s[j])
    BY ElementsUnder, AgreeInside
  <2> HIDE DEF s
  <2> QED
    BY <2>1, <2>2, NoneSame
<1> HIDE DEF s, e
<1>4. IsFiniteSet(Image(e, Len(s))) /\ Cardinality(Image(e, Len(s))) = Len(s)
  BY <1>1, <1>3, ImageOf DEF Image
<1> QED
  BY <1>2, <1>3, <1>4 DEF s, e

LEMMA SubsetIs ==
  ASSUME NEW a \in Cells, NEW b \in Cells, Clear(a, b), IsASet(a), IsASet(b)
  PROVE  SetLikeSubset(a, b) <=> Members(a) \subseteq Members(b)
<1> DEFINE s == Items(a)
<1>1. ToSet(s) = {s[i] : i \in 1..Len(s)} /\ \A i \in 1..Len(s) : Under(s[i], a)
  BY ItemsBelow, ElementsUnder
<1>2. Members(a) = {Denotes(x) : x \in ToSet(s)}
  BY DEF Members, Held, SetElements, IsKeys, IsASet
<1>3. SetLikeSubset(a, b) <=> \A x \in ToSet(s) : SetContains(HashTerms, AreEqual, b, x)
  BY DEF SetLikeSubset, IsKeys, IsASet
<1> HIDE DEF s
<1>4. ASSUME NEW x \in ToSet(s) PROVE SetContains(HashTerms, AreEqual, b, x) = (Denotes(x) \in Members(b))
  <2>1. x \in Cells /\ Clear(x, b)
    BY <1>1, ReachSelf, ClearUnder DEF Under
  <2> QED
    BY <2>1, InSet DEF IsASet
<1> QED
  BY <1>2, <1>3, <1>4

LEMMA ProperIs ==
  ASSUME NEW A, NEW B, IsFiniteSet(A), IsFiniteSet(B), A \subseteq B
  PROVE  A # B <=> Cardinality(A) < Cardinality(B)
<1>1. A \in SUBSET B
  OBVIOUS
<1>2. Cardinality(A) \in Nat /\ Cardinality(B) \in Nat /\ Cardinality(A) <= Cardinality(B)
      /\ (Cardinality(A) = Cardinality(B) => A = B)
  BY <1>1, FS_Subset, FS_CardinalityType
<1> QED
  BY <1>2

LEMMA SetsRanked ==
  ASSUME NEW op \in Orderings, NEW a \in Cells, NEW b \in Cells, Clear(a, b), IsASet(a), IsASet(b)
  PROVE  Compare(op, a, b) = Ranks(op, a, b)
<1> DEFINE A == Members(a)
           B == Members(b)
           p == SetLikeSubset(a, b)
           q == SetLikeSubset(b, a)
           m == SetLen(a)
           n == SetLen(b)
<1>1. Clear(b, a) /\ Clear(a, a) /\ Clear(b, b)
  BY ClearUnder, ReachSelf
<1>2. (p <=> A \subseteq B) /\ (q <=> B \subseteq A)
  BY <1>1, SubsetIs
<1>3. IsFiniteSet(A) /\ IsFiniteSet(B) /\ Cardinality(A) = m /\ Cardinality(B) = n
  BY <1>1, MembersIs DEF SetLen, IsKeys, IsASet
<1>4. SetLike(a) /\ SetLike(b) /\ ~IsNumber(a)
  BY DEF SetLike, IsASet, IsNumber, IntLike
<1>5. Ranks(op, a, b) = Done(IF op \in {"LT", "LE"} THEN Includes(op, b, a) ELSE Includes(op, a, b))
  BY <1>4, PairFunctions DEF RankBy
<1>6. p \in BOOLEAN /\ q \in BOOLEAN
  BY DEF SetLikeSubset
<1>7. /\ op = "LE" => Compare(op, a, b) = Done(p)
      /\ op = "LT" => Compare(op, a, b) = Done(m < n /\ p)
      /\ op = "GE" => Compare(op, a, b) = Done(q)
      /\ op = "GT" => Compare(op, a, b) = Done(m > n /\ q)
  <2>1. Compare(op, a, b)
          = Done(IF op \in {"LT", "LE"} THEN Included(op, a, b) ELSE Included(op, b, a))
    <3>1. op \notin {"EQ", "NE"}
      BY DEF Orderings
    <3> QED
      BY <1>4, <3>1 DEF Compare
  <2>2. /\ Included(op, a, b) = (p /\ (op \in {"LT", "GT"} => m < n))
        /\ Included(op, b, a) = (q /\ (op \in {"LT", "GT"} => n < m))
    BY DEF Included
  <2>3. m \in Int /\ n \in Int
    BY <1>3, FS_CardinalityType
  <2> HIDE DEF p, q, m, n
  <2>4. /\ op = "LE" => (p /\ (op \in {"LT", "GT"} => m < n)) = p
        /\ op = "LT" => (p /\ (op \in {"LT", "GT"} => m < n)) = (m < n /\ p)
        /\ op = "GE" => (q /\ (op \in {"LT", "GT"} => n < m)) = q
        /\ op = "GT" => (q /\ (op \in {"LT", "GT"} => n < m)) = (m > n /\ q)
    BY <1>6, <2>3
  <2> QED
    BY <2>1, <2>2, <2>4
<1> HIDE DEF p, q, m, n
<1>8. /\ A \subseteq B => (A # B <=> m < n)
      /\ B \subseteq A => (B # A <=> n < m)
  <2> HIDE DEF A, B
  <2> QED
    BY <1>3, ProperIs
<1>9. m \in Int /\ n \in Int
  BY <1>3, FS_CardinalityType
<1>10. CASE op = "LE"
  <2>1. Includes(op, b, a) = p
    BY <1>2, <1>6, <1>10 DEF Includes, PartOf
  <2> QED
    BY <1>5, <1>7, <1>10, <2>1
<1>11. CASE op = "LT"
  <2>1. Includes(op, b, a) = (m < n /\ p)
    BY <1>2, <1>6, <1>8, <1>9, <1>11 DEF Includes, PartOf
  <2> QED
    BY <1>5, <1>7, <1>11, <2>1
<1>12. CASE op = "GE"
  <2>1. Includes(op, a, b) = q
    BY <1>2, <1>6, <1>12 DEF Includes, PartOf
  <2> QED
    BY <1>5, <1>7, <1>12, <2>1
<1>13. CASE op = "GT"
  <2>1. Includes(op, a, b) = (m > n /\ q)
    BY <1>2, <1>6, <1>8, <1>9, <1>13 DEF Includes, PartOf
  <2> QED
    BY <1>5, <1>7, <1>13, <2>1
<1> QED
  BY <1>10, <1>11, <1>12, <1>13 DEF Orderings

(***************************************************************************)
(* For every heap, <, <=, > and >= order values as Python does, numbers of *)
(* every mixture, texts, nested lists and tuples and sets, or are a        *)
(* TypeError where it has no order: op_compare, order_compare.             *)
(***************************************************************************)
THEOREM OrderTheorem == ValuesType => OrderAsPython
<1> SUFFICES ASSUME ValuesType, case.kind = "values", Clear(case.a, case.b), ~Unranked(case.a, case.b),
                    NEW op \in Orderings
             PROVE  Compare(op, case.a, case.b) = Ranks(op, case.a, case.b)
  BY DEF OrderAsPython
<1> DEFINE a == case.a
           b == case.b
<1>1. a \in Cells /\ b \in Cells /\ Clear(a, b) /\ ~Unranked(a, b)
  BY DEF ValuesType
<1> HIDE DEF a, b
<1>2. op \notin {"EQ", "NE"}
  BY DEF Orderings
<1>3. CASE SetLike(a) /\ SetLike(b)
  <2>1. IsASet(a) /\ IsASet(b)
    BY <1>1, <1>3 DEF Unranked, SetLike, IsASet
  <2> QED
    BY <1>1, <2>1, SetsRanked DEF a, b
<1>4. CASE IsNumber(a) /\ IsNumber(b) /\ (IsNan(a) \/ IsNan(b))
  <2>1. Compare(op, a, b) = Done(FALSE)
    BY <1>2, <1>4 DEF Compare, SetLike, IsKeys, IsNumber, IntLike
  <2>2. Ranks(op, a, b) = Done(FALSE)
    BY <1>1, <1>4, PairFunctions DEF RankBy
  <2> QED
    BY <2>1, <2>2 DEF a, b
<1>5. CASE ~(SetLike(a) /\ SetLike(b)) /\ (IsNumber(a) /\ IsNumber(b) => ~IsNan(a) /\ ~IsNan(b))
  <2>1. OrderedAlike(op, a, b)
    <3>1. CASE Tag(a) = Tag(b) /\ Tag(a) \in {"LIST", "TUPLE"}
      <4>1. Plain(a) /\ Plain(b)
        BY <1>1, <3>1 DEF Unranked
      <4> QED
        BY <1>1, <4>1, PlainAlike
    <3>2. CASE ~(Tag(a) = Tag(b) /\ Tag(a) \in {"LIST", "TUPLE"})
      BY <1>1, <1>5, <3>2, OrderStep
    <3> QED
      BY <3>1, <3>2
  <2>2. Compare(op, a, b) = Judged(op, Order(a, b))
    <3>1. CASE IsNumber(a) /\ IsNumber(b)
      <4>1. Order(a, b) = Done(NumberOrder(a, b)) /\ NumberOrder(a, b) = Sign(N(a)[1], N(b)[1])
        BY <1>1, <1>5, <3>1, PairFunctions, NumberOrderIs, ClearSelf DEF OrderBy
      <4>2. PICK c \in Int : c = NumberOrder(a, b)
        BY <4>1 DEF Sign
      <4>3. Compare(op, a, b) = Done(~IsNan(a) /\ ~IsNan(b) /\ Ordered(op, c))
        BY <1>2, <1>5, <3>1, <4>2 DEF Compare
      <4>4. (~IsNan(a) /\ ~IsNan(b) /\ Ordered(op, c)) = Ordered(op, c)
        BY <1>5, <3>1, OrderedTruth
      <4> QED
        BY <4>1, <4>2, <4>3, <4>4, JudgedIs
    <3>2. CASE ~(IsNumber(a) /\ IsNumber(b))
      BY <1>2, <1>5, <3>2 DEF Compare, Judged
    <3> QED
      BY <3>1, <3>2
  <2> QED
    BY <2>1, <2>2 DEF OrderedAlike, a, b
<1> QED
  BY <1>3, <1>4, <1>5

-----------------------------------------------------------------------------
(* The algebra of sets. *)

\* The code and Python agree on all the cells of M.
Concord(M) == M \subseteq Cells /\ \A x, y \in M : Agree(x, y)

\* The items of a set.
Proper(M, s) == s \in Seq(M) /\ NoneMatch(s)

LEMMA SequenceOf ==
  ASSUME NEW M, NEW s \in Seq(M)
  PROVE  /\ Len(s) \in Nat /\ \A i \in 1..Len(s) : s[i] \in M
         /\ ToSet(s) = {s[i] : i \in 1..Len(s)} /\ ToSet(s) \subseteq M
BY DEF ToSet

LEMMA AppendOf ==
  ASSUME NEW M, NEW s \in Seq(M), NEW x \in M
  PROVE  /\ Append(s, x) \in Seq(M) /\ Len(Append(s, x)) = Len(s) + 1
         /\ ToSet(Append(s, x)) = ToSet(s) \cup {x}
         /\ \A i \in 1..Len(s) : Append(s, x)[i] = s[i]
         /\ Append(s, x)[Len(s) + 1] = x
<1> DEFINE t == Append(s, x)
<1>1. /\ t \in Seq(M) /\ Len(t) = Len(s) + 1
      /\ \A i \in 1..Len(s) : t[i] = s[i]
      /\ t[Len(s) + 1] = x /\ Len(s) \in Nat
  OBVIOUS
<1> HIDE DEF t
<1>2. ToSet(t) = {t[i] : i \in 1..Len(t)} /\ ToSet(s) = {s[i] : i \in 1..Len(s)}
  BY <1>1, SequenceOf
<1>3. ToSet(t) = ToSet(s) \cup {x}
  <2>1. ASSUME NEW y \in ToSet(t) PROVE y \in ToSet(s) \cup {x}
    BY <1>1, <1>2
  <2>2. ASSUME NEW y \in ToSet(s) PROVE y \in ToSet(t)
    BY <1>1, <1>2
  <2>3. x \in ToSet(t)
    BY <1>1, <1>2
  <2> QED
    BY <2>1, <2>2, <2>3
<1> QED
  BY <1>1, <1>3 DEF t

\* A set of cells that agree has as many items as it denotes things.
LEMMA ProperSet ==
  ASSUME NEW M, Concord(M), NEW s, Proper(M, s)
  PROVE  IsSet(Done(s), Denoted(s))
<1> DEFINE e == AllOf(Denotation, s)
<1>1. s \in Seq(M) /\ NoneMatch(s) /\ Len(s) \in Nat /\ ToSet(s) = {s[i] : i \in 1..Len(s)}
      /\ \A i \in 1..Len(s) : s[i] \in M
  BY SequenceOf DEF Proper
<1>2. Denoted(s) = Image(e, Len(s))
  BY <1>1 DEF Denoted, Image, AllOf, Denotes
<1>3. OneToOne(e, Len(s))
  BY <1>1, NoneSame DEF Concord
<1> HIDE DEF e
<1>4. Cardinality(Image(e, Len(s))) = Len(s)
  BY <1>1, <1>3, ImageOf DEF Image
<1>5. Done(s).error = "OK" /\ Done(s).value = s
  BY DEF Done
<1> QED
  BY <1>2, <1>4, <1>5 DEF IsSet, Denoted

LEMMA NoneMatchAppend ==
  ASSUME NEW M, Concord(M), NEW s, Proper(M, s), NEW x \in M, Hashable(x),
         \A y \in ToSet(s) : ~Same(y, x)
  PROVE  Proper(M, Append(s, x))
<1> DEFINE t == Append(s, x)
<1>1. s \in Seq(M) /\ NoneMatch(s) /\ Len(s) \in Nat /\ ToSet(s) = {s[i] : i \in 1..Len(s)}
      /\ \A i \in 1..Len(s) : s[i] \in M
  BY SequenceOf DEF Proper
<1>2. t \in Seq(M) /\ Len(t) = Len(s) + 1 /\ (\A i \in 1..Len(s) : t[i] = s[i]) /\ t[Len(s) + 1] = x
  BY <1>1, AppendOf
<1> HIDE DEF t
<1>3. ASSUME NEW i \in 1..Len(s) PROVE ~Matches(HashTerms, AreEqual, s[i], x) /\ ~Matches(HashTerms, AreEqual, x, s[i])
  <2>1. Hashable(s[i]) /\ Agree(s[i], x) /\ Agree(x, s[i]) /\ ~Same(s[i], x)
    BY <1>1 DEF NoneMatch, Concord
  <2>2. ~Same(x, s[i])
    BY <2>1 DEF Same
  <2> QED
    BY <2>1, <2>2, MatchesIs
<1>4. \A i \in 1..Len(t) : i \in 1..Len(s) \/ i = Len(s) + 1
  BY <1>1, <1>2
<1>5. \A i \in 1..Len(t) : Hashable(t[i])
  BY <1>1, <1>2, <1>4 DEF NoneMatch
<1>6. ASSUME NEW i \in 1..Len(t), NEW j \in 1..Len(t), Matches(HashTerms, AreEqual, t[i], t[j]) PROVE i = j
  <2>1. CASE i \in 1..Len(s) /\ j \in 1..Len(s)
    BY <1>1, <1>2, <1>6, <2>1 DEF NoneMatch
  <2>2. CASE i \in 1..Len(s) /\ j = Len(s) + 1
    BY <1>2, <1>3, <1>6, <2>2
  <2>3. CASE i = Len(s) + 1 /\ j \in 1..Len(s)
    BY <1>2, <1>3, <1>6, <2>3
  <2> QED
    BY <1>4, <2>1, <2>2, <2>3
<1>7. NoneMatch(t)
  BY <1>5, <1>6 DEF NoneMatch
<1> QED
  BY <1>2, <1>7 DEF Proper, t

AllCanHash(s) == \A x \in ToSet(s) : Hashable(x)

LEMMA ProperHash ==
  ASSUME NEW M, NEW s, Proper(M, s)
  PROVE  s \in Seq(M) /\ AllCanHash(s)
BY SequenceOf DEF Proper, NoneMatch, AllCanHash

LEMMA HasIs ==
  ASSUME NEW M, Concord(M), NEW s \in Seq(M), AllCanHash(s), NEW x \in M, Hashable(x)
  PROVE  Has(HashTerms, AreEqual, s, x) <=> Denotes(x) \in Denoted(s)
<1>1. ASSUME NEW y \in ToSet(s) PROVE Matches(HashTerms, AreEqual, y, x) <=> Same(y, x)
  <2>1. Hashable(y) /\ Agree(y, x)
    BY SequenceOf DEF AllCanHash, Concord
  <2> QED
    BY <2>1, MatchesIs
<1> QED
  BY <1>1 DEF Has, Denoted, Same

\* One more item: value_set_add.
LEMMA WithIs ==
  ASSUME NEW M, Concord(M), NEW s, Proper(M, s), NEW x \in M, Hashable(x)
  PROVE  Proper(M, With(HashTerms, AreEqual, s, x)) /\ Denoted(With(HashTerms, AreEqual, s, x)) = Denoted(s) \cup {Denotes(x)}
<1>1. s \in Seq(M) /\ AllCanHash(s)
  BY ProperHash
<1>2. Has(HashTerms, AreEqual, s, x) <=> Denotes(x) \in Denoted(s)
  BY <1>1, HasIs
<1>3. CASE Has(HashTerms, AreEqual, s, x)
  BY <1>2, <1>3 DEF With
<1>4. CASE ~Has(HashTerms, AreEqual, s, x)
  <2>1. \A y \in ToSet(s) : ~Same(y, x)
    BY <1>2, <1>4 DEF Denoted, Same
  <2>2. Proper(M, Append(s, x))
    BY <2>1, NoneMatchAppend
  <2>3. ToSet(Append(s, x)) = ToSet(s) \cup {x}
    BY <1>1, AppendOf
  <2>4. Denoted(Append(s, x)) = Denoted(s) \cup {Denotes(x)}
    BY <2>3 DEF Denoted
  <2>5. With(HashTerms, AreEqual, s, x) = Append(s, x)
    BY <1>4 DEF With
  <2> QED
    BY <2>2, <2>4, <2>5
<1> QED
  BY <1>3, <1>4

\* Recursion over the places of a sequence.
Walks(f, S, n, s, G) ==
  f \in [0..n -> S] /\ f[0] = s /\ \A i \in 1..n : f[i] = G[<<i, f[i - 1]>>]

LEMMA Walk ==
  ASSUME NEW S, NEW s \in S, NEW n \in Nat, NEW G \in [(1..n) \X S -> S]
  PROVE  \E f : Walks(f, S, n, s, G)
<1> DEFINE H == [p \in Nat \X S |-> IF p[1] + 1 \in 1..n THEN G[<<p[1] + 1, p[2]>>] ELSE p[2]]
<1>1. H \in [Nat \X S -> S]
  OBVIOUS
<1>2. PICK g : IsNumbered(g, S, H, s)
  <2> HIDE DEF H
  <2> QED
    BY <1>1, IndexedRecursion
<1>3. g \in [Nat -> S] /\ g[0] = s /\ \A i \in Nat : g[i + 1] = H[<<i, g[i]>>]
  <2> HIDE DEF H
  <2> QED
    BY <1>2 DEF IsNumbered
<1> DEFINE f == [i \in 0..n |-> g[i]]
<1>4. ASSUME NEW i \in 1..n PROVE f[i] = G[<<i, f[i - 1]>>]
  <2>1. i - 1 \in Nat /\ i - 1 \in 0..n /\ i \in 0..n /\ (i - 1) + 1 = i
    OBVIOUS
  <2>2. PICK j \in Nat : j = i - 1 /\ j + 1 = i
    BY <2>1
  <2>3. g[j + 1] = H[<<j, g[j]>>] /\ g[j] \in S
    BY <1>3
  <2>4. H[<<j, g[j]>>] = G[<<i, g[j]>>]
    BY <2>2, <2>3
  <2> QED
    BY <2>1, <2>2, <2>3, <2>4
<1>5. f \in [0..n -> S] /\ f[0] = s
  BY <1>3
<1> HIDE DEF f
<1> QED
  BY <1>4, <1>5 DEF Walks

\* The sets that can be made of the cells of M.
Sets(M) == {s \in Seq(M) : NoneMatch(s)}

LEMMA AddAllWalk ==
  ASSUME NEW M, Concord(M), NEW s, Proper(M, s), NEW t \in Seq(M), AllCanHash(t)
  PROVE  \E f : /\ AddAll(HashTerms, AreEqual, s, t) = f[Len(t)] /\ f[0] = s
                /\ \A i \in 1..Len(t) : f[i] = With(HashTerms, AreEqual, f[i - 1], t[i])
<1> DEFINE S == Sets(M)
           n == Len(t)
           G == [p \in (1..n) \X S |-> With(HashTerms, AreEqual, p[2], t[p[1]])]
           By(f) == [i \in 0..n |-> IF i = 0 THEN s ELSE With(HashTerms, AreEqual, f[i - 1], t[i])]
           Is(f) == f = By(f)
<1>1. n \in Nat /\ (\A i \in 1..n : t[i] \in M /\ Hashable(t[i])) /\ s \in S
  BY SequenceOf DEF AllCanHash, Sets, Proper
<1>2. AddAll(HashTerms, AreEqual, s, t) = (CHOOSE f : Is(f))[n]
  BY Zenon DEF AddAll
<1> HIDE DEF n
<1>3. G \in [(1..n) \X S -> S]
  <2>1. ASSUME NEW i \in 1..n, NEW r \in S PROVE With(HashTerms, AreEqual, r, t[i]) \in S
    BY <1>1, WithIs DEF Sets, Proper
  <2> QED
    BY <2>1
<1>4. PICK f : Walks(f, S, n, s, G)
  <2> HIDE DEF G, S
  <2> QED
    BY <1>1, <1>3, Walk
<1>5. f \in [0..n -> S] /\ f[0] = s /\ \A i \in 1..n : f[i] = With(HashTerms, AreEqual, f[i - 1], t[i])
  <2>1. f \in [0..n -> S] /\ f[0] = s /\ \A i \in 1..n : f[i] = G[<<i, f[i - 1]>>]
    <3> HIDE DEF G, S
    <3> QED
      BY <1>4 DEF Walks
  <2>2. ASSUME NEW i \in 1..n PROVE f[i] = With(HashTerms, AreEqual, f[i - 1], t[i])
    <3>1. i - 1 \in 0..n
      BY <1>1
    <3>2. f[i - 1] \in S
      BY <2>1, <3>1
    <3> QED
      BY <2>1, <3>2
  <2> QED
    BY <2>1, <2>2
<1> HIDE DEF S, G
<1>6. f = By(f)
  <2>1. DOMAIN f = 0..n /\ DOMAIN By(f) = 0..n
    BY <1>5
  <2>2. ASSUME NEW i \in 0..n PROVE f[i] = By(f)[i]
    <3>1. i = 0 \/ i \in 1..n
      BY <1>1
    <3> QED
      BY <1>5, <3>1
  <2>3. f = [i \in 0..n |-> f[i]]
    BY <1>5
  <2> QED
    BY <2>2, <2>3
<1>7. PICK g : g = (CHOOSE h : Is(h)) /\ Is(g)
  <2>1. \E h : Is(h)
    BY <1>6
  <2> HIDE DEF Is
  <2> QED
    BY <2>1
<1>8. g[0] = s /\ \A i \in 1..n : g[i] = With(HashTerms, AreEqual, g[i - 1], t[i])
  <2>1. g = By(g)
    BY <1>7
  <2>2. 0 \in 0..n /\ \A i \in 1..n : i \in 0..n /\ i # 0
    BY <1>1
  <2>3. By(g)[0] = s /\ \A i \in 1..n : By(g)[i] = With(HashTerms, AreEqual, g[i - 1], t[i])
    BY <2>2
  <2> HIDE DEF By
  <2> QED
    BY <2>1, <2>3
<1> HIDE DEF Is, By
<1> QED
  BY <1>2, <1>7, <1>8 DEF n

LEMMA PrefixOf ==
  ASSUME NEW t, NEW i, i \in Nat, i + 1 \in 1..Len(t)
  PROVE  {Denotes(t[j]) : j \in 1..(i + 1)} = {Denotes(t[j]) : j \in 1..i} \cup {Denotes(t[i + 1])}
<1>1. \A j : j \in 1..(i + 1) <=> j \in 1..i \/ j = i + 1
  OBVIOUS
<1> QED
  BY <1>1

\* Many more: value_set_update.
LEMMA AddAllIs ==
  ASSUME NEW M, Concord(M), NEW s, Proper(M, s), NEW t \in Seq(M), AllCanHash(t)
  PROVE  Proper(M, AddAll(HashTerms, AreEqual, s, t)) /\ Denoted(AddAll(HashTerms, AreEqual, s, t)) = Denoted(s) \cup Denoted(t)
<1> DEFINE Got(i) == {Denotes(t[j]) : j \in 1..i}
<1>1. PICK f : /\ AddAll(HashTerms, AreEqual, s, t) = f[Len(t)] /\ f[0] = s
               /\ \A i \in 1..Len(t) : f[i] = With(HashTerms, AreEqual, f[i - 1], t[i])
  BY AddAllWalk
<1>2. PICK n \in Nat : n = Len(t) /\ ToSet(t) = {t[i] : i \in 1..n} /\ \A i \in 1..n : t[i] \in M
  BY SequenceOf
<1> DEFINE T == {i \in Nat : i <= n => Proper(M, f[i]) /\ Denoted(f[i]) = Denoted(s) \cup Got(i)}
<1>3. 0 \in T
  BY <1>1
<1>4. ASSUME NEW i \in Nat, i \in T PROVE i + 1 \in T
  <2>1. ASSUME i + 1 <= n PROVE Proper(M, f[i + 1]) /\ Denoted(f[i + 1]) = Denoted(s) \cup Got(i + 1)
    <3>1. i + 1 \in 1..n /\ i <= n /\ (i + 1) - 1 = i
      BY <2>1
    <3>2. f[i + 1] = With(HashTerms, AreEqual, f[i], t[i + 1]) /\ t[i + 1] \in M /\ Hashable(t[i + 1])
      BY <1>1, <1>2, <3>1 DEF AllCanHash
    <3>3. Proper(M, f[i]) /\ Denoted(f[i]) = Denoted(s) \cup Got(i)
      BY <1>4, <3>1
    <3>4. Got(i + 1) = Got(i) \cup {Denotes(t[i + 1])}
      BY <1>2, <3>1, PrefixOf
    <3> HIDE DEF Got
    <3>5. PICK r, x : r = f[i] /\ x = t[i + 1]
      OBVIOUS
    <3>6. Proper(M, With(HashTerms, AreEqual, r, x)) /\ Denoted(With(HashTerms, AreEqual, r, x)) = Denoted(r) \cup {Denotes(x)}
      BY <3>2, <3>3, <3>5, WithIs
    <3> QED
      BY <3>2, <3>3, <3>4, <3>5, <3>6
  <2> QED
    BY <2>1
<1>5. n \in T
  <2> HIDE DEF T
  <2> QED
    BY <1>3, <1>4, Induction
<1>6. Got(n) = Denoted(t)
  BY <1>2 DEF Denoted
<1>7. Proper(M, f[n]) /\ Denoted(f[n]) = Denoted(s) \cup Got(n)
  BY <1>5
<1> QED
  BY <1>1, <1>2, <1>6, <1>7

\* One item more of those to keep.
Took(s, x, keep) == IF x \in keep THEN Append(s, x) ELSE s

LEMMA ThoseWalk ==
  ASSUME NEW M, NEW t \in Seq(M), NEW keep
  PROVE  \E f : /\ Those(t, keep) = f[Len(t)] /\ f[0] = << >>
                /\ \A i \in 1..Len(t) : f[i] = Took(f[i - 1], t[i], keep)
<1> DEFINE S == Seq(M)
           n == Len(t)
           G == [p \in (1..n) \X S |-> Took(p[2], t[p[1]], keep)]
           By(f) == [i \in 0..n |-> IF i = 0 THEN << >> ELSE Took(f[i - 1], t[i], keep)]
           Is(f) == f = By(f)
<1>1. n \in Nat /\ (\A i \in 1..n : t[i] \in M) /\ << >> \in S
  BY SequenceOf
<1>2. Those(t, keep) = (CHOOSE f : Is(f))[n]
  BY Zenon DEF Those, Took
<1> HIDE DEF n
<1>3. G \in [(1..n) \X S -> S]
  <2>1. ASSUME NEW i \in 1..n, NEW r \in S PROVE Took(r, t[i], keep) \in S
    BY <1>1, AppendOf DEF Took
  <2> QED
    BY <2>1
<1>4. PICK f : Walks(f, S, n, << >>, G)
  <2> HIDE DEF G, S
  <2> QED
    BY <1>1, <1>3, Walk
<1>5. f \in [0..n -> S] /\ f[0] = << >> /\ \A i \in 1..n : f[i] = Took(f[i - 1], t[i], keep)
  <2>1. f \in [0..n -> S] /\ f[0] = << >> /\ \A i \in 1..n : f[i] = G[<<i, f[i - 1]>>]
    <3> HIDE DEF G, S
    <3> QED
      BY <1>4 DEF Walks
  <2>2. ASSUME NEW i \in 1..n PROVE f[i] = Took(f[i - 1], t[i], keep)
    <3>1. i - 1 \in 0..n
      BY <1>1
    <3>2. f[i - 1] \in S
      BY <2>1, <3>1
    <3> QED
      BY <2>1, <3>2
  <2> QED
    BY <2>1, <2>2
<1> HIDE DEF S, G
<1>6. f = By(f)
  <2>1. DOMAIN f = 0..n /\ DOMAIN By(f) = 0..n
    BY <1>5
  <2>2. ASSUME NEW i \in 0..n PROVE f[i] = By(f)[i]
    <3>1. i = 0 \/ i \in 1..n
      BY <1>1
    <3> QED
      BY <1>5, <3>1
  <2>3. f = [i \in 0..n |-> f[i]]
    BY <1>5
  <2> QED
    BY <2>2, <2>3
<1>7. PICK g : g = (CHOOSE h : Is(h)) /\ Is(g)
  <2>1. \E h : Is(h)
    BY <1>6
  <2> HIDE DEF Is
  <2> QED
    BY <2>1
<1>8. g[0] = << >> /\ \A i \in 1..n : g[i] = Took(g[i - 1], t[i], keep)
  <2>1. g = By(g)
    BY <1>7
  <2>2. 0 \in 0..n /\ \A i \in 1..n : i \in 0..n /\ i # 0
    BY <1>1
  <2>3. By(g)[0] = << >> /\ \A i \in 1..n : By(g)[i] = Took(g[i - 1], t[i], keep)
    BY <2>2
  <2> HIDE DEF By
  <2> QED
    BY <2>1, <2>3
<1> HIDE DEF Is, By
<1> QED
  BY <1>2, <1>7, <1>8 DEF n

\* The items to keep of a set are a set.
LEMMA ThoseIs ==
  ASSUME NEW M, Concord(M), NEW s, Proper(M, s), NEW keep
  PROVE  Proper(M, Those(s, keep)) /\ ToSet(Those(s, keep)) = ToSet(s) \cap keep
<1>1. s \in Seq(M) /\ NoneMatch(s)
  BY DEF Proper
<1>2. PICK n \in Nat : n = Len(s) /\ ToSet(s) = {s[i] : i \in 1..n} /\ \A i \in 1..n : s[i] \in M
  BY <1>1, SequenceOf
<1>3. PICK f : /\ Those(s, keep) = f[n] /\ f[0] = << >>
               /\ \A i \in 1..n : f[i] = Took(f[i - 1], s[i], keep)
  BY <1>1, <1>2, ThoseWalk
<1> DEFINE Got(i) == {s[j] : j \in 1..i} \cap keep
           T == {i \in Nat : i <= n => Proper(M, f[i]) /\ ToSet(f[i]) = Got(i)}
<1>4. 0 \in T
  <2>1. << >> \in Seq(M) /\ NoneMatch(<< >>) /\ ToSet(<< >>) = {}
    BY DEF NoneMatch, ToSet
  <2>2. Got(0) = {}
    OBVIOUS
  <2> QED
    BY <1>3, <2>1, <2>2 DEF Proper
<1>5. ASSUME NEW i \in Nat, i \in T PROVE i + 1 \in T
  <2>1. ASSUME i + 1 <= n PROVE Proper(M, f[i + 1]) /\ ToSet(f[i + 1]) = Got(i + 1)
    <3>1. i + 1 \in 1..n /\ i <= n /\ (i + 1) - 1 = i
      BY <2>1
    <3>2. PICK r, x : r = f[i] /\ x = s[i + 1]
      OBVIOUS
    <3>3. f[i + 1] = Took(r, x, keep) /\ x \in M /\ Hashable(x)
      BY <1>1, <1>2, <1>3, <3>1, <3>2 DEF NoneMatch
    <3>4. Proper(M, r) /\ ToSet(r) = Got(i)
      BY <1>5, <3>1, <3>2
    <3>5. Got(i + 1) = Got(i) \cup ({x} \cap keep)
      <4>1. \A j : j \in 1..(i + 1) <=> j \in 1..i \/ j = i + 1
        OBVIOUS
      <4> QED
        BY <3>2, <4>1
    <3>6. ASSUME NEW y \in ToSet(r) PROVE ~Same(y, x)
      <4>1. PICK j \in 1..i : y = s[j]
        BY <3>4
      <4>2. j \in 1..n /\ j # i + 1
        BY <3>1
      <4>3. Hashable(y) /\ y \in M /\ ~Matches(HashTerms, AreEqual, y, x)
        BY <1>1, <1>2, <3>1, <3>2, <4>1, <4>2 DEF NoneMatch
      <4>4. Agree(y, x)
        BY <3>3, <4>3 DEF Concord
      <4> QED
        BY <3>3, <4>3, <4>4, MatchesIs
    <3> HIDE DEF Got
    <3>7. CASE x \in keep
      <4>1. Proper(M, Append(r, x))
        BY <3>3, <3>4, <3>6, NoneMatchAppend
      <4>2. ToSet(Append(r, x)) = ToSet(r) \cup {x}
        BY <3>3, <3>4, AppendOf DEF Proper
      <4> QED
        BY <3>3, <3>4, <3>5, <3>7, <4>1, <4>2 DEF Took
    <3>8. CASE x \notin keep
      BY <3>3, <3>4, <3>5, <3>8 DEF Took
    <3> QED
      BY <3>7, <3>8
  <2> QED
    BY <2>1
<1>6. n \in T
  <2> HIDE DEF T
  <2> QED
    BY <1>4, <1>5, Induction
<1>7. Proper(M, f[n]) /\ ToSet(f[n]) = Got(n)
  BY <1>6
<1> QED
  BY <1>2, <1>3, <1>7

\* What a look-up of x finds.
Found(x) == IF Hashable(x) THEN {Denotes(x)} ELSE {}

\* One item less: value_set_discard.
LEMMA DropIs ==
  ASSUME NEW M, Concord(M), NEW s, Proper(M, s), NEW x \in M
  PROVE  Proper(M, Drop(HashTerms, AreEqual, s, x)) /\ Denoted(Drop(HashTerms, AreEqual, s, x)) = Denoted(s) \ Found(x)
<1>1. CASE Hashable(x)
  <2> DEFINE keep == {y \in Cells : ~Matches(HashTerms, AreEqual, y, x)}
  <2>1. Drop(HashTerms, AreEqual, s, x) = Those(s, keep)
    BY <1>1 DEF Drop
  <2>2. ASSUME NEW y \in ToSet(s) PROVE y \in keep <=> Denotes(y) # Denotes(x)
    <3>1. y \in M /\ Hashable(y)
      BY ProperHash, SequenceOf DEF AllCanHash
    <3>2. Matches(HashTerms, AreEqual, y, x) <=> Same(y, x)
      BY <1>1, <3>1, MatchesIs DEF Concord
    <3> QED
      BY <3>1, <3>2 DEF Same, Concord
  <2> HIDE DEF keep
  <2>3. Proper(M, Those(s, keep)) /\ ToSet(Those(s, keep)) = ToSet(s) \cap keep
    BY ThoseIs
  <2>4. Denoted(Those(s, keep)) = Denoted(s) \ {Denotes(x)}
    BY <2>2, <2>3 DEF Denoted
  <2> QED
    BY <1>1, <2>1, <2>3, <2>4 DEF Found
<1>2. CASE ~Hashable(x)
  BY <1>2 DEF Drop, Found
<1> QED
  BY <1>1, <1>2

LEMMA DropAllWalk ==
  ASSUME NEW M, Concord(M), NEW s, Proper(M, s), NEW t \in Seq(M)
  PROVE  \E f : /\ DropAll(HashTerms, AreEqual, s, t) = f[Len(t)] /\ f[0] = s
                /\ \A i \in 1..Len(t) : f[i] = Drop(HashTerms, AreEqual, f[i - 1], t[i])
<1> DEFINE S == Sets(M)
           n == Len(t)
           G == [p \in (1..n) \X S |-> Drop(HashTerms, AreEqual, p[2], t[p[1]])]
           By(f) == [i \in 0..n |-> IF i = 0 THEN s ELSE Drop(HashTerms, AreEqual, f[i - 1], t[i])]
           Is(f) == f = By(f)
<1>1. n \in Nat /\ (\A i \in 1..n : t[i] \in M) /\ s \in S
  BY SequenceOf DEF Sets, Proper
<1>2. DropAll(HashTerms, AreEqual, s, t) = (CHOOSE f : Is(f))[n]
  BY Zenon DEF DropAll
<1> HIDE DEF n
<1>3. G \in [(1..n) \X S -> S]
  <2>1. ASSUME NEW i \in 1..n, NEW r \in S PROVE Drop(HashTerms, AreEqual, r, t[i]) \in S
    BY <1>1, DropIs DEF Sets, Proper
  <2> QED
    BY <2>1
<1>4. PICK f : Walks(f, S, n, s, G)
  <2> HIDE DEF G, S
  <2> QED
    BY <1>1, <1>3, Walk
<1>5. f \in [0..n -> S] /\ f[0] = s /\ \A i \in 1..n : f[i] = Drop(HashTerms, AreEqual, f[i - 1], t[i])
  <2>1. f \in [0..n -> S] /\ f[0] = s /\ \A i \in 1..n : f[i] = G[<<i, f[i - 1]>>]
    <3> HIDE DEF G, S
    <3> QED
      BY <1>4 DEF Walks
  <2>2. ASSUME NEW i \in 1..n PROVE f[i] = Drop(HashTerms, AreEqual, f[i - 1], t[i])
    <3>1. i - 1 \in 0..n
      BY <1>1
    <3>2. f[i - 1] \in S
      BY <2>1, <3>1
    <3> QED
      BY <2>1, <3>2
  <2> QED
    BY <2>1, <2>2
<1> HIDE DEF S, G
<1>6. f = By(f)
  <2>1. DOMAIN f = 0..n /\ DOMAIN By(f) = 0..n
    BY <1>5
  <2>2. ASSUME NEW i \in 0..n PROVE f[i] = By(f)[i]
    <3>1. i = 0 \/ i \in 1..n
      BY <1>1
    <3> QED
      BY <1>5, <3>1
  <2>3. f = [i \in 0..n |-> f[i]]
    BY <1>5
  <2> QED
    BY <2>2, <2>3
<1>7. PICK g : g = (CHOOSE h : Is(h)) /\ Is(g)
  <2>1. \E h : Is(h)
    BY <1>6
  <2> HIDE DEF Is
  <2> QED
    BY <2>1
<1>8. g[0] = s /\ \A i \in 1..n : g[i] = Drop(HashTerms, AreEqual, g[i - 1], t[i])
  <2>1. g = By(g)
    BY <1>7
  <2>2. 0 \in 0..n /\ \A i \in 1..n : i \in 0..n /\ i # 0
    BY <1>1
  <2>3. By(g)[0] = s /\ \A i \in 1..n : By(g)[i] = Drop(HashTerms, AreEqual, g[i - 1], t[i])
    BY <2>2
  <2> HIDE DEF By
  <2> QED
    BY <2>1, <2>3
<1> HIDE DEF Is, By
<1> QED
  BY <1>2, <1>7, <1>8 DEF n

\* Many less: setlike_difference.
LEMMA DropAllIs ==
  ASSUME NEW M, Concord(M), NEW s, Proper(M, s), NEW t \in Seq(M)
  PROVE  /\ Proper(M, DropAll(HashTerms, AreEqual, s, t))
         /\ Denoted(DropAll(HashTerms, AreEqual, s, t)) = Denoted(s) \ {Denotes(x) : x \in {y \in ToSet(t) : Hashable(y)}}
<1> DEFINE Gone(i) == UNION {Found(t[j]) : j \in 1..i}
<1>1. PICK f : /\ DropAll(HashTerms, AreEqual, s, t) = f[Len(t)] /\ f[0] = s
               /\ \A i \in 1..Len(t) : f[i] = Drop(HashTerms, AreEqual, f[i - 1], t[i])
  BY DropAllWalk
<1>2. PICK n \in Nat : n = Len(t) /\ ToSet(t) = {t[i] : i \in 1..n} /\ \A i \in 1..n : t[i] \in M
  BY SequenceOf
<1> DEFINE T == {i \in Nat : i <= n => Proper(M, f[i]) /\ Denoted(f[i]) = Denoted(s) \ Gone(i)}
<1>3. 0 \in T
  BY <1>1
<1>4. ASSUME NEW i \in Nat, i \in T PROVE i + 1 \in T
  <2>1. ASSUME i + 1 <= n PROVE Proper(M, f[i + 1]) /\ Denoted(f[i + 1]) = Denoted(s) \ Gone(i + 1)
    <3>1. i + 1 \in 1..n /\ i <= n /\ (i + 1) - 1 = i
      BY <2>1
    <3>2. PICK r, x : r = f[i] /\ x = t[i + 1]
      OBVIOUS
    <3>3. f[i + 1] = Drop(HashTerms, AreEqual, r, x) /\ x \in M
      BY <1>1, <1>2, <3>1, <3>2
    <3>4. Proper(M, r) /\ Denoted(r) = Denoted(s) \ Gone(i)
      BY <1>4, <3>1, <3>2
    <3>5. Gone(i + 1) = Gone(i) \cup Found(x)
      <4>1. \A j : j \in 1..(i + 1) <=> j \in 1..i \/ j = i + 1
        OBVIOUS
      <4> QED
        BY <3>2, <4>1
    <3> HIDE DEF Gone
    <3>6. Proper(M, Drop(HashTerms, AreEqual, r, x)) /\ Denoted(Drop(HashTerms, AreEqual, r, x)) = Denoted(r) \ Found(x)
      BY <3>3, <3>4, DropIs
    <3> QED
      BY <3>3, <3>4, <3>5, <3>6
  <2> QED
    BY <2>1
<1>5. n \in T
  <2> HIDE DEF T
  <2> QED
    BY <1>3, <1>4, Induction
<1>6. Gone(n) = {Denotes(x) : x \in {y \in ToSet(t) : Hashable(y)}}
  BY <1>2 DEF Found
<1>7. Proper(M, f[n]) /\ Denoted(f[n]) = Denoted(s) \ Gone(n)
  BY <1>5
<1> QED
  BY <1>1, <1>2, <1>6, <1>7

\* The items that match an item of another, and those that match none.
LEMMA MatchingIs ==
  ASSUME NEW M, Concord(M), NEW s, Proper(M, s), NEW t \in Seq(M), AllCanHash(t)
  PROVE  \A x \in ToSet(s) :
           /\ x \in Matching(HashTerms, AreEqual, t) <=> Denotes(x) \in Denoted(t)
           /\ x \in Cells \ Matching(HashTerms, AreEqual, t) <=> Denotes(x) \notin Denoted(t)
<1> TAKE x \in ToSet(s)
<1>1. x \in M /\ Hashable(x)
  BY ProperHash, SequenceOf DEF AllCanHash
<1>2. x \in Cells
  BY <1>1 DEF Concord
<1>3. Has(HashTerms, AreEqual, t, x) <=> Denotes(x) \in Denoted(t)
  BY <1>1, HasIs
<1> QED
  BY <1>2, <1>3 DEF Matching

\* Keeping the items whose value another sequence holds is the intersection.
LEMMA CommonIs ==
  ASSUME NEW M, Concord(M), NEW s, Proper(M, s), NEW t, NEW keep,
         \A x \in ToSet(s) : x \in keep <=> Denotes(x) \in Denoted(t)
  PROVE  Proper(M, Those(s, keep)) /\ Denoted(Those(s, keep)) = Denoted(s) \cap Denoted(t)
<1>1. Proper(M, Those(s, keep)) /\ ToSet(Those(s, keep)) = ToSet(s) \cap keep
  BY ThoseIs
<1> QED
  BY <1>1 DEF Denoted

\* Keeping the items whose value another sequence does not hold is the difference.
LEMMA LeftIs ==
  ASSUME NEW M, Concord(M), NEW s, Proper(M, s), NEW t, NEW keep,
         \A x \in ToSet(s) : x \in keep <=> Denotes(x) \notin Denoted(t)
  PROVE  Proper(M, Those(s, keep)) /\ Denoted(Those(s, keep)) = Denoted(s) \ Denoted(t)
<1>1. Proper(M, Those(s, keep)) /\ ToSet(Those(s, keep)) = ToSet(s) \cap keep
  BY ThoseIs
<1> QED
  BY <1>1 DEF Denoted

\* Two sets with nothing in common, one after the other.
LEMMA JoinedIs ==
  ASSUME NEW M, Concord(M), NEW s, Proper(M, s), NEW t, Proper(M, t), Denoted(s) \cap Denoted(t) = {}
  PROVE  Proper(M, s \o t) /\ Denoted(s \o t) = Denoted(s) \cup Denoted(t)
<1> DEFINE r == s \o t
<1>1. /\ s \in Seq(M) /\ NoneMatch(s) /\ Len(s) \in Nat /\ ToSet(s) = {s[i] : i \in 1..Len(s)}
      /\ t \in Seq(M) /\ NoneMatch(t) /\ Len(t) \in Nat /\ ToSet(t) = {t[i] : i \in 1..Len(t)}
      /\ (\A i \in 1..Len(s) : s[i] \in M) /\ (\A i \in 1..Len(t) : t[i] \in M)
  BY SequenceOf DEF Proper
<1>2. /\ r \in Seq(M) /\ Len(r) = Len(s) + Len(t)
      /\ \A i \in 1..Len(s) : r[i] = s[i]
      /\ \A i \in 1..Len(t) : r[Len(s) + i] = t[i]
  BY <1>1
<1> HIDE DEF r
<1>3. ToSet(r) = {r[i] : i \in 1..Len(r)}
  <2>1. r \in Seq(M)
    BY <1>2
  <2> QED
    BY <2>1, SequenceOf
<1>4. ASSUME NEW i \in 1..Len(r) PROVE i \in 1..Len(s) \/ \E k \in 1..Len(t) : i = Len(s) + k
  <2>1. i \in 1..Len(s) \/ i - Len(s) \in 1..Len(t)
    BY <1>1, <1>2
  <2>2. i = Len(s) + (i - Len(s))
    BY <1>1, <1>2
  <2> QED
    BY <2>1, <2>2
<1>5. ToSet(r) = ToSet(s) \cup ToSet(t)
  <2>1. ASSUME NEW x \in ToSet(r) PROVE x \in ToSet(s) \cup ToSet(t)
    <3>1. PICK i \in 1..Len(r) : x = r[i]
      BY <1>3
    <3>2. CASE i \in 1..Len(s)
      BY <1>1, <1>2, <3>1, <3>2
    <3>3. ASSUME NEW k \in 1..Len(t), i = Len(s) + k PROVE x \in ToSet(t)
      BY <1>1, <1>2, <3>1, <3>3
    <3> QED
      BY <1>4, <3>2, <3>3
  <2>2. ASSUME NEW x \in ToSet(s) PROVE x \in ToSet(r)
    <3>1. PICK i \in 1..Len(s) : x = s[i]
      BY <1>1
    <3>2. i \in 1..Len(r)
      BY <1>1, <1>2
    <3> QED
      BY <1>2, <1>3, <3>1, <3>2
  <2>3. ASSUME NEW x \in ToSet(t) PROVE x \in ToSet(r)
    <3>1. PICK i \in 1..Len(t) : x = t[i]
      BY <1>1
    <3>2. Len(s) + i \in 1..Len(r)
      BY <1>1, <1>2
    <3> QED
      BY <1>2, <1>3, <3>1, <3>2
  <2> QED
    BY <2>1, <2>2, <2>3
<1>6. Denoted(r) = Denoted(s) \cup Denoted(t)
  BY <1>5 DEF Denoted
<1>7. ASSUME NEW i \in 1..Len(s), NEW j \in 1..Len(t)
      PROVE  ~Matches(HashTerms, AreEqual, s[i], t[j]) /\ ~Matches(HashTerms, AreEqual, t[j], s[i])
  <2>1. Hashable(s[i]) /\ Hashable(t[j]) /\ Agree(s[i], t[j]) /\ Agree(t[j], s[i])
    BY <1>1 DEF NoneMatch, Concord
  <2>2. Denotes(s[i]) \in Denoted(s) /\ Denotes(t[j]) \in Denoted(t)
    BY <1>1 DEF Denoted
  <2>3. ~Same(s[i], t[j]) /\ ~Same(t[j], s[i])
    BY <2>2 DEF Same
  <2> QED
    BY <2>1, <2>3, MatchesIs
<1>8. \A i \in 1..Len(r) : Hashable(r[i])
  BY <1>1, <1>2, <1>4 DEF NoneMatch
<1>9. ASSUME NEW i \in 1..Len(r), NEW j \in 1..Len(r), Matches(HashTerms, AreEqual, r[i], r[j]) PROVE i = j
  <2>1. CASE i \in 1..Len(s) /\ j \in 1..Len(s)
    BY <1>1, <1>2, <1>9, <2>1 DEF NoneMatch
  <2>2. ASSUME i \in 1..Len(s), NEW k \in 1..Len(t), j = Len(s) + k PROVE FALSE
    BY <1>2, <1>7, <1>9, <2>2
  <2>3. ASSUME NEW k \in 1..Len(t), i = Len(s) + k, j \in 1..Len(s) PROVE FALSE
    BY <1>2, <1>7, <1>9, <2>3
  <2>4. ASSUME NEW k \in 1..Len(t), i = Len(s) + k, NEW l \in 1..Len(t), j = Len(s) + l PROVE i = j
    <3>1. Matches(HashTerms, AreEqual, t[k], t[l])
      BY <1>2, <1>9, <2>4
    <3>2. k = l
      BY <1>1, <3>1 DEF NoneMatch
    <3> QED
      BY <2>4, <3>2
  <2> QED
    BY <1>4, <2>1, <2>2, <2>3, <2>4
<1>10. NoneMatch(r)
  BY <1>8, <1>9 DEF NoneMatch
<1> QED
  BY <1>2, <1>6, <1>10 DEF Proper, r

\* The cells that two values are made of.
Met(a, b) == {x \in Cells : Under(x, a) \/ Under(x, b)}

LEMMA MetAgree ==
  ASSUME NEW a \in Cells, NEW b \in Cells, Clear(a, b)
  PROVE  Concord(Met(a, b))
BY AgreeInside DEF Concord, Met

\* The set of a, and what iterating b yields: as it is, and made a set.
LEMMA OperandsAre ==
  ASSUME NEW a \in Cells, NEW b \in Cells, Clear(a, b), IsASet(a), Iterable(b)
  PROVE  /\ Proper(Met(a, b), Items(a)) /\ Members(a) = Denoted(Items(a))
         /\ Yields(b) \in Seq(Met(a, b)) /\ Members(b) = Denoted(Yields(b))
         /\ AllHashable(b) = AllCanHash(Yields(b))
         /\ IsASet(b) => AllCanHash(Yields(b))
         /\ AllCanHash(Yields(b)) => /\ Proper(Met(a, b), Materialized(b))
                                     /\ Denoted(Materialized(b)) = Denoted(Yields(b))
<1> DEFINE M == Met(a, b)
           s == Items(a)
           t == Yields(b)
<1>1. Concord(M)
  BY MetAgree
<1>2. Proper(M, s)
  <2>1. s \in Seq(1..(a - 1)) /\ \A i \in 1..Len(s) : s[i] \in M
    BY ItemsBelow, ElementsUnder DEF Met, Under
  <2>2. s \in Seq(M)
    BY <2>1
  <2>3. NoneMatch(s)
    BY HeapAssumption DEF WellFormed, IsASet
  <2> QED
    BY <2>2, <2>3 DEF Proper
<1>3. t \in Seq(M)
  <2>1. t \in Seq(1..(b - 1)) /\ \A i \in 1..Len(t) : t[i] \in M
    BY ElementsBelow, ElementsUnder DEF Met, Under, Yields
  <2> QED
    BY <2>1
<1>4. Members(a) = Denoted(s)
  BY DEF Members, Held, Denoted, SetElements, IsKeys, IsASet
<1>5. Members(b) = Denoted(t)
  BY DEF Members, Held, Denoted, Yields, Iterable, IsKeys
<1>6. AllHashable(b) = AllCanHash(t)
  BY DEF AllHashable, AllCanHash
<1>7. CASE IsASet(b)
  <2>1. NoneMatch(t) /\ Items(b) = t
    BY <1>7, HeapAssumption DEF WellFormed, IsASet, Yields, SetElements, IsKeys
  <2>2. Proper(M, t) /\ Materialized(b) = t
    BY <1>3, <1>7, <2>1 DEF Proper, Materialized, IsASet
  <2>3. AllCanHash(t)
    BY <2>2, ProperHash
  <2> QED
    BY <1>2, <1>3, <1>4, <1>5, <1>6, <2>2, <2>3
<1>8. CASE ~IsASet(b)
  <2>1. Materialized(b) = AddAll(HashTerms, AreEqual, << >>, t)
    BY <1>8 DEF Materialized, IsASet
  <2>2. Proper(M, << >>) /\ Denoted(<< >>) = {}
    BY DEF Proper, NoneMatch, Denoted, ToSet
  <2> HIDE DEF M, t
  <2>3. ASSUME AllCanHash(t) PROVE Proper(M, AddAll(HashTerms, AreEqual, << >>, t)) /\ Denoted(AddAll(HashTerms, AreEqual, << >>, t)) = Denoted(t)
    <3>1. PICK e : e = << >>
      OBVIOUS
    <3>2. Proper(M, AddAll(HashTerms, AreEqual, e, t)) /\ Denoted(AddAll(HashTerms, AreEqual, e, t)) = Denoted(e) \cup Denoted(t)
      BY <1>1, <1>3, <2>2, <2>3, <3>1, AddAllIs
    <3> QED
      BY <2>2, <3>1, <3>2
  <2> QED
    BY <1>2, <1>3, <1>4, <1>5, <1>6, <1>8, <2>1, <2>3 DEF M, t
<1> QED
  BY <1>7, <1>8

LEMMA UsableIs ==
  ASSUME NEW a \in Cells, NEW b \in Cells, Clear(a, b), IsASet(a)
  PROVE  Usable(b) <=> Iterable(b) /\ AllHashable(b)
<1>1. CASE IsASet(b)
  <2>1. Iterable(b)
    BY <1>1 DEF IsASet, Iterable
  <2>2. AllHashable(b)
    BY <1>1, <2>1, OperandsAre
  <2> QED
    BY <1>1, <2>1, <2>2 DEF Usable, IsASet
<1>2. CASE ~IsASet(b)
  BY <1>2 DEF Usable, IsASet
<1> QED
  BY <1>1, <1>2

LEMMA DifferenceIs ==
  ASSUME NEW a \in Cells, NEW b \in Cells, Clear(a, b), IsASet(a), Iterable(b)
  PROVE  IsSet(Difference2(a, b),
               Members(a) \ {Denotes(x) : x \in {y \in ToSet(Yields(b)) : Hashable(y)}})
<1> DEFINE M == Met(a, b)
           s == Items(a)
           t == Yields(b)
           r == DropAll(HashTerms, AreEqual, s, t)
           H == {Denotes(x) : x \in {y \in ToSet(t) : Hashable(y)}}
<1>1. Concord(M) /\ Proper(M, s) /\ Members(a) = Denoted(s) /\ t \in Seq(M)
  BY MetAgree, OperandsAre
<1>2. Difference2(a, b) = Done(r)
  BY DEF Difference2
<1> HIDE DEF M, s, t
<1>3. Proper(M, r) /\ Denoted(r) = Denoted(s) \ H
  BY <1>1, DropAllIs
<1> HIDE DEF r, H
<1>4. IsSet(Done(r), Denoted(r))
  BY <1>1, <1>3, ProperSet
<1>5. IsSet(Difference2(a, b), Members(a) \ H)
  BY <1>1, <1>2, <1>3, <1>4
<1> QED
  BY <1>5 DEF H, t

AsAlgebra(a, b, A, B) ==
  /\ IsSet(Union2(a, b), A \cup B)
  /\ IsSet(Intersection2(a, b), A \cap B)
  /\ IsSet(SymmetricDifference2(a, b), (A \ B) \cup (B \ A))
  /\ IsSubset(a, b) = Done(A \subseteq B)
  /\ IsSuperset(a, b) = Done(B \subseteq A)
  /\ IsDisjoint(a, b) = Done(A \cap B = {})

LEMMA AlgebraIs ==
  ASSUME NEW a \in Cells, NEW b \in Cells, Clear(a, b), IsASet(a), Iterable(b), AllHashable(b),
         NEW A, NEW B, A = Members(a), B = Members(b)
  PROVE  AsAlgebra(a, b, A, B)
<1> USE DEF AsAlgebra
<1> DEFINE M == Met(a, b)
           s == Items(a)
           t == Yields(b)
           m == Materialized(b)
           u == AddAll(HashTerms, AreEqual, s, t)
           p == Those(s, Matching(HashTerms, AreEqual, m))
           q == Those(s, Cells \ Matching(HashTerms, AreEqual, m))
           r == Those(m, Cells \ Matching(HashTerms, AreEqual, s))
<1>1. /\ Concord(M) /\ Proper(M, s) /\ A = Denoted(s) /\ t \in Seq(M) /\ AllCanHash(t)
      /\ B = Denoted(t) /\ Proper(M, m) /\ Denoted(m) = Denoted(t)
  BY MetAgree, OperandsAre
<1>2. Usable(b)
  BY UsableIs
<1>3. /\ Union2(a, b) = Done(u) /\ Intersection2(a, b) = Done(p)
      /\ SymmetricDifference2(a, b) = Done(q \o r)
  <2>1. Union2(a, b) = Done(u)
    BY Zenon DEF Union2
  <2>2. Intersection2(a, b) = Done(p)
    BY <1>2, Zenon DEF Intersection2
  <2>3. SymmetricDifference2(a, b) = Done(q \o r)
    BY <1>2, Zenon DEF SymmetricDifference2, Unmatched
  <2> QED
    BY <2>1, <2>2, <2>3
<1>4. /\ IsSubset(a, b) = Done(\A x \in ToSet(s) : Has(HashTerms, AreEqual, m, x))
      /\ IsSuperset(a, b) = Done(\A x \in ToSet(m) : Has(HashTerms, AreEqual, s, x))
      /\ IsDisjoint(a, b) = Done(\A x \in ToSet(s) : ~Has(HashTerms, AreEqual, m, x))
  <2>1. IsSubset(a, b) = Done(\A x \in ToSet(s) : Has(HashTerms, AreEqual, m, x))
    BY <1>2, Zenon DEF IsSubset
  <2>2. IsSuperset(a, b) = Done(\A x \in ToSet(m) : Has(HashTerms, AreEqual, s, x))
    BY <1>2, Zenon DEF IsSuperset
  <2>3. IsDisjoint(a, b) = Done(\A x \in ToSet(s) : ~Has(HashTerms, AreEqual, m, x))
    BY <1>2, Zenon DEF IsDisjoint
  <2> QED
    BY <2>1, <2>2, <2>3
<1> HIDE DEF M, s, t, m
<1>5. /\ s \in Seq(M) /\ AllCanHash(s) /\ m \in Seq(M) /\ AllCanHash(m)
  BY <1>1, ProperHash
<1>6. Proper(M, u) /\ Denoted(u) = A \cup B
  BY <1>1, AddAllIs
<1>7. /\ Proper(M, p) /\ Denoted(p) = A \cap B
      /\ Proper(M, q) /\ Denoted(q) = A \ B
  <2>1. PICK P, Q : /\ P = Matching(HashTerms, AreEqual, m)
                    /\ Q = Cells \ Matching(HashTerms, AreEqual, m)
    OBVIOUS
  <2>2. /\ \A x \in ToSet(s) : x \in P <=> Denotes(x) \in Denoted(m)
        /\ \A x \in ToSet(s) : x \in Q <=> Denotes(x) \notin Denoted(m)
    BY <1>1, <1>5, <2>1, MatchingIs
  <2>3. p = Those(s, P) /\ q = Those(s, Q)
    BY <2>1
  <2> HIDE DEF p, q
  <2>4. Proper(M, p) /\ Denoted(p) = Denoted(s) \cap Denoted(m)
    BY <1>1, <2>2, <2>3, CommonIs
  <2>5. Proper(M, q) /\ Denoted(q) = Denoted(s) \ Denoted(m)
    BY <1>1, <2>2, <2>3, LeftIs
  <2> QED
    BY <1>1, <2>4, <2>5
<1>8. Proper(M, r) /\ Denoted(r) = B \ A
  <2>1. PICK R : R = Cells \ Matching(HashTerms, AreEqual, s)
    OBVIOUS
  <2>2. \A x \in ToSet(m) : x \in R <=> Denotes(x) \notin Denoted(s)
    BY <1>1, <1>5, <2>1, MatchingIs
  <2>3. r = Those(m, R)
    BY <2>1
  <2> HIDE DEF r
  <2> QED
    BY <1>1, <2>2, <2>3, LeftIs
<1> HIDE DEF u, p, q, r
<1>9. Proper(M, q \o r) /\ Denoted(q \o r) = (A \ B) \cup (B \ A)
  <2>1. Denoted(q) \cap Denoted(r) = {}
    BY <1>7, <1>8
  <2> QED
    BY <1>1, <1>7, <1>8, <2>1, JoinedIs
<1>10. /\ IsSet(Union2(a, b), A \cup B) /\ IsSet(Intersection2(a, b), A \cap B)
       /\ IsSet(SymmetricDifference2(a, b), (A \ B) \cup (B \ A))
  <2>1. IsSet(Done(u), Denoted(u)) /\ IsSet(Done(p), Denoted(p))
    BY <1>1, <1>6, <1>7, ProperSet
  <2>2. PICK w : w = q \o r
    OBVIOUS
  <2>3. IsSet(Done(w), Denoted(w))
    BY <1>1, <1>9, <2>2, ProperSet
  <2> QED
    BY <1>3, <1>6, <1>7, <1>9, <2>1, <2>2, <2>3
<1>11. /\ \A x \in ToSet(s) : Has(HashTerms, AreEqual, m, x) <=> Denotes(x) \in B
       /\ \A x \in ToSet(m) : Has(HashTerms, AreEqual, s, x) <=> Denotes(x) \in A
  <2>1. ASSUME NEW x \in ToSet(s) PROVE Has(HashTerms, AreEqual, m, x) <=> Denotes(x) \in B
    <3>1. x \in M /\ Hashable(x)
      BY <1>5, SequenceOf DEF AllCanHash
    <3> QED
      BY <1>1, <1>5, <3>1, HasIs
  <2>2. ASSUME NEW x \in ToSet(m) PROVE Has(HashTerms, AreEqual, s, x) <=> Denotes(x) \in A
    <3>1. x \in M /\ Hashable(x)
      BY <1>5, SequenceOf DEF AllCanHash
    <3> QED
      BY <1>1, <1>5, <3>1, HasIs
  <2> QED
    BY <2>1, <2>2
<1>12. A = {Denotes(x) : x \in ToSet(s)} /\ B = {Denotes(x) : x \in ToSet(m)}
  BY <1>1 DEF Denoted
<1>13. /\ (\A x \in ToSet(s) : Has(HashTerms, AreEqual, m, x)) = (A \subseteq B)
       /\ (\A x \in ToSet(m) : Has(HashTerms, AreEqual, s, x)) = (B \subseteq A)
       /\ (\A x \in ToSet(s) : ~Has(HashTerms, AreEqual, m, x)) = (A \cap B = {})
  <2>1. (\A x \in ToSet(s) : Has(HashTerms, AreEqual, m, x)) <=> A \subseteq B
    BY <1>11, <1>12
  <2>2. (\A x \in ToSet(m) : Has(HashTerms, AreEqual, s, x)) <=> B \subseteq A
    BY <1>11, <1>12
  <2>3. (\A x \in ToSet(s) : ~Has(HashTerms, AreEqual, m, x)) <=> A \cap B = {}
    BY <1>11, <1>12
  <2> QED
    BY <2>1, <2>2, <2>3
<1> QED
  BY <1>4, <1>10, <1>13

(***************************************************************************)
(* For every heap, the methods and operators of sets compute the set       *)
(* operations, of any iterable, or are an error: ops_set.c, methods_set.c. *)
(***************************************************************************)
THEOREM SetAlgebraTheorem == ValuesType => SetAlgebra
<1> SUFFICES ASSUME ValuesType, case.kind = "values", Tag(case.a) \in {"SET", "FROZENSET"},
                    Tag(case.b) \notin {"STRING", "BYTES", "RANGE"},
                    Tag(case.b) = "DICT_VIEW" => IsKeys(case.b), Clear(case.a, case.b)
             PROVE  SetAlgebra
  BY DEF SetAlgebra
<1> DEFINE a == case.a
           b == case.b
           A == Members(a)
           B == Members(b)
           H == {Denotes(x) : x \in {y \in ToSet(Yields(b)) : Hashable(y)}}
           usable == Iterable(b) /\ AllHashable(b)
           d == Difference2(a, b)
<1>1. a \in Cells /\ b \in Cells /\ Clear(a, b) /\ IsASet(a)
  BY DEF ValuesType, IsASet
<1> HIDE DEF a, b
<1>2. YieldsSet(d, Iterable(b), A \ H)
  <2>1. CASE Iterable(b)
    BY <1>1, <2>1, DifferenceIs DEF YieldsSet
  <2>2. CASE ~Iterable(b)
    BY <2>2 DEF Difference2, YieldsSet
  <2> QED
    BY <2>1, <2>2
<1>3. ASSUME usable PROVE AsAlgebra(a, b, A, B)
  <2> HIDE DEF A, B
  <2>1. A = Members(a) /\ B = Members(b)
    BY DEF A, B
  <2> QED
    BY <1>1, <1>3, <2>1, AlgebraIs
<1>4. ASSUME ~usable
      PROVE  \A r \in {Union2(a, b), Intersection2(a, b), SymmetricDifference2(a, b),
                       IsSubset(a, b), IsSuperset(a, b), IsDisjoint(a, b)} : r = Failed("TYPE")
  <2>1. ~Usable(b)
    BY <1>1, <1>4, UsableIs
  <2>2. Union2(a, b) = Failed("TYPE")
    BY <1>4 DEF Union2
  <2>3. /\ Intersection2(a, b) = Failed("TYPE") /\ SymmetricDifference2(a, b) = Failed("TYPE")
        /\ IsSubset(a, b) = Failed("TYPE") /\ IsSuperset(a, b) = Failed("TYPE")
        /\ IsDisjoint(a, b) = Failed("TYPE")
    BY <2>1 DEF Intersection2, SymmetricDifference2, IsSubset, IsSuperset, IsDisjoint
  <2> QED
    BY <2>2, <2>3
<1>5. YieldsSet(SetOperator(d, a, b), Tag(b) \in {"SET", "FROZENSET"}, A \ B)
  <2>1. CASE IsASet(b)
    <3>1. Iterable(b) /\ AllHashable(b) /\ B = Denoted(Yields(b))
      BY <1>1, <2>1, OperandsAre DEF IsASet, Iterable
    <3>2. H = B
      BY <3>1 DEF AllHashable, Denoted
    <3>3. IsSet(d, A \ B)
      BY <1>2, <3>1, <3>2 DEF YieldsSet
    <3>4. SetOperator(d, a, b) = d
      BY <1>1, <2>1 DEF SetOperator, IsASet
    <3> QED
      BY <2>1, <3>3, <3>4 DEF YieldsSet, IsASet
  <2>2. CASE ~IsASet(b)
    BY <2>2 DEF SetOperator, YieldsSet, IsASet
  <2> QED
    BY <2>1, <2>2
<1> HIDE DEF A, B, H, usable, d
<1>6. /\ YieldsSet(Union2(a, b), usable, A \cup B)
      /\ YieldsSet(Intersection2(a, b), usable, A \cap B)
      /\ YieldsSet(SymmetricDifference2(a, b), usable, (A \ B) \cup (B \ A))
      /\ Answers(IsSubset(a, b), usable, A \subseteq B)
      /\ Answers(IsSuperset(a, b), usable, B \subseteq A)
      /\ Answers(IsDisjoint(a, b), usable, A \cap B = {})
  BY <1>3, <1>4, Zenon DEF AsAlgebra, YieldsSet, Answers
<1> QED
  BY <1>2, <1>5, <1>6, Zenon DEF SetAlgebra, AlgebraOf, a, b, A, B, H, usable, d
=============================================================================
