---------------------------- MODULE MCOperators ----------------------------
(***************************************************************************)
(* The operators of Arithmetic, Slices and Comparing beside what Python    *)
(* says they do: every pair of small integers, every slice of short lists, *)
(* every pair of values of a heap.                                         *)
(***************************************************************************)
EXTENDS PyValues

\* A cell of the heap: an atom, a container, a dict.
Atom(tag, n)        == [tag |-> tag, n |-> n, items |-> << >>, vals |-> << >>]
Group(tag, items)   == [tag |-> tag, n |-> << >>, items |-> items, vals |-> << >>]
Dict(keys, vals)    == [tag |-> "DICT", n |-> << >>, items |-> keys, vals |-> vals]
View(kind, dict)    == [tag |-> "DICT_VIEW", n |-> <<kind>>, items |-> <<dict>>, vals |-> << >>]

MCHeap ==
  << Atom("NONE", << >>), Atom("BOOL", <<0>>), Atom("BOOL", <<1>>),           \*  1: None False True
     Atom("INT", <<0>>), Atom("INT", <<1>>), Atom("INT", <<2>>),              \*  4: 0 1 2
     Atom("INT", <<9>>), Atom("FLOAT", <<8>>),                                \*  7: 2**53+1 2.0**53
     Atom("FLOAT", <<1>>), Atom("FLOAT", << >>),                              \*  9: 1.0 nan
     Atom("STRING", <<1>>), Atom("STRING", <<1, 2>>), Atom("STRING", << >>),  \* 11: 'a' 'ab' ''
     Atom("BYTES", <<1>>),                                                    \* 14: b'a'
     Group("TUPLE", << >>), Group("TUPLE", <<5>>),                            \* 15: () (1,)
     Group("TUPLE", <<3, 6>>), Group("TUPLE", <<9, 6>>),                      \* 17: (True,2) (1.0,2)
     Group("TUPLE", <<10>>), Group("LIST", <<5>>),                            \* 19: (nan,) [1]
     Group("TUPLE", <<20>>), Group("LIST", <<9>>), Group("LIST", <<5, 6>>),     \* 21: ([1],) [1.0] [1,2]
     Group("LIST", <<10>>), Group("LIST", <<6>>), Group("LIST", <<11, 5>>),   \* 24: [nan] [2] ['a',1]
     Group("SET", <<5>>), Group("FROZENSET", <<9>>), Group("SET", <<5, 6>>),  \* 27: {1} frozenset({1.0}) {1,2}
     Group("FROZENSET", <<6, 3>>), Group("SET", << >>), Group("SET", <<28>>), \* 30: frozenset({2,True}) set() {28}
     Group("TUPLE", <<28>>), Group("SET", <<6, 1, 11>>),                      \* 33: (28,) {2,None,'a'}
     Dict(<<5>>, <<11>>), Dict(<<3, 6>>, <<11, 5>>),                          \* 35: {1:'a'} {True:'a',2:1}
     Dict(<<6, 5>>, <<9, 11>>), Dict(<<5, 6>>, <<11, 11>>),                   \* 37: {2:1.0,1:'a'} {1:'a',2:'a'}
     View("KEYS", 35), View("KEYS", 36), View("VALUES", 36),                  \* 39
     Atom("RANGE", <<0, 0, 1>>), Atom("RANGE", <<5, 2, 1>>),                  \* 42: two that are empty
     Atom("RANGE", <<0, 1, 1>>), Atom("RANGE", <<0, 1, 5>>),                  \* 44: two of one number
     Atom("RANGE", <<0, 3, 2>>), Atom("RANGE", <<0, 4, 2>>),                  \* 46: two of 0, 2
     Atom("RANGE", <<2, -1, -2>>),                                            \* 48: 2, 0
     Group("LIST", <<27>>), Group("LIST", <<5, 9, 6, 5>>),                    \* 49: [{1}] [1,1.0,2,1]
     Group("LIST", <<5, 20>>) >>                                              \* 51: [1,[1]]

\* (double)i: past 8 the even neighbour, halfway the multiple of four.
MCToDouble ==
  [i \in Ints |->
     IF Magnitude(i) <= 8 \/ i % 2 = 0 THEN i ELSE IF (i - 1) % 4 = 0 THEN i - 1 ELSE i + 1]
MCDoubles == {MCToDouble[i] : i \in Ints}

MCMaxItems == 4
MCBounds   == {IntMin, IntMin + 1, IntMax - 1, IntMax, Absent} \cup -6..6
MCSteps    == {IntMin + 1, -7, -3, -2, -1, 1, 2, 3, 7, IntMax}

Init ==
  \/ case \in [kind : {"ints"}, a : Ints, b : {0}]
  \/ case \in [kind : {"slice"}, a : 0..MaxItems, b : {Absent}]
  \/ case \in [kind : {"values"}, a : Cells, b : {1}]

\* Every b that goes with an a, from the state that has the first.
Choose(b) == case' = [case EXCEPT !.b = b]

NextInts   == case.kind = "ints" /\ case.b = 0 /\ \E b \in Ints : Choose(b)
NextSlice  == case.kind = "slice" /\ case.b = Absent /\ \E b \in Bounds : Choose(b)
NextValues == case.kind = "values" /\ case.b = 1 /\ \E b \in Cells : Choose(b)

Next == NextInts \/ NextSlice \/ NextValues
Spec == Init /\ [][Next]_case
=============================================================================
