-------------------------- MODULE HashIndexProofs ---------------------------
(***************************************************************************)
(* Proofs about the table of a dict, for all keys, hashes and capacities:  *)
(* a trusted index is sound, every probe loop ends, and the table is an    *)
(* insertion-ordered map.                                                  *)
(*                                                                         *)
(* IndexSound is not inductive: that the index popitem left behind is not  *)
(* trusted depends on index_used never being less than the length, that a  *)
(* lookup misses only absent keys depends on the paths to the entries      *)
(* having no gap, and those depend on the free slot that Room promises.    *)
(***************************************************************************)
EXTENDS HashIndex, FiniteSetTheorems, TLAPS

Slots == 0..(index_cap - 1)

\* The slots taken.
Occupied == {s \in Slots : index[s] # 0}

\* No more slots are taken than index_used says, and that leaves one free.
Room ==
  /\ IsFiniteSet(Occupied) /\ Cardinality(Occupied) <= index_used
  /\ index_cap # 0 => index_used < index_cap
  /\ index_cap = 0 => index_used = 0

\* The index is right about the first n entries, and says nothing of others.
Holds(n) ==
  /\ \A s \in Slots : index[s] <= n
  /\ \A i \in 1..n : Reachable(i)

DistinctKeys ==
  \A i, j \in 1..Len(entries) : entries[i].key = entries[j].key => i = j

IsNew(k) == \A i \in 1..Len(entries) : entries[i].key # k

\* A key is about to be added.
Adding == op.kind = "set" /\ IsNew(op.key)

\* While the index is filled it holds the entries so far; otherwise it holds
\* all of them or counts more than there are.
Filled ==
  /\ pc = "build" => index_used <= Len(entries) /\ Holds(index_used) /\ index_cap > Len(entries)
  /\ pc # "build" => index_used >= Len(entries)
  /\ pc # "build" /\ index_used = Len(entries) => Holds(Len(entries))
  /\ pc \in {"lookup", "reserve", "insert"} => index_used = Len(entries)

\* What the insertion of a key may rely on.
Prepared ==
  /\ pc = "reserve" => Adding
  /\ pc = "insert" \/ (pc = "build" /\ then = "insert") =>
       Adding /\ Len(entries) < MaxEntries /\ index_cap > Len(entries) + 1

Inv == TypeOK /\ Room /\ DistinctKeys /\ Filled /\ Prepared
-----------------------------------------------------------------------------
(***************************************************************************)
(* Arithmetic.                                                             *)
(***************************************************************************)
\* Probing stays inside the index.
LEMMA SlotInIndex ==
  ASSUME index_cap \in Nat, NEW h \in Slots, NEW j \in Slots
  PROVE  SlotAt(h, j) \in Slots
  BY DEF Slots, SlotAt

\* The home of a key is a slot.
LEMMA HomeInIndex ==
  ASSUME index_cap \in Nat \ {0}, NEW k \in Keys
  PROVE  Home(k) \in Slots
<1>1. Hash[k] \in Nat
  BY TableAssumption
<1> QED
  BY <1>1 DEF Home, Slots

\* An index for n entries has a slot to spare.
LEMMA CapacitySpare ==
  ASSUME NEW n \in 0..MaxEntries
  PROVE  CapacityFor(n) \in Nat \ {0} /\ CapacityFor(n) > n
<1>1. \E c \in Capacities : IsCapacityFor(c, n)
  BY TableAssumption
<1>2. CapacityFor(n) \in Capacities /\ IsCapacityFor(CapacityFor(n), n)
  BY <1>1 DEF CapacityFor
<1>3. n \in Nat /\ CapacityFor(n) \in Nat \ {0}
  <2>1. n \in Nat
    BY TableAssumption
  <2>2. Capacities \subseteq Nat \ {0}
    BY TableAssumption
  <2>3. CapacityFor(n) \in Nat \ {0}
    BY <1>2, <2>2
  <2> QED
    BY <2>1, <2>3
<1>4. Needed(n) > n /\ Needed(n) \in Nat
  BY <1>3 DEF Needed
<1>5. CapacityFor(n) >= Needed(n)
  BY <1>2 DEF IsCapacityFor
<1> QED
  BY <1>3, <1>4, <1>5
-----------------------------------------------------------------------------
(***************************************************************************)
(* The index.                                                              *)
(***************************************************************************)
\* The keys of the entries.
LEMMA KeyType ==
  ASSUME TypeOK, NEW i \in 1..Len(entries)
  PROVE  entries[i] \in EntryRecord /\ entries[i].key \in Keys /\ entries[i].value \in Values
<1>1. entries \in Seq(EntryRecord)
  BY DEF TypeOK
<1>2. entries[i] \in EntryRecord
  BY <1>1
<1> QED
  BY <1>2 DEF EntryRecord

\* An index with a slot to spare has a free one.
LEMMA FreeSlot ==
  ASSUME TypeOK, Room, index_cap # 0
  PROVE  \E s \in Slots : index[s] = 0
<1>1. SUFFICES ASSUME \A s \in Slots : index[s] # 0 PROVE FALSE
  OBVIOUS
<1>2. Occupied = Slots
  BY <1>1 DEF Occupied
<1>3. Cardinality(Slots) = index_cap
  <2>1. 0 \in Int /\ index_cap - 1 \in Int /\ ~(0 > index_cap - 1) /\ (index_cap - 1) - 0 + 1 = index_cap
    BY DEF TypeOK
  <2> QED
    BY <2>1, FS_Interval DEF Slots
<1> QED
  BY <1>2, <1>3 DEF Room, TypeOK

\* A new index is empty.
LEMMA NewIndex ==
  ASSUME NEW cap \in Nat, NEW next, StartBuild(cap, next)
  PROVE  /\ index_cap' = cap /\ index_used' = 0
         /\ index' \in [0..(index_cap' - 1) -> Nat]
         /\ Room' /\ Holds(0)'
<1>1. index' = [s \in 0..(cap - 1) |-> 0] /\ index_cap' = cap /\ index_used' = 0
  BY DEF StartBuild
<1>2. Occupied' = {}
  BY <1>1 DEF Occupied, Slots
<1>3. Room'
  BY <1>1, <1>2, FS_EmptySet DEF Room
<1>4. Holds(0)'
  BY <1>1 DEF Holds, Slots
<1> QED
  BY <1>1, <1>3, <1>4

\* Placing entry number n + 1 in an index that holds n: those that were
\* reached still are, the new one is, and one more slot is taken.
LEMMA Placed ==
  ASSUME TypeOK, Room, NEW n \in Nat, NEW k \in Keys, index_cap # 0,
         \A s \in Slots : index[s] <= n,
         Place(n + 1, k), index_cap' = index_cap
  PROVE  /\ index' \in [Slots -> Nat]
         /\ \A s \in Slots : index'[s] <= n + 1
         /\ \A s \in Slots : index[s] # 0 => index'[s] = index[s]
         /\ \E j \in Slots : /\ index'[SlotAt(Home(k), j)] = n + 1
                             /\ \A m \in 0..(j - 1) : index'[SlotAt(Home(k), m)] # 0
         /\ IsFiniteSet(Occupied') /\ Cardinality(Occupied') <= index_used + 1
<1>1. PICK j \in Slots : /\ index[SlotAt(Home(k), j)] = 0 /\ PathTaken(Home(k), j)
                         /\ index' = [index EXCEPT ![SlotAt(Home(k), j)] = n + 1]
  BY DEF Place, Slots
<1>2. index_cap \in Nat /\ index_cap \in Nat \ {0} /\ index \in [Slots -> Nat]
  BY DEF TypeOK, Slots
<1> DEFINE free == SlotAt(Home(k), j)
<1>3. free \in Slots
  BY <1>2, HomeInIndex, SlotInIndex
<1>4. /\ index' \in [Slots -> Nat] /\ index'[free] = n + 1
      /\ \A s \in Slots : s # free => index'[s] = index[s]
  BY <1>1, <1>2, <1>3
<1>5. index[free] = 0
  BY <1>1
<1>6. \A m \in 0..(j - 1) : index'[SlotAt(Home(k), m)] # 0
  <2>1. TAKE m \in 0..(j - 1)
  <2>2. m \in Slots /\ index[SlotAt(Home(k), m)] # 0
    BY <1>1, <1>2 DEF PathTaken, Slots
  <2>3. SlotAt(Home(k), m) \in Slots
    BY <1>2, <2>2, HomeInIndex, SlotInIndex
  <2> QED
    BY <1>4, <1>5, <2>2, <2>3
<1>7. Occupied' = Occupied \cup {free}
  <2>1. Slots' = Slots
    BY DEF Slots
  <2> HIDE DEF free
  <2> QED
    BY <1>3, <1>4, <1>5, <2>1 DEF Occupied
<1>8. IsFiniteSet(Occupied') /\ Cardinality(Occupied') <= index_used + 1
  <2>1. free \notin Occupied
    BY <1>5 DEF Occupied
  <2>2. Cardinality(Occupied') = Cardinality(Occupied) + 1 /\ IsFiniteSet(Occupied')
    BY <1>7, <2>1, FS_AddElement DEF Room
  <2>3. Cardinality(Occupied) \in Nat /\ index_used \in Nat
    BY FS_CardinalityType DEF Room, TypeOK
  <2> QED
    BY <2>2, <2>3 DEF Room
<1>9. \A s \in Slots : index'[s] <= n + 1 /\ (index[s] # 0 => index'[s] = index[s])
  <2>1. TAKE s \in Slots
  <2>2. index[s] \in Nat /\ index[s] <= n
    BY <1>2
  <2> QED
    BY <1>4, <1>5, <2>2
<1> QED
  BY <1>1, <1>4, <1>6, <1>8, <1>9

\* Then the index holds n + 1 entries, if the keys of the first n are as before.
LEMMA PlacedHolds ==
  ASSUME TypeOK, Room, NEW n \in Nat, NEW k \in Keys, index_cap # 0, Holds(n),
         n <= Len(entries), Place(n + 1, k), index_cap' = index_cap,
         \A i \in 1..n : entries'[i].key = entries[i].key, entries'[n + 1].key = k
  PROVE  Holds(n + 1)'
<1>1. index_cap \in Nat /\ index_cap \in Nat \ {0} /\ index \in [Slots -> Nat]
  BY DEF TypeOK, Slots
<1>2. /\ \A s \in Slots : index'[s] <= n + 1
      /\ \A s \in Slots : index[s] # 0 => index'[s] = index[s]
      /\ \E j \in Slots : /\ index'[SlotAt(Home(k), j)] = n + 1
                          /\ \A m \in 0..(j - 1) : index'[SlotAt(Home(k), m)] # 0
  BY Placed DEF Holds
<1>3. Slots' = Slots /\ \A h, j : SlotAt(h, j)' = SlotAt(h, j)
  BY DEF Slots, SlotAt
<1>4. ASSUME NEW i \in 1..n
      PROVE  Reachable(i)'
  <2>1. i \in Nat \ {0} /\ i \in 1..Len(entries)
    BY DEF TypeOK
  <2>2. entries[i].key \in Keys
    BY <2>1, KeyType
  <2> DEFINE h == Home(entries[i].key)
  <2>3. h \in Slots
    BY <1>1, <2>2, HomeInIndex
  <2>4. Hash[entries'[i].key] % index_cap' = h
    BY DEF Home
  <2> HIDE DEF h
  <2>5. PICK j \in Slots : index[SlotAt(h, j)] = i /\ PathTaken(h, j)
    BY DEF Holds, Reachable, Slots, h
  <2>6. index'[SlotAt(h, j)] = i
    BY <1>1, <1>2, <2>1, <2>3, <2>5, SlotInIndex
  <2>7. \A m \in 0..(j - 1) : index'[SlotAt(h, m)] # 0
    <3>1. TAKE m \in 0..(j - 1)
    <3>2. m \in Slots /\ index[SlotAt(h, m)] # 0
      BY <1>1, <2>5 DEF PathTaken, Slots
    <3>3. SlotAt(h, m) \in Slots
      BY <1>1, <2>3, <3>2, SlotInIndex
    <3> QED
      BY <1>2, <3>2, <3>3
  <2> QED
    BY <1>3, <2>4, <2>6, <2>7 DEF Reachable, PathTaken, Slots, Home
<1>5. Reachable(n + 1)'
  <2>1. Hash[entries'[n + 1].key] % index_cap' = Home(k)
    BY DEF Home
  <2> QED
    BY <1>2, <1>3, <2>1 DEF Reachable, PathTaken, Slots, Home
<1>6. \A i \in 1..(n + 1) : i \in 1..n \/ i = n + 1
  OBVIOUS
<1> QED
  BY <1>2, <1>3, <1>4, <1>5, <1>6 DEF Holds
-----------------------------------------------------------------------------
(***************************************************************************)
(* The invariant.                                                          *)
(***************************************************************************)
\* Filled is Holds for every entry where the index is trusted, and at an idle
\* table too if no entry is missing from the count.
LEMMA Trusted ==
  ASSUME Inv, pc \in {"lookup", "reserve", "insert"}
  PROVE  index_used = Len(entries) /\ Holds(Len(entries)) /\ Len(entries) \in Nat
  BY DEF Inv, Filled, TypeOK

\* What does not touch the table does not change what is said of it.
LEMMA Untouched ==
  ASSUME UNCHANGED <<entries, index, index_cap, index_used>>
  PROVE  /\ Room' <=> Room
         /\ DistinctKeys' <=> DistinctKeys
         /\ \A n : Holds(n)' <=> Holds(n)
         /\ \A k : IsNew(k)' <=> IsNew(k)
<1>1. Slots' = Slots /\ Occupied' = Occupied
  BY DEF Slots, Occupied
<1>2. \A i : Reachable(i)' <=> Reachable(i)
  BY DEF Reachable, PathTaken, SlotAt, Home
<1> QED
  BY <1>1, <1>2 DEF Room, DistinctKeys, Holds, IsNew

LEMMA InitInv == Init => Inv
<1> SUFFICES ASSUME Init PROVE Inv
  OBVIOUS
<1>1. Len(entries) = 0 /\ index_cap = 0 /\ index_used = 0 /\ pc = "idle" /\ Slots = {}
  BY DEF Init, Slots
<1>2. TypeOK
  BY <1>1, TableAssumption DEF Init, TypeOK, Answer, Dict!Answer
<1>3. Room
  BY <1>1, FS_EmptySet DEF Room, Occupied
<1>4. DistinctKeys /\ Filled /\ Prepared
  BY <1>1 DEF DistinctKeys, Filled, Holds, Prepared
<1> QED
  BY <1>2, <1>3, <1>4 DEF Inv

\* The steps that leave the table alone.
LEMMA BeginStep ==
  ASSUME Inv, Begin
  PROVE  Inv'
<1>1. TypeOK'
  BY DEF Inv, TypeOK, Begin, Answer, Dict!Answer
<1> QED
  BY <1>1, Untouched DEF Inv, Begin, Filled, Prepared

LEMMA GetFoundStep ==
  ASSUME Inv, GetFound
  PROVE  Inv'
<1>1. pc = "lookup" /\ pc' = "idle" /\ then' = then
      /\ UNCHANGED <<entries, index, index_cap, index_used, op>>
  BY DEF GetFound, Return
<1>2. TypeOK'
  BY <1>1 DEF Inv, TypeOK
<1> QED
  BY <1>1, <1>2, Trusted, Untouched DEF Inv, Filled, Prepared

\* A lookup that ends at a free slot has passed every entry with that key.
LEMMA MissedIsNew ==
  ASSUME Inv, pc = "lookup", Misses(op.key)
  PROVE  IsNew(op.key)
<1>1. Holds(Len(entries)) /\ index_used = Len(entries)
  BY Trusted
<1>2. CASE index_cap = 0
  <2>1. Len(entries) = 0
    BY <1>1, <1>2 DEF Inv, Room, TypeOK
  <2> QED
    BY <2>1 DEF IsNew
<1>3. CASE index_cap # 0
  <2>1. PICK j \in 0..(index_cap - 1) :
          /\ index[SlotAt(Home(op.key), j)] = 0 /\ PathTaken(Home(op.key), j)
          /\ \A m \in 0..(j - 1) : ~Matches(op.key, m)
    BY <1>3 DEF Misses
  <2>2. SUFFICES ASSUME NEW i \in 1..Len(entries), entries[i].key = op.key
                 PROVE  FALSE
    BY DEF IsNew
  <2>3. PICK r \in 0..(index_cap - 1) :
          index[SlotAt(Home(op.key), r)] = i /\ PathTaken(Home(op.key), r)
    BY <1>1, <2>2 DEF Holds, Reachable
  <2>4. j \in Nat /\ r \in Nat /\ i # 0 /\ i \in Nat
    BY DEF Inv, TypeOK
  <2>5. CASE j < r
    <3>1. j \in 0..(r - 1)
      BY <2>4, <2>5
    <3> QED
      BY <2>1, <2>3, <3>1 DEF PathTaken
  <2>6. CASE r < j
    <3>1. r \in 0..(j - 1)
      BY <2>4, <2>6
    <3>2. Matches(op.key, r)
      BY <2>2, <2>3, <2>4 DEF Matches
    <3> QED
      BY <2>1, <3>1, <3>2
  <2>7. CASE r = j
    BY <2>1, <2>3, <2>4, <2>7
  <2> QED
    BY <2>4, <2>5, <2>6, <2>7
<1> QED
  BY <1>2, <1>3

LEMMA NotFoundStep ==
  ASSUME Inv, NotFound
  PROVE  Inv'
<1>1. /\ pc = "lookup" /\ then' = then
      /\ pc' = "idle" \/ (pc' = "reserve" /\ op.kind = "set")
      /\ UNCHANGED <<entries, index, index_cap, index_used, op>>
  BY DEF NotFound, Return
<1>2. TypeOK'
  BY <1>1 DEF Inv, TypeOK
<1>3. IsNew(op.key)
  BY <1>1, MissedIsNew DEF NotFound
<1>4. Prepared'
  BY <1>1, <1>3, Untouched DEF Prepared, Adding
<1> QED
  BY <1>1, <1>2, <1>4, Trusted, Untouched DEF Inv, Filled
-----------------------------------------------------------------------------
\* A new index in a table whose entries stay: the fill loop, or the function
\* after it when there is nothing to fill.
LEMMA StartedBuild ==
  ASSUME Inv, UNCHANGED <<entries, op>>, NEW next \in {"lookup", "insert"}, op.kind # "none",
         NEW cap \in Nat, StartBuild(cap, next),
         cap > Len(entries) \/ (cap = 0 /\ entries = << >>),
         next = "insert" => Adding /\ Len(entries) < MaxEntries /\ cap > Len(entries) + 1
  PROVE  Inv'
<1>1. /\ index_cap' = cap /\ index_used' = 0 /\ Room' /\ Holds(0)'
      /\ index' \in [0..(index_cap' - 1) -> Nat]
  BY NewIndex
<1>2. \/ cap # 0 /\ pc' = "build" /\ then' = next
      \/ cap = 0 /\ pc' = next /\ then' = then
  BY DEF StartBuild
<1>3. Len(entries) \in Nat /\ entries \in Seq(EntryRecord)
  BY DEF Inv, TypeOK
<1>4. TypeOK'
  BY <1>1, <1>2, <1>3 DEF Inv, TypeOK
<1>5. DistinctKeys'
  BY DEF Inv, DistinctKeys
<1>6. Filled'
  BY <1>1, <1>2, <1>3 DEF Filled
<1>7. Adding' <=> Adding
  BY DEF Adding, IsNew
<1>8. Prepared'
  BY <1>1, <1>2, <1>3, <1>7 DEF Prepared
<1> QED
  BY <1>1, <1>4, <1>5, <1>6, <1>8 DEF Inv

LEMMA ReadyStep ==
  ASSUME Inv, Ready
  PROVE  Inv'
<1>1. pc = "ready" /\ UNCHANGED <<entries, op>> /\ op.kind # "none"
  BY DEF Ready, Inv, TypeOK
<1>2. Len(entries) \in 0..MaxEntries
  BY TableAssumption DEF Inv, TypeOK
<1>3. CASE Usable /\ pc' = "lookup" /\ UNCHANGED <<index, index_cap, index_used, then, answer>>
  <2>1. TypeOK'
    BY <1>1, <1>3 DEF Inv, TypeOK
  <2> QED
    BY <1>1, <1>3, <2>1, Untouched DEF Inv, Filled, Prepared, Usable
<1>4. CASE StartBuild(SizeNow, "lookup")
  <2>1. SizeNow \in Nat /\ (SizeNow > Len(entries) \/ (SizeNow = 0 /\ entries = << >>))
    <3>1. CapacityFor(Len(entries)) \in Nat /\ CapacityFor(Len(entries)) > Len(entries)
      BY <1>2, CapacitySpare
    <3> QED
      BY <3>1 DEF SizeNow
  <2> QED
    BY <1>1, <1>4, <2>1, StartedBuild
<1>5. CASE UNCHANGED <<index, index_cap, index_used>> /\ pc' = "idle" /\ then' = then
  <2>1. TypeOK'
    BY <1>1, <1>5 DEF Inv, TypeOK
  <2> QED
    BY <1>1, <1>5, <2>1, Untouched DEF Inv, Filled, Prepared
<1> QED
  BY <1>3, <1>4, <1>5 DEF Ready, CannotBuild, Return

LEMMA ReserveStep ==
  ASSUME Inv, Reserve
  PROVE  Inv'
<1>1. pc = "reserve" /\ UNCHANGED <<entries, op>> /\ op.kind = "set"
      /\ Adding /\ index_used = Len(entries) /\ Holds(Len(entries))
  BY Trusted DEF Reserve, Inv, Prepared, Adding
<1>2. Len(entries) \in Nat /\ MaxEntries \in Nat
  BY TableAssumption DEF Inv, TypeOK
<1>3. CASE UNCHANGED <<index, index_cap, index_used>> /\ pc' = "idle" /\ then' = then
  <2>1. TypeOK'
    BY <1>1, <1>3 DEF Inv, TypeOK
  <2> QED
    BY <1>1, <1>2, <1>3, <2>1, Untouched DEF Inv, Filled, Prepared
<1>4. CASE ~HeapFull /\ Roomy /\ pc' = "insert"
           /\ UNCHANGED <<index, index_cap, index_used, then, answer>>
  <2>1. TypeOK'
    BY <1>1, <1>4 DEF Inv, TypeOK
  <2>2. index_cap > Len(entries) + 1 /\ Len(entries) < MaxEntries
    <3>1. index_cap \in Nat /\ (Len(entries) + 1) * 3 <= index_cap * 2 /\ index_cap # 0
      BY <1>1, <1>4 DEF Roomy, Inv, TypeOK
    <3> QED
      BY <1>2, <1>4, <3>1 DEF HeapFull
  <2>3. Adding'
    BY <1>1, <1>4, Untouched DEF Adding
  <2>4. Prepared'
    BY <1>1, <1>4, <2>2, <2>3 DEF Prepared
  <2> QED
    BY <1>1, <1>2, <1>4, <2>1, <2>4, Untouched DEF Inv, Filled
<1>5. CASE ~HeapFull /\ StartBuild(CapacityFor(Len(entries) + 1), "insert")
  <2>1. Len(entries) + 1 \in 0..MaxEntries /\ Len(entries) < MaxEntries
    BY <1>2, <1>5 DEF HeapFull
  <2>2. /\ CapacityFor(Len(entries) + 1) \in Nat
        /\ CapacityFor(Len(entries) + 1) > Len(entries) + 1
    BY <2>1, CapacitySpare
  <2>3. CapacityFor(Len(entries) + 1) > Len(entries)
    BY <1>2, <2>2
  <2> QED
    BY <1>1, <1>5, <2>1, <2>2, <2>3, StartedBuild
<1> QED
  BY <1>3, <1>4, <1>5 DEF Reserve, Return

LEMMA BuildStep ==
  ASSUME Inv, Build
  PROVE  Inv'
<1>1. /\ pc = "build" /\ UNCHANGED <<entries, index_cap, then, op, answer>>
      /\ index_used <= Len(entries) /\ Holds(index_used) /\ index_cap > Len(entries)
  BY DEF Build, Inv, Filled
<1>2. Len(entries) \in Nat /\ index_used \in Nat /\ index_cap \in Nat
  BY DEF Inv, TypeOK
<1>3. CASE /\ index_used < Len(entries)
           /\ Place(index_used + 1, entries[index_used + 1].key)
           /\ index_used' = index_used + 1
           /\ UNCHANGED pc
  <2> DEFINE k == entries[index_used + 1].key
  <2>1. k \in Keys /\ index_cap # 0
    BY <1>1, <1>2, <1>3, KeyType DEF Inv
  <2>2. index' \in [Slots -> Nat] /\ IsFiniteSet(Occupied') /\ Cardinality(Occupied') <= index_used + 1
    BY <1>1, <1>2, <1>3, <2>1, Placed DEF Inv, Holds
  <2>3. PICK n \in Nat : n = index_used
    BY <1>2
  <2>4. Holds(index_used)'
    <3>1. Holds(n + 1)'
      BY <1>1, <1>2, <1>3, <2>1, <2>3, PlacedHolds DEF Inv
    <3> QED
      BY <1>3, <2>3, <3>1 DEF Holds
  <2>5. TypeOK'
    BY <1>1, <1>2, <1>3, <2>2 DEF Inv, TypeOK, Slots
  <2>6. Room'
    BY <1>1, <1>2, <1>3, <2>2 DEF Room
  <2>7. DistinctKeys' /\ (Adding' <=> Adding)
    BY <1>1 DEF Inv, DistinctKeys, Adding, IsNew
  <2>8. Filled'
    BY <1>1, <1>2, <1>3, <2>4 DEF Filled
  <2>9. Prepared'
    BY <1>1, <1>3, <2>7 DEF Inv, Prepared
  <2> QED
    BY <2>5, <2>6, <2>7, <2>8, <2>9 DEF Inv
<1>4. CASE index_used >= Len(entries) /\ pc' = then /\ UNCHANGED <<index, index_used>>
  <2>1. index_used = Len(entries)
    BY <1>1, <1>2, <1>4
  <2>2. TypeOK'
    BY <1>1, <1>4 DEF Inv, TypeOK
  <2>3. then \in {"idle", "lookup", "insert"}
    BY DEF Inv, TypeOK
  <2>4. Holds(Len(entries))' /\ (IsNew(op.key)' <=> IsNew(op.key))
    BY <1>1, <1>4, <2>1, Untouched
  <2>5. Filled'
    BY <1>1, <1>2, <1>4, <2>1, <2>3, <2>4 DEF Filled
  <2>6. Prepared'
    BY <1>1, <1>4, <2>3, <2>4 DEF Inv, Prepared, Adding
  <2> QED
    BY <1>1, <1>4, <2>2, <2>5, <2>6, Untouched DEF Inv
<1> QED
  BY <1>3, <1>4 DEF Build
-----------------------------------------------------------------------------
\* The entry a lookup stops at is one with the key asked for.
LEMMA FoundEntry ==
  ASSUME Inv, pc = "lookup", NEW j \in 0..(index_cap - 1), FoundAt(op.key, j)
  PROVE  /\ index[SlotAt(Home(op.key), j)] \in 1..Len(entries)
         /\ entries[index[SlotAt(Home(op.key), j)]].key = op.key
<1>1. Holds(Len(entries))
  BY Trusted
<1>2. index_cap \in Nat \ {0} /\ op.key \in Keys /\ index \in [Slots -> Nat]
  BY DEF Inv, TypeOK, Slots
<1>3. SlotAt(Home(op.key), j) \in Slots
  BY <1>2, HomeInIndex, SlotInIndex DEF Slots
<1>4. index[SlotAt(Home(op.key), j)] \in Nat /\ index[SlotAt(Home(op.key), j)] <= Len(entries)
  BY <1>1, <1>2, <1>3 DEF Holds
<1>5. Len(entries) \in Nat
  BY DEF Inv, TypeOK
<1> QED
  BY <1>4, <1>5 DEF FoundAt, Matches

\* The entries after one was taken out.
LEMMA ShiftedType ==
  ASSUME NEW S, NEW s \in Seq(S), NEW i \in 1..Len(s)
  PROVE  /\ Shifted(s, i) \in Seq(S) /\ Len(Shifted(s, i)) = Len(s) - 1
         /\ \A j \in 1..(Len(s) - 1) : Shifted(s, i)[j] = IF j < i THEN s[j] ELSE s[j + 1]
<1>1. Len(s) \in Nat /\ Len(s) - 1 \in Nat
  OBVIOUS
<1>2. \A j \in 1..(Len(s) - 1) : j \in 1..Len(s) /\ j + 1 \in 1..Len(s)
  BY <1>1
<1>3. \A j \in 1..(Len(s) - 1) : s[j] \in S /\ s[j + 1] \in S
  BY <1>2
<1> QED
  BY <1>1, <1>3 DEF Shifted

LEMMA SetFoundStep ==
  ASSUME Inv, SetFound
  PROVE  Inv'
<1>1. /\ pc = "lookup" /\ pc' = "idle" /\ then' = then
      /\ UNCHANGED <<index, index_cap, index_used, op>>
      /\ op.value \in Values
  BY DEF SetFound, Return, Inv, TypeOK
<1>2. PICK i \in 1..Len(entries) : entries' = [entries EXCEPT ![i].value = op.value]
  BY <1>1, FoundEntry DEF SetFound
<1>3. Len(entries) \in Nat /\ entries \in Seq(EntryRecord)
  BY DEF Inv, TypeOK
<1>4. /\ entries' \in Seq(EntryRecord) /\ Len(entries') = Len(entries)
      /\ \A k \in 1..Len(entries) : entries'[k].key = entries[k].key
  <2>1. entries[i] \in EntryRecord
    BY <1>3
  <2> DEFINE new == [entries[i] EXCEPT !.value = op.value]
  <2>2. new \in EntryRecord /\ new.key = entries[i].key
    BY <1>1, <2>1 DEF EntryRecord
  <2>3. entries' = [entries EXCEPT ![i] = new]
    BY <1>2
  <2> HIDE DEF new
  <2>4. entries' \in Seq(EntryRecord) /\ Len(entries') = Len(entries)
    BY <1>3, <2>2, <2>3
  <2> QED
    BY <1>3, <2>2, <2>3, <2>4
<1>5. Holds(Len(entries)) /\ index_used = Len(entries)
  BY <1>1, Trusted
<1>6. Holds(Len(entries))'
  <2>1. \A k \in 1..Len(entries) : Reachable(k)'
    BY <1>1, <1>4, <1>5 DEF Holds, Reachable, PathTaken, SlotAt, Home
  <2> QED
    BY <1>1, <1>4, <1>5, <2>1 DEF Holds, Slots
<1>7. TypeOK'
  BY <1>1, <1>4 DEF Inv, TypeOK
<1>8. Room'
  BY <1>1 DEF Inv, Room, Occupied, Slots
<1>9. DistinctKeys'
  BY <1>4 DEF Inv, DistinctKeys
<1>10. Filled' /\ Prepared'
  BY <1>1, <1>3, <1>4, <1>5, <1>6 DEF Filled, Prepared
<1> QED
  BY <1>7, <1>8, <1>9, <1>10 DEF Inv

\* Entries taken out keep the others' keys distinct.
LEMMA ShiftedDistinct ==
  ASSUME TypeOK, DistinctKeys, NEW i \in 1..Len(entries), entries' = Shifted(entries, i)
  PROVE  /\ entries' \in Seq(EntryRecord) /\ Len(entries') = Len(entries) - 1
         /\ DistinctKeys'
<1>1. entries \in Seq(EntryRecord) /\ Len(entries) \in Nat
  BY DEF TypeOK
<1>2. /\ entries' \in Seq(EntryRecord) /\ Len(entries') = Len(entries) - 1
      /\ \A j \in 1..(Len(entries) - 1) :
           entries'[j] = IF j < i THEN entries[j] ELSE entries[j + 1]
  BY <1>1, ShiftedType
<1>3. ASSUME NEW a \in 1..Len(entries'), NEW b \in 1..Len(entries'),
             entries'[a].key = entries'[b].key
      PROVE  a = b
  <2>1. PICK a0 \in 1..Len(entries) :
          entries'[a] = entries[a0] /\ a0 = IF a < i THEN a ELSE a + 1
    BY <1>1, <1>2
  <2>2. PICK b0 \in 1..Len(entries) :
          entries'[b] = entries[b0] /\ b0 = IF b < i THEN b ELSE b + 1
    BY <1>1, <1>2
  <2>3. a0 = b0
    BY <1>3, <2>1, <2>2 DEF DistinctKeys
  <2>4. a \in Nat /\ b \in Nat /\ i \in Nat
    BY <1>1, <1>2
  <2> QED
    BY <2>1, <2>2, <2>3, <2>4
<1> QED
  BY <1>2, <1>3 DEF DistinctKeys

LEMMA DeleteFoundStep ==
  ASSUME Inv, DeleteFound
  PROVE  Inv'
<1>1. pc = "lookup" /\ op' = op
  BY DEF DeleteFound
<1>2. PICK i \in 1..Len(entries) : entries' = Shifted(entries, i)
  BY <1>1, FoundEntry DEF DeleteFound
<1>3. /\ entries' \in Seq(EntryRecord) /\ Len(entries') = Len(entries) - 1
      /\ DistinctKeys'
  BY <1>2, ShiftedDistinct DEF Inv
<1>4. Len(entries) \in Nat /\ Len(entries) # 0 /\ index_used = Len(entries)
  BY <1>1, <1>2, Trusted
<1>5. Len(entries) <= MaxEntries /\ MaxEntries \in Nat
  BY TableAssumption DEF Inv, TypeOK
<1> DEFINE cap == IF Len(entries) = 1 THEN 0 ELSE CapacityFor(Len(entries) - 1)
<1>6. cap \in Nat /\ (cap > Len(entries) - 1 \/ (cap = 0 /\ Len(entries) = 1))
  <2>1. Len(entries) - 1 \in 0..MaxEntries
    BY <1>4, <1>5
  <2> QED
    BY <2>1, CapacitySpare
<1>7. StartBuild(cap, "idle")
      \/ (UNCHANGED <<index, index_cap, index_used>> /\ pc' = "idle" /\ then' = then)
  BY DEF DeleteFound, CannotBuild
<1> HIDE DEF cap
<1>8. CASE StartBuild(cap, "idle")
  <2>1. /\ index_cap' = cap /\ index_used' = 0 /\ Room' /\ Holds(0)'
        /\ index' \in [0..(index_cap' - 1) -> Nat]
    BY <1>6, <1>8, NewIndex
  <2>2. \/ cap # 0 /\ pc' = "build" /\ then' = "idle"
        \/ cap = 0 /\ pc' = "idle" /\ then' = then
    BY <1>8 DEF StartBuild
  <2>3. TypeOK'
    BY <1>1, <1>3, <1>4, <1>5, <1>6, <2>1, <2>2 DEF Inv, TypeOK
  <2>4. Filled' /\ Prepared'
    BY <1>3, <1>4, <1>6, <2>1, <2>2 DEF Filled, Prepared
  <2> QED
    BY <1>3, <2>1, <2>3, <2>4 DEF Inv
<1>9. CASE UNCHANGED <<index, index_cap, index_used>> /\ pc' = "idle" /\ then' = then
  <2>1. TypeOK'
    BY <1>1, <1>3, <1>4, <1>5, <1>9 DEF Inv, TypeOK
  <2>2. Room'
    BY <1>9 DEF Inv, Room, Occupied, Slots
  <2>3. Filled' /\ Prepared'
    BY <1>3, <1>4, <1>9 DEF Filled, Prepared
  <2> QED
    BY <1>3, <2>1, <2>2, <2>3 DEF Inv
<1> QED
  BY <1>7, <1>8, <1>9

LEMMA InsertStep ==
  ASSUME Inv, Insert
  PROVE  Inv'
<1>1. /\ pc = "insert" /\ pc' = "idle" /\ then' = then /\ UNCHANGED <<index_cap, op>>
      /\ index_used' = index_used + 1
      /\ entries' = Append(entries, [key |-> op.key, value |-> op.value])
      /\ Place(Len(entries) + 1, op.key)
  BY DEF Insert, Return
<1>2. /\ Len(entries) \in Nat /\ entries \in Seq(EntryRecord) /\ index_cap \in Nat
      /\ MaxEntries \in Nat /\ op.key \in Keys
  BY <1>1, TableAssumption DEF Inv, TypeOK
<1>3. IsNew(op.key) /\ Len(entries) < MaxEntries /\ index_cap > Len(entries) + 1 /\ op.kind = "set"
  BY <1>1 DEF Inv, Prepared, Adding
<1>4. index_used = Len(entries) /\ Holds(Len(entries))
  BY <1>1, Trusted
<1>5. op.value \in Values
  BY <1>3 DEF Inv, TypeOK
<1>6. /\ entries' \in Seq(EntryRecord) /\ Len(entries') = Len(entries) + 1
      /\ \A i \in 1..Len(entries) : entries'[i] = entries[i]
      /\ entries'[Len(entries) + 1].key = op.key
  <2>1. [key |-> op.key, value |-> op.value] \in EntryRecord
    BY <1>2, <1>5 DEF EntryRecord
  <2> QED
    BY <1>1, <1>2, <2>1
<1>7. index_cap # 0
  BY <1>2, <1>3
<1>8. index' \in [Slots -> Nat] /\ IsFiniteSet(Occupied') /\ Cardinality(Occupied') <= index_used + 1
  BY <1>1, <1>2, <1>4, <1>7, Placed DEF Inv, Holds
<1>9. Holds(Len(entries))'
  <2>1. PICK n \in Nat : n = Len(entries)
    BY <1>2
  <2>2. Holds(n + 1)'
    BY <1>1, <1>2, <1>4, <1>6, <1>7, <2>1, PlacedHolds DEF Inv
  <2> QED
    BY <1>6, <2>1, <2>2 DEF Holds
<1>10. TypeOK'
  BY <1>1, <1>2, <1>3, <1>4, <1>6, <1>8 DEF Inv, TypeOK, Slots
<1>11. Room'
  BY <1>1, <1>2, <1>3, <1>4, <1>8 DEF Room
<1>12. DistinctKeys'
  <2>1. \A i \in 1..Len(entries') : i \in 1..Len(entries) \/ i = Len(entries) + 1
    BY <1>2, <1>6
  <2> QED
    BY <1>3, <1>6, <2>1 DEF Inv, DistinctKeys, IsNew
<1>13. Filled' /\ Prepared'
  BY <1>1, <1>2, <1>4, <1>6, <1>9 DEF Filled, Prepared
<1> QED
  BY <1>10, <1>11, <1>12, <1>13 DEF Inv

\* popitem leaves index_used above the length.
LEMMA PopItemStep ==
  ASSUME Inv, PopItem
  PROVE  Inv'
<1>1. pc = "idle" /\ UNCHANGED <<index, index_cap, index_used, pc, then, op>>
  BY DEF PopItem
<1>2. Len(entries) \in Nat /\ index_used \in Nat /\ index_used >= Len(entries)
  BY <1>1 DEF Inv, TypeOK, Filled
<1>3. CASE entries' = entries
  <2>1. TypeOK'
    BY <1>1, <1>3 DEF Inv, TypeOK
  <2> QED
    BY <1>1, <1>3, <2>1, Untouched DEF Inv, Filled, Prepared
<1>4. CASE entries # << >> /\ entries' = Shifted(entries, Len(entries))
  <2>1. Len(entries) \in 1..Len(entries)
    BY <1>2, <1>4 DEF Inv, TypeOK
  <2>2. /\ entries' \in Seq(EntryRecord) /\ Len(entries') = Len(entries) - 1
        /\ DistinctKeys'
    BY <1>4, <2>1, ShiftedDistinct DEF Inv
  <2>3. TypeOK'
    BY <1>1, <1>2, <2>2, TableAssumption DEF Inv, TypeOK
  <2>4. Room'
    BY <1>1 DEF Inv, Room, Occupied, Slots
  <2>5. Filled' /\ Prepared'
    BY <1>1, <1>2, <2>2 DEF Filled, Prepared
  <2> QED
    BY <2>2, <2>3, <2>4, <2>5 DEF Inv
<1> QED
  BY <1>3, <1>4 DEF PopItem

\* So does clear, unless the table was empty before.
LEMMA ClearStep ==
  ASSUME Inv, Clear
  PROVE  Inv'
<1>1. /\ pc = "idle" /\ UNCHANGED <<index, index_cap, index_used, pc, then, op>>
      /\ entries' = << >> /\ Len(entries') = 0
  BY DEF Clear
<1>2. Len(entries) \in Nat /\ index_used \in Nat /\ index_used >= Len(entries) /\ MaxEntries \in Nat
  BY <1>1, TableAssumption DEF Inv, TypeOK, Filled
<1>3. TypeOK' /\ DistinctKeys' /\ Prepared'
  BY <1>1, <1>2 DEF Inv, TypeOK, DistinctKeys, Prepared
<1>4. Room'
  BY <1>1 DEF Inv, Room, Occupied, Slots
<1>5. ASSUME index_used = 0 PROVE Holds(0)'
  <2>1. Holds(Len(entries)) /\ Len(entries) = 0
    BY <1>1, <1>2, <1>5 DEF Inv, Filled
  <2> QED
    BY <1>1, <2>1 DEF Holds, Slots
<1>6. Filled'
  BY <1>1, <1>2, <1>5 DEF Filled
<1> QED
  BY <1>3, <1>4, <1>6 DEF Inv

LEMMA StepInv == Inv /\ [Next]_vars => Inv'
<1> SUFFICES ASSUME Inv, [Next]_vars PROVE Inv'
  OBVIOUS
<1>1. CASE Next
  BY <1>1, BeginStep, ReadyStep, BuildStep, GetFoundStep, SetFoundStep, DeleteFoundStep,
     NotFoundStep, ReserveStep, InsertStep, PopItemStep, ClearStep DEF Next
<1>2. CASE UNCHANGED vars
  <2>1. TypeOK'
    BY <1>2 DEF vars, Inv, TypeOK
  <2> QED
    BY <1>2, <2>1, Untouched DEF vars, Inv, Filled, Prepared, Adding
<1> QED
  BY <1>1, <1>2

\* The invariant holds in every reachable state of every table.
THEOREM Invariance == Spec => []Inv
  BY InitInv, StepInv, PTL DEF Spec

\* The types, and the number of entries the heap can hold.
THEOREM TypeCorrect == Spec => []TypeOK
  BY Invariance, PTL DEF Inv

\* dict_index_ready trusts the index only when it holds exactly the entries
\* there are, each reachable from its key.
THEOREM TrustedIndexSound == Spec => []IndexSound
<1>1. Inv => IndexSound
  <2> SUFFICES ASSUME Inv,
                      pc \in {"lookup", "reserve", "insert"} \/ (pc \in {"idle", "ready"} /\ Usable)
               PROVE  /\ index_cap = 0 => entries = << >>
                      /\ \A s \in 0..(index_cap - 1) : index[s] <= Len(entries)
                      /\ \A i \in 1..Len(entries) : index_cap # 0 => Reachable(i)
    BY DEF IndexSound
  <2>1. index_used = Len(entries) /\ Holds(Len(entries))
    BY Trusted DEF Usable, Inv, Filled
  <2>2. index_cap = 0 => entries = << >>
    BY <2>1 DEF Inv, Room, TypeOK
  <2> QED
    BY <2>1, <2>2 DEF Holds, Slots
<1> QED
  BY <1>1, Invariance, PTL

\* Every probe loop of value.c ends at a free slot at the latest.
THEOREM ProbesEnd == Spec => []ProbingEnds
<1>1. Inv => ProbingEnds
  BY FreeSlot DEF ProbingEnds, Inv, Slots
<1> QED
  BY <1>1, Invariance, PTL
-----------------------------------------------------------------------------
(***************************************************************************)
(* The table is an insertion-ordered map: each operation takes effect in   *)
(* one step, and the others change neither the entries nor the answer.     *)
(***************************************************************************)
\* One step of the table is one operation of the map, or none.
DictStep == Dict!Next \/ UNCHANGED <<entries, answer>>

LEMMA InitDict == Init => Dict!Init
  BY DEF Init, Dict!Init, Answer, Nothing

\* Returning Missing is right when the key is not there.
LEMMA ReturnsMissing ==
  ASSUME Inv, pc = "lookup", op.kind \in {"get", "delete"}, IsNew(op.key),
         entries' = entries, Return(Missing)
  PROVE  DictStep
<1>1. op.key \in Keys
  BY DEF Inv, TypeOK
<1>2. answer' = Dict!Answer(op.kind, op.key, Dict!Missing)
  BY DEF Return, Answer, Missing
<1>3. Dict!Get(op.key) \/ Dict!Delete(op.key)
  BY <1>2 DEF Dict!Get, Dict!Delete, Dict!Absent, IsNew
<1> QED
  BY <1>1, <1>3 DEF DictStep, Dict!Next

\* Returning NoMemory is right when memory may run out.
LEMMA ReturnsNoMemory ==
  ASSUME Inv, pc = "ready", op.kind \in {"get", "delete"}, MayFail,
         entries' = entries, Return(NoMemory)
  PROVE  DictStep
<1>1. op.key \in Keys
  BY DEF Inv, TypeOK
<1>2. answer' = Dict!Answer(op.kind, op.key, Dict!NoMemory)
  BY DEF Return, Answer, NoMemory
<1>3. Dict!Get(op.key) \/ Dict!Delete(op.key)
  BY <1>2 DEF Dict!Get, Dict!Delete
<1> QED
  BY <1>1, <1>3 DEF DictStep, Dict!Next

\* Returning Error is right when nothing was stored.
LEMMA ReturnsError ==
  ASSUME Inv, pc \in {"ready", "reserve"}, op.kind = "set", entries' = entries, Return(Error)
  PROVE  DictStep
<1>1. op.key \in Keys
  BY DEF Inv, TypeOK
<1>2. Dict!SetFails(op.key)
  BY DEF Return, Answer, Error, Dict!SetFails
<1> QED
  BY <1>1, <1>2 DEF DictStep, Dict!Next

LEMMA ReadyIsDict ==
  ASSUME Inv, Ready
  PROVE  DictStep
<1>1. pc = "ready" /\ entries' = entries /\ op.kind \in {"set", "get", "delete"}
  BY DEF Ready, Inv, TypeOK
<1>2. CASE answer' = answer
  BY <1>1, <1>2 DEF DictStep
<1>3. CASE MayFail /\ Return(Failed)
  BY <1>1, <1>3, ReturnsNoMemory, ReturnsError DEF Failed
<1> QED
  BY <1>2, <1>3 DEF Ready, CannotBuild

LEMMA GetIsDict ==
  ASSUME Inv, GetFound
  PROVE  DictStep
<1>1. pc = "lookup" /\ op.kind = "get" /\ entries' = entries /\ op.key \in Keys
  BY DEF GetFound, Inv, TypeOK
<1>2. PICK i \in 1..Len(entries) :
        entries[i].key = op.key /\ answer' = Answer("get", op.key, entries[i].value)
  BY <1>1, FoundEntry DEF GetFound, Return
<1>3. Dict!Get(op.key)
  BY <1>1, <1>2 DEF Dict!Get, Answer
<1> QED
  BY <1>1, <1>3 DEF DictStep, Dict!Next

LEMMA SetIsDict ==
  ASSUME Inv, SetFound
  PROVE  DictStep
<1>1. pc = "lookup" /\ op.kind = "set" /\ op.key \in Keys /\ op.value \in Values
      /\ answer' = Dict!Answer("set", op.key, Dict!Done)
  BY DEF SetFound, Return, Inv, TypeOK, Answer, Done
<1>2. PICK i \in 1..Len(entries) :
        entries[i].key = op.key /\ entries' = [entries EXCEPT ![i].value = op.value]
  BY <1>1, FoundEntry DEF SetFound
<1>3. Dict!Set(op.key, op.value)
  BY <1>1, <1>2 DEF Dict!Set
<1> QED
  BY <1>1, <1>3 DEF DictStep, Dict!Next

LEMMA InsertIsDict ==
  ASSUME Inv, Insert
  PROVE  DictStep
<1>1. /\ op.kind = "set" /\ IsNew(op.key) /\ op.key \in Keys /\ op.value \in Values
      /\ answer' = Dict!Answer("set", op.key, Dict!Done)
      /\ entries' = Append(entries, Dict!Entry(op.key, op.value))
  BY DEF Insert, Return, Inv, TypeOK, Prepared, Adding, Answer, Done, Dict!Entry
<1>2. Dict!Set(op.key, op.value)
  BY <1>1 DEF Dict!Set, Dict!Absent, IsNew
<1> QED
  BY <1>1, <1>2 DEF DictStep, Dict!Next

LEMMA DeleteIsDict ==
  ASSUME Inv, DeleteFound
  PROVE  DictStep
<1>1. pc = "lookup" /\ op.key \in Keys
      /\ answer' = Dict!Answer("delete", op.key, Dict!Done)
  BY DEF DeleteFound, Inv, TypeOK, Answer, Done
<1>2. PICK i \in 1..Len(entries) : entries[i].key = op.key /\ entries' = Shifted(entries, i)
  BY <1>1, FoundEntry DEF DeleteFound
<1>3. Shifted(entries, i) = Dict!Removed(entries, i)
  BY DEF Shifted, Dict!Removed
<1>4. Dict!Delete(op.key)
  BY <1>1, <1>2, <1>3 DEF Dict!Delete
<1> QED
  BY <1>1, <1>4 DEF DictStep, Dict!Next

LEMMA NotFoundIsDict ==
  ASSUME Inv, NotFound
  PROVE  DictStep
<1>1. pc = "lookup" /\ entries' = entries /\ op.kind \in {"set", "get", "delete"} /\ IsNew(op.key)
  BY MissedIsNew DEF NotFound, Inv, TypeOK
<1>2. CASE op.kind = "set" /\ answer' = answer
  BY <1>1, <1>2 DEF DictStep
<1>3. CASE op.kind # "set" /\ Return(Missing)
  BY <1>1, <1>3, ReturnsMissing
<1> QED
  BY <1>2, <1>3 DEF NotFound

LEMMA ReserveIsDict ==
  ASSUME Inv, Reserve
  PROVE  DictStep
<1>1. pc = "reserve" /\ entries' = entries /\ op.kind = "set"
  BY DEF Reserve, Inv, Prepared, Adding
<1>2. CASE answer' = answer
  BY <1>1, <1>2 DEF DictStep
<1>3. CASE Return(Error)
  BY <1>1, <1>3, ReturnsError
<1> QED
  BY <1>2, <1>3 DEF Reserve

LEMMA PopItemIsDict ==
  ASSUME PopItem
  PROVE  DictStep
<1>1. Shifted(entries, Len(entries)) = Dict!Removed(entries, Len(entries))
  BY DEF Shifted, Dict!Removed
<1>2. Dict!PopItem
  BY <1>1 DEF PopItem, Dict!PopItem, Answer, Nothing, Missing
<1> QED
  BY <1>2 DEF DictStep, Dict!Next

LEMMA ClearIsDict ==
  ASSUME Clear
  PROVE  DictStep
<1>1. Dict!Clear
  BY DEF Clear, Dict!Clear, Answer, Nothing, Done
<1> QED
  BY <1>1 DEF DictStep, Dict!Next

\* The table implements the insertion-ordered map, whatever the keys, their
\* hashes, the capacities and the allocations that fail.
THEOREM ImplementsDict == Spec => DictSpec
<1>1. Inv /\ [Next]_vars => [Dict!Next]_<<entries, answer>>
  <2> SUFFICES ASSUME Inv, [Next]_vars PROVE DictStep
    BY DEF DictStep
  <2>1. CASE Begin \/ Build \/ UNCHANGED vars
    BY <2>1 DEF Begin, Build, vars, DictStep
  <2> QED
    BY <2>1, ReadyIsDict, GetIsDict, SetIsDict, InsertIsDict, DeleteIsDict, NotFoundIsDict,
       ReserveIsDict, PopItemIsDict, ClearIsDict DEF Next
<1> QED
  BY <1>1, InitDict, Invariance, PTL DEF Spec, DictSpec, Dict!Spec
=============================================================================
