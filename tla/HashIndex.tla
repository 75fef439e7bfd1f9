----------------------------- MODULE HashIndex ------------------------------
(***************************************************************************)
(* The table behind a dict in vm_c/value.c: an array of entries in         *)
(* insertion order and an open-addressed index of entry numbers, probed    *)
(* linearly.  The index is a cache: popitem and clear leave it behind,     *)
(* deletion rebuilds it (and ignores a failure to), and every lookup first *)
(* decides from index_used whether it can be trusted.                      *)
(*                                                                         *)
(* An operation runs in the steps of the C functions it is made of; one    *)
(* round of the loop that fills a new index is one step, so that what      *)
(* holds while the index grows can be stated.  Sets are the same code      *)
(* again (value.c:654-822) with items and hashes for entries.              *)
(***************************************************************************)
EXTENDS Naturals, Sequences, FiniteSets

CONSTANTS
  Keys, Values, MayFail,
  Hash,         \* key -> hash, as the unsigned number the slot is computed from
  Capacities,   \* INDEX_MIN_CAP and its doublings, {8, 16, 32, ...} in the code
  MaxEntries    \* entries the heap can hold

VARIABLES
  entries,      \* entries[0 .. len)
  index,        \* slot -> entry number from 1, or 0; no slots when it is NULL
  index_cap,    \* slots of the index, 0 when it is NULL
  index_used,   \* entries the index is known to hold
  pc, then,     \* the function that runs, and the one after the fill loop
  op,           \* the operation under way, as asked
  answer        \* what the last operation returned

vars == <<entries, index, index_cap, index_used, pc, then, op, answer>>

Dict == INSTANCE OrderedMap WITH map <- entries

Answer(kind, k, v) == Dict!Answer(kind, k, v)
Missing  == Dict!Missing
Error    == Dict!Error
NoMemory == Dict!NoMemory
Done     == Dict!Done
Nothing  == Dict!Nothing

\* Definitions named Faulty... are mistakes a change of the code could make; no
\* action uses them.  The properties below are known to reject them.
FaultyNeeded(count) == count

\* index_capacity_for: the first capacity that holds half as many again.
Needed(count) == (count * 3) \div 2 + 1

IsCapacityFor(c, count) ==
  c >= Needed(count) /\ \A d \in Capacities : d < c => d < Needed(count)

CapacityFor(count) == CHOOSE c \in Capacities : IsCapacityFor(c, count)

\* The doubling reaches every size that fits in memory.
ASSUME TableAssumption ==
  /\ MaxEntries \in Nat
  /\ Capacities \subseteq Nat \ {0}
  /\ \A n \in 0..MaxEntries : \E c \in Capacities : IsCapacityFor(c, n)
  /\ Hash \in [Keys -> Nat]
  /\ MayFail \in BOOLEAN

\* The heap holds no more entries (34 gigabytes of them) than the 32-bit
\* count * 3 can take; beyond, Needed would have to wrap as the code does.
ASSUME WidthAssumption == MaxEntries <= 1431655765

Init ==
  /\ entries = << >>
  /\ index = [s \in {} |-> 0] /\ index_cap = 0 /\ index_used = 0
  /\ pc = "idle" /\ then = "idle"
  /\ op = Answer("none", Nothing, Nothing)
  /\ answer = Answer("none", Nothing, Nothing)
-----------------------------------------------------------------------------
(***************************************************************************)
(* The index.                                                              *)
(***************************************************************************)
\* The slot a key hashes to, and the one probed j steps later.
Home(k)     == Hash[k] % index_cap
SlotAt(h, j) == IF h + j < index_cap THEN h + j ELSE h + j - index_cap

\* The j slots probed before step j are all taken.
PathTaken(h, j) == \A m \in 0..(j - 1) : index[SlotAt(h, m)] # 0

\* Entry number i with key k goes to the first free slot from its home.
Place(i, k) ==
  \E j \in 0..(index_cap - 1) :
    /\ index[SlotAt(Home(k), j)] = 0 /\ PathTaken(Home(k), j)
    /\ index' = [index EXCEPT ![SlotAt(Home(k), j)] = i]

\* Whether the slot probed at step j of a lookup of k holds an entry with that key.
Matches(k, j) ==
  LET i == index[SlotAt(Home(k), j)] IN i # 0 /\ entries[i].key = k

\* dict_index_lookup: from the home slot on until a match or a free slot.
FoundAt(k, j) ==
  Matches(k, j) /\ \A m \in 0..(j - 1) : index[SlotAt(Home(k), m)] # 0 /\ ~Matches(k, m)

Misses(k) ==
  \/ index_cap = 0
  \/ \E j \in 0..(index_cap - 1) :
       /\ index[SlotAt(Home(k), j)] = 0 /\ PathTaken(Home(k), j)
       /\ \A m \in 0..(j - 1) : ~Matches(k, m)

\* The two ways dict_index_build can go: a table of zeroed slots to be filled
\* before the function named next goes on, or no memory.
StartBuild(cap, next) ==
  /\ index' = [s \in 0..(cap - 1) |-> 0]
  /\ index_cap' = cap /\ index_used' = 0
  /\ IF cap = 0 THEN pc' = next /\ then' = then
                ELSE pc' = "build" /\ then' = next

CannotBuild(cap) == cap # 0 /\ MayFail /\ UNCHANGED <<index, index_cap, index_used>>

Return(v) == pc' = "idle" /\ then' = then /\ answer' = Answer(op.kind, op.key, v)

\* There was no memory for the index: storing reports it; looking up and
\* deleting return what they return for a missing key, and the answer tells
\* the two apart only to say which lookups are right.
Failed == IF op.kind = "set" THEN Error ELSE NoMemory
-----------------------------------------------------------------------------
(***************************************************************************)
(* The steps of value_dict_set, value_dict_get and value_dict_delete.      *)
(***************************************************************************)
Begin ==
  /\ pc = "idle" /\ pc' = "ready"
  /\ \E k \in Keys : \/ \E v \in Values : op' = Answer("set", k, v)
                     \/ op' = Answer("get", k, Nothing)
                     \/ op' = Answer("delete", k, Nothing)
  /\ UNCHANGED <<entries, index, index_cap, index_used, then, answer>>

FaultyUsable == index_cap # 0
Usable == index_cap # 0 /\ index_used = Len(entries)

SizeNow == IF entries = << >> THEN 0 ELSE CapacityFor(Len(entries))

\* dict_index_ready.
Ready ==
  /\ pc = "ready"
  /\ \/ /\ Usable
        /\ pc' = "lookup"
        /\ UNCHANGED <<index, index_cap, index_used, then, answer>>
     \/ /\ ~Usable
        /\ StartBuild(SizeNow, "lookup") /\ UNCHANGED answer
     \/ /\ ~Usable /\ CannotBuild(SizeNow) /\ Return(Failed)
  /\ UNCHANGED <<entries, op>>

\* The loop of dict_index_build.
Build ==
  /\ pc = "build"
  /\ \/ /\ index_used < Len(entries)
        /\ Place(index_used + 1, entries[index_used + 1].key)
        /\ index_used' = index_used + 1
        /\ UNCHANGED pc
     \/ /\ index_used >= Len(entries)
        /\ pc' = then
        /\ UNCHANGED <<index, index_used>>
  /\ UNCHANGED <<entries, index_cap, then, op, answer>>

GetFound ==
  /\ pc = "lookup" /\ op.kind = "get"
  /\ \E j \in 0..(index_cap - 1) :
       /\ FoundAt(op.key, j)
       /\ Return(entries[index[SlotAt(Home(op.key), j)]].value)
  /\ UNCHANGED <<entries, index, index_cap, index_used, op>>

\* The value is replaced, key and place stay.
SetFound ==
  /\ pc = "lookup" /\ op.kind = "set"
  /\ \E j \in 0..(index_cap - 1) :
       /\ FoundAt(op.key, j)
       /\ entries' = [entries EXCEPT ![index[SlotAt(Home(op.key), j)]].value = op.value]
  /\ Return(Done)
  /\ UNCHANGED <<index, index_cap, index_used, op>>

FaultyShifted(s, i) ==
  [j \in 1..(Len(s) - 1) |-> IF j = i THEN s[Len(s)] ELSE s[j]]

\* memmove of the entries after the deleted one.
Shifted(s, i) == [j \in 1..(Len(s) - 1) |-> IF j < i THEN s[j] ELSE s[j + 1]]

\* The entries move down and the index is rebuilt; if that fails, the old
\* one stays and the deletion still succeeds.
DeleteFound ==
  /\ pc = "lookup" /\ op.kind = "delete"
  /\ \E j \in 0..(index_cap - 1) :
       /\ FoundAt(op.key, j)
       /\ entries' = Shifted(entries, index[SlotAt(Home(op.key), j)])
  /\ answer' = Answer("delete", op.key, Done)
  /\ LET cap == IF Len(entries) = 1 THEN 0 ELSE CapacityFor(Len(entries) - 1)
     IN \/ StartBuild(cap, "idle")
        \/ CannotBuild(cap) /\ pc' = "idle" /\ then' = then
  /\ UNCHANGED op

NotFound ==
  /\ pc = "lookup" /\ Misses(op.key)
  /\ \/ op.kind = "set" /\ pc' = "reserve" /\ UNCHANGED <<then, answer>>
     \/ op.kind # "set" /\ Return(Missing)
  /\ UNCHANGED <<entries, index, index_cap, index_used, op>>

FaultyHeapFull == Len(entries) > MaxEntries

\* dict_entries_reserve finds no room for one more entry.
HeapFull == Len(entries) >= MaxEntries

\* dict_index_reserve: at most two slots in three used.
Roomy == index_cap # 0 /\ (index_used + 1) * 3 <= index_cap * 2

Reserve ==
  /\ pc = "reserve"
  /\ \/ /\ MayFail \/ HeapFull
        /\ Return(Error)
        /\ UNCHANGED <<index, index_cap, index_used>>
     \/ /\ ~HeapFull /\ Roomy
        /\ pc' = "insert"
        /\ UNCHANGED <<index, index_cap, index_used, then, answer>>
     \/ /\ ~HeapFull /\ ~Roomy
        /\ StartBuild(CapacityFor(Len(entries) + 1), "insert")
        /\ UNCHANGED answer
  /\ UNCHANGED <<entries, op>>

Insert ==
  /\ pc = "insert"
  /\ entries' = Append(entries, [key |-> op.key, value |-> op.value])
  /\ Place(Len(entries) + 1, op.key)
  /\ index_used' = index_used + 1
  /\ Return(Done)
  /\ UNCHANGED <<index_cap, op>>

\* dict.popitem (set.pop for a set): the last entry goes, the index is not touched.
PopItem ==
  /\ pc = "idle"
  /\ \/ /\ entries = << >> /\ entries' = entries
        /\ answer' = Answer("popitem", Nothing, Missing)
     \/ /\ entries # << >>
        /\ entries' = Shifted(entries, Len(entries))
        /\ answer' = Answer("popitem", entries[Len(entries)].key, entries[Len(entries)].value)
  /\ UNCHANGED <<index, index_cap, index_used, pc, then, op>>

\* dict.clear: the length alone is reset.
Clear ==
  /\ pc = "idle"
  /\ entries' = << >>
  /\ answer' = Answer("clear", Nothing, Done)
  /\ UNCHANGED <<index, index_cap, index_used, pc, then, op>>

Next ==
  \/ Begin \/ Ready \/ Build \/ GetFound \/ SetFound \/ DeleteFound \/ NotFound
  \/ Reserve \/ Insert \/ PopItem \/ Clear

Spec == Init /\ [][Next]_vars
-----------------------------------------------------------------------------
EntryRecord == [key: Keys, value: Values]

\* Type invariant.
TypeOK ==
  /\ entries \in Seq(EntryRecord) /\ Len(entries) <= MaxEntries
  /\ index_cap \in Nat /\ index_used \in Nat
  /\ index \in [0..(index_cap - 1) -> Nat]
  /\ pc \in {"idle", "ready", "build", "lookup", "reserve", "insert"}
  /\ then \in {"idle", "lookup", "insert"}
  /\ op.kind \in {"none", "set", "get", "delete"}
  /\ op.kind # "none" => op.key \in Keys
  /\ op.kind = "set" => op.value \in Values
  /\ pc # "idle" /\ ~(pc = "build" /\ then = "idle") => op.kind # "none"

\* Entry number i is reached by probing from the home slot of its key.
Reachable(i) ==
  \E j \in 0..(index_cap - 1) :
    /\ index[SlotAt(Home(entries[i].key), j)] = i
    /\ PathTaken(Home(entries[i].key), j)

\* Whenever a lookup trusts the index, it is right to: the numbers in it are
\* entries there are, and every entry is reached from its key.  It holds
\* however popitem, clear, failed rebuilds and insertions followed each other.
IndexSound ==
  pc \in {"lookup", "reserve", "insert"} \/ (pc \in {"idle", "ready"} /\ Usable) =>
    /\ index_cap = 0 => entries = << >>
    /\ \A s \in 0..(index_cap - 1) : index[s] <= Len(entries)
    /\ \A i \in 1..Len(entries) : index_cap # 0 => Reachable(i)

\* Every probe loop ends: an index always has a free slot, also while it is
\* being filled and after the insertion that Reserve made room for.
ProbingEnds ==
  index_cap # 0 => \E s \in 0..(index_cap - 1) : index[s] = 0

\* The table behaves as an insertion-ordered map.
DictSpec == Dict!Spec
=============================================================================
