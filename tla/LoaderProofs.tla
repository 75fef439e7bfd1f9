---------------------------- MODULE LoaderProofs ----------------------------
(***************************************************************************)
(* For files of any bytes and any length: the loader stays inside the file *)
(* and a module that loads is sound.                                       *)
(***************************************************************************)
EXTENDS Loader, SequenceTheorems, TLAPS

Stages == {"header", "entry", "constants_head", "constants", "names_head", "names",
           "functions_head", "measure", "copy", "source", "loaded", "failed"}

FunctionSet ==
  [name_index : Nat, locals_count : Nat, posonly_count : Nat, defaults_count : Nat,
   vararg_slot : Nat, kwarg_slot : Nat, param_names : Seq(Nat), kwonly_names : Seq(Nat),
   kwonly_slots : Seq(Nat), kwonly_flags : Seq(0..255), cell_slots : Seq(Nat),
   free_names : Seq(Nat), lines : Seq(Nat), code_offset : Nat, code_len : Nat]

FileOK == file \in Seq(0..255) /\ junk \in 0..255

TypeOK ==
  /\ FileOK
  /\ pc \in Stages
  /\ pos \in Nat /\ end \in Nat /\ left \in Nat /\ first \in Nat /\ entry \in Nat
  /\ names \in Seq(Seq(0..255))
  /\ functions \in Seq(FunctionSet)
  /\ bytecode \in Seq(0..255)
  /\ reach \in Nat

\* Where the loader is in the payload.
Inside ==
  /\ pc # "header" /\ reach > 0 => reach <= Size + 4
  /\ pc = "header" => reach = 0
  /\ pc \notin {"header", "failed"} => Size >= 0
  /\ pc \notin {"header", "failed", "measure"} => reach <= Size
  /\ pc \in {"constants_head", "names_head", "functions_head", "source"} => pos <= Size
  /\ pc \in {"constants", "names", "copy"} => pos <= end
  /\ pc \in {"constants", "names", "measure", "copy"} => end <= Size
  /\ pc \in {"measure", "copy"} => first >= 4
  /\ pc = "measure" => reach <= Size \/ pos > end
  /\ pc = "loaded" => reach = Size

\* The records that were measured lie end to end, and the second pass walks the same
\* ones: so it never meets a record that runs past the end of the section.
Count == U32(first - 4)
Chain(s, k) ==
  /\ s \in [1..(k + 1) -> Nat]
  /\ s[1] = first
  /\ \A i \in 1..k : s[i + 1] = RecordEnd(s[i]) /\ s[i] <= s[k + 1] /\ s[i + 1] <= s[k + 1]

Measured ==
  pc = "measure" => left <= Count /\ \E s : Chain(s, Count - left) /\ pos = s[Count - left + 1]
Copied ==
  pc = "copy" =>
    left <= Count /\ \E s : Chain(s, Count) /\ s[Count + 1] = end /\ pos = s[Count - left + 1]

\* Functions are there only once the names are complete.
FunctionsSound ==
  /\ pc \notin {"copy", "source", "loaded"} => functions = << >> /\ bytecode = << >>
  /\ \A i \in 1..Len(functions) : FunctionSound(functions[i])
  /\ pc = "loaded" => entry < Len(functions)

IInv == TypeOK /\ Inside /\ Measured /\ Copied /\ FunctionsSound

-----------------------------------------------------------------------------
(* Reading *)

LEMMA ElementIn == ASSUME NEW S, NEW s \in Seq(S), NEW k \in 1..Len(s) PROVE s[k] \in S
  OBVIOUS

LEMMA AtByte == ASSUME FileOK, NEW p \in Nat PROVE At(p) \in 0..255
<1>1. CASE p < Size
  <2>1. PICK k \in 1..Len(file) : k = HeaderLen + p + 1
    BY <1>1 DEF FileOK, Size, HeaderLen
  <2>2. file[k] \in 0..255
    BY ElementIn DEF FileOK
  <2> QED
    BY <1>1, <2>1, <2>2 DEF At
<1>2. CASE ~(p < Size)
  BY <1>2 DEF At, FileOK
<1> QED
  BY <1>1, <1>2

LEMMA Numbers ==
  ASSUME FileOK, NEW p \in Nat
  PROVE U8(p) \in 0..255 /\ U16(p) \in Nat /\ U32(p) \in Nat
<1>1. At(p) \in 0..255 /\ At(p + 1) \in 0..255 /\ At(p + 2) \in 0..255 /\ At(p + 3) \in 0..255
  BY AtByte
<1>2. At(p) \in Int /\ At(p + 1) \in Int /\ At(p + 2) \in Int /\ At(p + 3) \in Int
  BY <1>1
<1>3. U8(p) \in 0..255
  BY <1>1 DEF U8
<1>4. U16(p) \in Nat
  BY <1>1, <1>2, SMT DEF U16
<1>5. U32(p) \in Nat
  <2>1. CASE At(p + 3) >= 64
    BY <2>1, SMT DEF U32, Number32, Large
  <2>2. CASE ~(At(p + 3) >= 64)
    <3>1. U32(p) = At(p) + 256 * At(p + 1) + 65536 * At(p + 2) + 16777216 * At(p + 3)
      BY <2>2, SMT DEF U32, Number32
    <3>2. At(p) \in Nat /\ At(p + 1) \in Nat /\ At(p + 2) \in Nat /\ At(p + 3) \in Nat
      BY <1>1
    <3> QED
      BY <3>1, <3>2, SMT
  <2> QED
    BY <2>1, <2>2
<1> QED
  BY <1>3, <1>4, <1>5

LEMMA BytesOf ==
  ASSUME FileOK, NEW p \in Nat, NEW n \in Nat
  PROVE Bytes(p, n) \in Seq(0..255) /\ Len(Bytes(p, n)) = n
<1>1. ASSUME NEW i \in 1..n PROVE At(p + i - 1) \in 0..255
  <2>1. p + i - 1 \in Nat
    OBVIOUS
  <2> QED
    BY <2>1, AtByte
<1> QED
  BY <1>1 DEF Bytes

LEMMA Tables ==
  ASSUME FileOK, NEW p \in Nat, NEW n \in Nat
  PROVE /\ Table16(p, n) \in Seq(Nat) /\ Len(Table16(p, n)) = n
        /\ Table32(p, n) \in Seq(Nat) /\ Len(Table32(p, n)) = n
        /\ \A i \in 1..n : Table16(p, n)[i] = Nth16(p, i) /\ Table32(p, n)[i] = Nth32(p, i)
<1>1. ASSUME NEW i \in 1..n PROVE Nth16(p, i) \in Nat /\ Nth32(p, i) \in Nat
  <2>1. p + 2 * (i - 1) \in Nat /\ p + 4 * (i - 1) \in Nat
    OBVIOUS
  <2> QED
    BY <2>1, Numbers DEF Nth16, Nth32
<1> QED
  BY <1>1 DEF Table16, Table32

-----------------------------------------------------------------------------
(* A function record *)

LEMMA Fields ==
  ASSUME FileOK, NEW p \in Nat
  PROVE /\ NameIndex(p) \in Nat /\ NumLocals(p) \in Nat /\ NumParams(p) \in Nat
        /\ Posonly(p) \in Nat /\ Defaults(p) \in Nat /\ NumKwonly(p) \in Nat
        /\ Vararg(p) \in Nat /\ Kwarg(p) \in Nat /\ NumCells(p) \in Nat /\ NumFree(p) \in Nat
<1>1. \A q \in Nat : U16(q) \in Nat /\ U32(q) \in Nat
  BY Numbers
<1> QED
  BY <1>1 DEF NameIndex, NumLocals, NumParams, Posonly, Defaults, NumKwonly, Vararg, Kwarg,
              NumCells, NumFree

LEMMA Places ==
  ASSUME FileOK, NEW p \in Nat
  PROVE /\ ParamNames(p) \in Nat /\ KwonlyNames(p) \in Nat /\ KwonlySlots(p) \in Nat
        /\ KwonlyFlags(p) \in Nat /\ CellSlots(p) \in Nat /\ FreeNames(p) \in Nat
        /\ LineCount(p) \in Nat /\ p + 22 <= LineCount(p)
        /\ Lines(p) = LineCount(p) + 4
        /\ U32(LineCount(p)) \in Nat
        /\ CodeLen(p) \in Nat /\ CodeLen(p) = Lines(p) + 8 * U32(LineCount(p))
        /\ U32(CodeLen(p)) \in Nat
        /\ Code(p) = CodeLen(p) + 4
        /\ RecordEnd(p) = Code(p) + U32(CodeLen(p))
<1>1. /\ NumParams(p) \in Nat /\ NumKwonly(p) \in Nat /\ NumCells(p) \in Nat /\ NumFree(p) \in Nat
  BY Fields
<1>2. /\ ParamNames(p) \in Nat /\ KwonlyNames(p) \in Nat /\ KwonlySlots(p) \in Nat
      /\ KwonlyFlags(p) \in Nat /\ p + 22 <= KwonlyFlags(p)
  BY <1>1 DEF ParamNames, KwonlyNames, KwonlySlots, KwonlyFlags
<1>3. /\ CellSlots(p) \in Nat /\ FreeNames(p) \in Nat /\ LineCount(p) \in Nat
      /\ p + 22 <= LineCount(p)
  BY <1>1, <1>2 DEF CellSlots, FreeNames, LineCount
<1>4. U32(LineCount(p)) \in Nat
  BY <1>3, Numbers
<1>5. CodeLen(p) \in Nat
  BY <1>3, <1>4 DEF CodeLen, Lines
<1>6. U32(CodeLen(p)) \in Nat
  BY <1>5, Numbers
<1> QED
  BY <1>2, <1>3, <1>4, <1>5, <1>6 DEF Lines, CodeLen, Code, RecordEnd

LEMMA RecordGrows ==
  ASSUME FileOK, NEW p \in Nat
  PROVE Code(p) \in Nat /\ RecordEnd(p) \in Nat /\ p <= Code(p) /\ Code(p) <= RecordEnd(p)
<1>1. /\ LineCount(p) \in Nat /\ p + 22 <= LineCount(p) /\ Lines(p) = LineCount(p) + 4
      /\ U32(LineCount(p)) \in Nat /\ CodeLen(p) = Lines(p) + 8 * U32(LineCount(p))
      /\ U32(CodeLen(p)) \in Nat
      /\ Code(p) = CodeLen(p) + 4 /\ RecordEnd(p) = Code(p) + U32(CodeLen(p))
  BY Places
<1> QED
  BY <1>1

LEMMA ReachOfRecord ==
  ASSUME FileOK, NEW p \in Nat, end \in Nat
  PROVE /\ RecordReach(p) \in Nat
        /\ RecordReach(p) <= end + 4
        /\ RecordOk(p) => RecordReach(p) = Code(p)
        /\ Code(p) <= end => RecordReach(p) <= end
        /\ ~RecordOk(p) => RecordReach(p) <= end \/ Code(p) > end
<1>0. /\ LineCount(p) \in Nat /\ p + 22 <= LineCount(p) /\ Lines(p) = LineCount(p) + 4
      /\ U32(LineCount(p)) \in Nat /\ CodeLen(p) = Lines(p) + 8 * U32(LineCount(p))
      /\ Code(p) = CodeLen(p) + 4
  BY Places
<1>1. CASE ~FixedFits(p)
  BY <1>1 DEF RecordReach, RecordOk
<1>2. CASE FixedFits(p) /\ (~FixedSound(p) \/ ~TablesFit(p))
  BY <1>2 DEF RecordReach, RecordOk, FixedFits
<1>3. CASE FixedFits(p) /\ FixedSound(p) /\ TablesFit(p) /\ (~TablesSound(p) \/ ~LinesFit(p))
  BY <1>0, <1>3 DEF RecordReach, RecordOk, TablesFit
<1>4. CASE FixedFits(p) /\ FixedSound(p) /\ TablesFit(p) /\ TablesSound(p) /\ LinesFit(p)
  <2>1. RecordReach(p) = Code(p)
    BY <1>4 DEF RecordReach
  <2>2. Code(p) \in Nat /\ Code(p) <= end + 4
    BY <1>0, <1>4 DEF LinesFit
  <2> QED
    BY <2>1, <2>2
<1> QED
  BY <1>1, <1>2, <1>3, <1>4

LEMMA RecordIn ==
  ASSUME FileOK, bytecode \in Seq(0..255), NEW p \in Nat
  PROVE RecordAt(p) \in FunctionSet
<1>1. /\ NumParams(p) \in Nat /\ NumKwonly(p) \in Nat /\ NumCells(p) \in Nat /\ NumFree(p) \in Nat
      /\ NameIndex(p) \in Nat /\ NumLocals(p) \in Nat /\ Posonly(p) \in Nat /\ Defaults(p) \in Nat
      /\ Vararg(p) \in Nat /\ Kwarg(p) \in Nat
  BY Fields
<1>2. /\ ParamNames(p) \in Nat /\ KwonlyNames(p) \in Nat /\ KwonlySlots(p) \in Nat
      /\ KwonlyFlags(p) \in Nat /\ CellSlots(p) \in Nat /\ FreeNames(p) \in Nat
      /\ Lines(p) \in Nat /\ 2 * U32(LineCount(p)) \in Nat /\ U32(CodeLen(p)) \in Nat
  <2>1. /\ ParamNames(p) \in Nat /\ KwonlyNames(p) \in Nat /\ KwonlySlots(p) \in Nat
        /\ KwonlyFlags(p) \in Nat /\ CellSlots(p) \in Nat /\ FreeNames(p) \in Nat
        /\ LineCount(p) \in Nat /\ Lines(p) = LineCount(p) + 4
        /\ U32(LineCount(p)) \in Nat /\ U32(CodeLen(p)) \in Nat
    BY Places
  <2> QED
    BY <2>1
<1>3. /\ Table32(ParamNames(p), NumParams(p)) \in Seq(Nat)
      /\ Table32(KwonlyNames(p), NumKwonly(p)) \in Seq(Nat)
      /\ Table16(KwonlySlots(p), NumKwonly(p)) \in Seq(Nat)
      /\ Table16(CellSlots(p), NumCells(p)) \in Seq(Nat)
      /\ Table32(FreeNames(p), NumFree(p)) \in Seq(Nat)
      /\ Table32(Lines(p), 2 * U32(LineCount(p))) \in Seq(Nat)
  BY <1>1, <1>2, Tables
<1>4. Bytes(KwonlyFlags(p), NumKwonly(p)) \in Seq(0..255)
  BY <1>1, <1>2, BytesOf
<1>5. Len(bytecode) \in Nat
  OBVIOUS
<1> QED
  BY <1>1, <1>2, <1>3, <1>4, <1>5 DEF RecordAt, FunctionSet

-----------------------------------------------------------------------------
(* Nothing changes the file *)

LEMMA SameRecord ==
  ASSUME file' = file, junk' = junk, NEW CONSTANT p
  PROVE RecordEnd(p)' = RecordEnd(p)
<1>1. \A q : At(q)' = At(q)
  BY DEF At, Size
<1>2. \A q : U16(q)' = U16(q) /\ U32(q)' = U32(q)
  BY <1>1, SMT DEF U16, U32
<1>3. /\ NumParams(p)' = NumParams(p) /\ NumKwonly(p)' = NumKwonly(p)
      /\ NumCells(p)' = NumCells(p) /\ NumFree(p)' = NumFree(p)
  BY <1>2 DEF NumParams, NumKwonly, NumCells, NumFree
<1>4. LineCount(p)' = LineCount(p)
  BY <1>3 DEF LineCount, FreeNames, CellSlots, KwonlyFlags, KwonlySlots, KwonlyNames, ParamNames
<1>5. CodeLen(p)' = CodeLen(p)
  <2>1. \A q : q = LineCount(p) => U32(LineCount(p))' = U32(q)
    BY <1>2, <1>4
  <2> QED
    BY <2>1, <1>4 DEF CodeLen, Lines
<1>6. U32(CodeLen(p))' = U32(CodeLen(p))
  <2>1. \A q : q = CodeLen(p) => U32(CodeLen(p))' = U32(q)
    BY <1>2, <1>5
  <2> QED
    BY <2>1
<1> QED
  BY <1>5, <1>6 DEF RecordEnd, Code

LEMMA SameChain ==
  ASSUME file' = file, junk' = junk, first' = first, NEW CONSTANT s, NEW CONSTANT k, Chain(s, k)
  PROVE Chain(s, k)'
<1>1. \A p : RecordEnd(p)' = RecordEnd(p)
  BY SameRecord
<1> QED
  BY <1>1 DEF Chain

LEMMA SameCount ==
  ASSUME file' = file, junk' = junk, first' = first
  PROVE Count' = Count
<1>1. \A q : At(q)' = At(q)
  BY DEF At, Size
<1>2. \A q : U32(q)' = U32(q)
  BY <1>1, SMT DEF U32
<1>3. \A q : q = first - 4 => Count' = U32(q)
  BY <1>2 DEF Count
<1> QED
  BY <1>3 DEF Count

-----------------------------------------------------------------------------
(* The invariant is inductive *)

\* What every action leaves as it was.
Same == file' = file /\ junk' = junk

LEMMA SameSize == ASSUME file' = file PROVE Size' = Size
  BY DEF Size

LEMMA InitIInv == Init => IInv
<1> SUFFICES ASSUME Init PROVE IInv
  OBVIOUS
<1>1. FileOK
  BY FilesAssumption, JunkAssumption DEF Init, FileOK
<1>2. names \in Seq(Seq(0..255)) /\ functions \in Seq(FunctionSet) /\ bytecode \in Seq(0..255)
  BY DEF Init
<1>3. TypeOK
  BY <1>1, <1>2 DEF Init, TypeOK, Stages
<1>4. Inside
  BY DEF Init, Inside
<1>5. Measured /\ Copied
  BY DEF Init, Measured, Copied
<1>6. FunctionsSound
  BY DEF Init, FunctionsSound
<1> QED
  BY <1>3, <1>4, <1>5, <1>6 DEF IInv

\* A load that fails leaves nothing behind, whatever it has read.
LEMMA FailKeeps ==
  ASSUME IInv, NEW e, Fail(e), reach' \in Nat, reach' > 0 => reach' <= Size + 4
  PROVE IInv'
<1>1. /\ Same /\ pc' = "failed" /\ pos' = pos /\ end' = end /\ left' = left /\ first' = first
      /\ entry' = 0 /\ names' = << >> /\ functions' = << >> /\ bytecode' = << >>
  BY DEF Fail, Same
<1>2. TypeOK'
  <2>1. names' \in Seq(Seq(0..255)) /\ functions' \in Seq(FunctionSet) /\ bytecode' \in Seq(0..255)
    BY <1>1
  <2> QED
    BY <1>1, <2>1 DEF IInv, TypeOK, FileOK, Stages, Same
<1>3. Inside'
  BY <1>1, SameSize DEF Inside, Same
<1>4. Measured' /\ Copied' /\ FunctionsSound'
  BY <1>1 DEF Measured, Copied, FunctionsSound
<1> QED
  BY <1>2, <1>3, <1>4 DEF IInv

LEMMA LargerOf ==
  ASSUME NEW x \in Nat, NEW y \in Nat
  PROVE Larger(x, y) \in Nat /\ x <= Larger(x, y) /\ y <= Larger(x, y)
        /\ (Larger(x, y) = x \/ Larger(x, y) = y)
  BY DEF Larger

LEMMA HeaderKeeps == ASSUME IInv, Header PROVE IInv'
<1>1. CASE HeaderError # "OK"
  <2>1. Fail(HeaderError) /\ reach' = reach /\ reach \in Nat /\ reach = 0
    BY <1>1 DEF Header, IInv, TypeOK, Inside
  <2> QED
    BY <2>1, FailKeeps
<1>2. CASE HeaderError = "OK"
  <2>1. /\ Same /\ pc = "header" /\ pc' = "entry" /\ reach' = reach /\ reach = 0
        /\ UNCHANGED <<pos, end, left, first, entry, names, functions, bytecode>>
    BY <1>2 DEF Header, Same, vm, IInv, Inside
  <2>2. Size >= 0
    <3>1. ~(Len(file) < HeaderLen)
      BY <1>2 DEF HeaderError
    <3>2. Len(file) \in Nat
      BY DEF IInv, TypeOK, FileOK
    <3> QED
      BY <3>1, <3>2 DEF Size, HeaderLen
  <2>3. TypeOK'
    BY <2>1 DEF IInv, TypeOK, FileOK, Stages, Same
  <2>4. Inside'
    BY <2>1, <2>2, SameSize DEF Inside, Same
  <2>5. Measured' /\ Copied'
    BY <2>1 DEF Measured, Copied
  <2>6. FunctionsSound'
    BY <2>1 DEF IInv, FunctionsSound
  <2> QED
    BY <2>3, <2>4, <2>5, <2>6 DEF IInv
<1> QED
  BY <1>1, <1>2

LEMMA EntryKeeps == ASSUME IInv, EntryIndex PROVE IInv'
<1>0. pc = "entry" /\ FileOK /\ reach \in Nat /\ reach <= Size /\ Size \in Int
  <2>1. Len(file) \in Nat
    BY DEF IInv, TypeOK, FileOK
  <2> QED
    BY <2>1 DEF EntryIndex, IInv, TypeOK, Inside, Size, HeaderLen
<1>1. CASE Size < 4
  <2>1. Fail("BOUNDS") /\ reach' = reach
    BY <1>1 DEF EntryIndex
  <2> QED
    BY <1>0, <2>1, FailKeeps
<1>2. CASE ~(Size < 4)
  <2>1. /\ Same /\ pc' = "constants_head" /\ pos' = 4 /\ entry' = U32(0)
        /\ reach' = Larger(reach, 4)
        /\ UNCHANGED <<end, left, first, names, functions, bytecode>>
    BY <1>2 DEF EntryIndex, Same, Read
  <2>2. U32(0) \in Nat
    BY <1>0, Numbers
  <2>3. reach' \in Nat /\ reach' <= Size
    BY <1>0, <1>2, <2>1 DEF Larger
  <2>4. TypeOK'
    BY <2>1, <2>2, <2>3 DEF IInv, TypeOK, FileOK, Stages, Same
  <2>5. Inside'
    BY <1>0, <1>2, <2>1, <2>3, SameSize DEF Inside, Same
  <2>6. Measured' /\ Copied'
    BY <2>1 DEF Measured, Copied
  <2>7. FunctionsSound'
    BY <1>0, <2>1 DEF IInv, FunctionsSound
  <2> QED
    BY <2>4, <2>5, <2>6, <2>7 DEF IInv
<1> QED
  BY <1>1, <1>2

\* The heads of the three sections.
LEMMA HeadKeeps ==
  ASSUME IInv, NEW stage, NEW tag, NEW least, NEW most, NEW next,
         SectionHead(stage, tag, least, most, next),
         \/ stage = "constants_head" /\ next = "constants"
         \/ stage = "names_head" /\ next = "names"
         \/ stage = "functions_head" /\ next = "measure"
  PROVE IInv'
<1>0. /\ FileOK /\ reach \in Nat /\ reach <= Size /\ Size \in Nat /\ pos \in Nat /\ pos <= Size
      /\ pc = stage /\ pc \notin {"copy", "source", "loaded"}
  <2>1. Len(file) \in Nat
    BY DEF IInv, TypeOK, FileOK
  <2> QED
    BY <2>1 DEF SectionHead, IInv, TypeOK, Inside, Size, HeaderLen
<1>1. U32(pos + 1) \in Nat /\ U32(pos + 5) \in Nat
  BY <1>0, Numbers
<1>2. HeadReach \in Nat /\ HeadReach <= Size
  BY <1>0, <1>1 DEF HeadReach
<1>3. reach' = Larger(reach, HeadReach) /\ reach' \in Nat /\ reach' <= Size
  BY <1>0, <1>2, LargerOf DEF SectionHead, Read
<1>4. CASE ~HeadOk(tag, least, most)
  <2>1. Fail("BOUNDS")
    BY <1>4 DEF SectionHead
  <2> QED
    BY <1>0, <1>3, <2>1, FailKeeps
<1>5. CASE HeadOk(tag, least, most)
  <2>1. /\ Same /\ pc' = next /\ pos' = pos + 9 /\ end' = pos + 5 + U32(pos + 1)
        /\ left' = U32(pos + 5) /\ first' = pos + 9
        /\ UNCHANGED <<entry, names, functions, bytecode>>
    BY <1>5 DEF SectionHead, Same, vm
  <2>2. pos' <= end' /\ end' <= Size /\ pos' \in Nat /\ end' \in Nat
    BY <1>0, <1>1, <1>5, <2>1 DEF HeadOk
  <2>3. TypeOK'
    BY <1>0, <1>1, <1>3, <2>1, <2>2 DEF IInv, TypeOK, FileOK, Stages, Same
  <2>4. Inside'
    BY <1>0, <1>3, <2>1, <2>2, SameSize DEF Inside, Same
  <2>5. Copied' /\ (pc' # "measure" => Measured')
    BY <2>1 DEF Measured, Copied
  <2>6. ASSUME pc' = "measure" PROVE Measured'
    <3>1. PICK f \in Nat : f = pos + 9
      BY <1>0
    <3>2. \A q : At(q)' = At(q)
      BY <2>1 DEF At, Size, Same
    <3>3. \A q : U32(q)' = U32(q)
      BY <3>2, SMT DEF U32
    <3>4. Count' = left'
      <4>1. Count' = U32(f - 4)
        BY <2>1, <3>1, <3>3 DEF Count
      <4>2. f - 4 = pos + 5
        BY <1>0, <3>1
      <4> QED
        BY <2>1, <4>1, <4>2
    <3>5. PICK c \in Nat : left' = c /\ Count' = c
      BY <1>1, <2>1, <3>4
    <3>6. Count' - left' = 0
      <4>1. c - c = 0
        OBVIOUS
      <4> QED
        BY <3>5, <4>1
    <3>7. Chain([i \in 1..1 |-> f], 0)' /\ [i \in 1..1 |-> f][0 + 1] = f
      BY <2>1, <3>1 DEF Chain
    <3>8. pos' = f
      BY <2>1, <3>1
    <3> QED
      BY <3>4, <3>5, <3>6, <3>7, <3>8 DEF Measured
  <2>7. FunctionsSound'
    BY <1>0, <2>1 DEF IInv, FunctionsSound
  <2> QED
    BY <2>3, <2>4, <2>5, <2>6, <2>7 DEF IInv
<1> QED
  BY <1>4, <1>5

\* The ends of the three sections.
LEMMA EndKeeps ==
  ASSUME IInv, NEW stage, NEW next, SectionEnd(stage, next),
         \/ stage = "constants" /\ next = "names_head"
         \/ stage = "names" /\ next = "functions_head"
         \/ stage = "copy" /\ next = "source"
  PROVE IInv'
<1>0. /\ reach' = reach /\ reach \in Nat /\ reach <= Size /\ Size \in Int /\ pc = stage
      /\ pos <= end /\ end <= Size
  <2>1. Len(file) \in Nat
    BY DEF IInv, TypeOK, FileOK
  <2> QED
    BY <2>1 DEF SectionEnd, IInv, TypeOK, Inside, Size, HeaderLen
<1>1. CASE pos # end
  BY <1>0, <1>1, FailKeeps DEF SectionEnd
<1>2. CASE pos = end
  <2>1. /\ Same /\ pc' = next
        /\ UNCHANGED <<pos, end, left, first, entry, names, functions, bytecode>>
    BY <1>2 DEF SectionEnd, Same, vm
  <2>2. TypeOK'
    BY <1>0, <2>1 DEF IInv, TypeOK, FileOK, Stages, Same
  <2>3. Inside'
    BY <1>0, <1>2, <2>1, SameSize DEF IInv, Inside, Same
  <2>4. Measured' /\ Copied'
    BY <2>1 DEF Measured, Copied
  <2>5. FunctionsSound'
    <3>1. \A i \in 1..Len(functions') : FunctionSound(functions[i])'
      BY <2>1 DEF IInv, FunctionsSound, FunctionSound
    <3> QED
      BY <1>0, <2>1, <3>1 DEF IInv, FunctionsSound, FunctionSound
  <2> QED
    BY <2>2, <2>3, <2>4, <2>5 DEF IInv
<1> QED
  BY <1>1, <1>2

LEMMA ConstantKeeps == ASSUME IInv, Constant PROVE IInv'
<1>0. /\ FileOK /\ reach \in Nat /\ reach <= Size /\ Size \in Int /\ pos \in Nat /\ end \in Nat
      /\ left \in Nat /\ left > 0 /\ pos <= end /\ end <= Size /\ pc = "constants"
  <2>1. Len(file) \in Nat
    BY DEF IInv, TypeOK, FileOK
  <2> QED
    BY <2>1 DEF Constant, IInv, TypeOK, Inside, Size, HeaderLen
<1>1. /\ U8(pos) \in 0..255 /\ U32(pos + 1) \in Nat
      /\ ConstantLen(pos) \in Nat /\ 1 <= ConstantLen(pos)
  <2>1. U8(pos) \in 0..255 /\ U32(pos + 1) \in Nat
    BY <1>0, Numbers
  <2> QED
    BY <2>1 DEF ConstantLen, FixedWidth
<1>2. ConstantReach \in Nat /\ ConstantReach <= end
  <2>1. FixedWidth(U8(pos)) \in Nat /\ (U8(pos) \in {5, 6} => FixedWidth(U8(pos)) = 4)
    BY DEF FixedWidth
  <2>2. U8(pos) \notin {5, 6} => ConstantLen(pos) = 1 + FixedWidth(U8(pos))
    BY <2>1 DEF ConstantLen
  <2>3. CASE pos >= end
    BY <1>0, <2>3 DEF ConstantReach
  <2>4. CASE pos < end /\ (U8(pos) > 7 \/ FixedWidth(U8(pos)) > end - (pos + 1))
    BY <1>0, <2>4 DEF ConstantReach
  <2>5. CASE /\ pos < end /\ ~(U8(pos) > 7 \/ FixedWidth(U8(pos)) > end - (pos + 1))
             /\ ConstantLen(pos) > end - pos
    <3>1. FixedWidth(U8(pos)) <= end - (pos + 1)
      BY <1>0, <2>1, <2>5
    <3>2. U8(pos) \in {5, 6}
      BY <1>0, <2>1, <2>2, <2>5, <3>1
    <3> QED
      BY <1>0, <2>1, <2>5, <3>1, <3>2 DEF ConstantReach
  <2>6. CASE /\ pos < end /\ ~(U8(pos) > 7 \/ FixedWidth(U8(pos)) > end - (pos + 1))
             /\ ~(ConstantLen(pos) > end - pos)
    BY <1>0, <1>1, <2>6 DEF ConstantReach
  <2> QED
    BY <1>0, <2>3, <2>4, <2>5, <2>6
<1>3. reach' \in Nat /\ reach' <= Size
  BY <1>0, <1>2 DEF Constant, Read, Larger
<1>4. CASE ~ConstantOk
  <2>1. Fail("BOUNDS")
    BY <1>4 DEF Constant
  <2> QED
    BY <1>0, <1>3, <2>1, FailKeeps
<1>5. CASE ConstantOk
  <2>1. /\ Same /\ pos' = pos + ConstantLen(pos)
        /\ left' = left - 1 + (IF U8(pos) = 7 THEN U32(pos + 1) ELSE 0)
        /\ UNCHANGED <<pc, end, first, entry, names, functions, bytecode>>
    BY <1>5 DEF Constant, Same
  <2>2. pos' \in Nat /\ pos' <= end
    BY <1>0, <1>1, <1>5, <2>1 DEF ConstantOk
  <2>3. left' \in Nat
    BY <1>0, <1>1, <2>1
  <2>4. TypeOK'
    BY <1>0, <1>3, <2>1, <2>2, <2>3 DEF IInv, TypeOK, FileOK, Stages, Same
  <2>5. Inside'
    BY <1>0, <1>3, <2>1, <2>2, SameSize DEF IInv, Inside, Same
  <2>6. Measured' /\ Copied'
    BY <1>0, <2>1 DEF Measured, Copied
  <2>7. FunctionsSound'
    BY <1>0, <2>1 DEF IInv, FunctionsSound
  <2> QED
    BY <2>4, <2>5, <2>6, <2>7 DEF IInv
<1> QED
  BY <1>4, <1>5

LEMMA NameKeeps == ASSUME IInv, Name PROVE IInv'
<1>0. /\ FileOK /\ reach \in Nat /\ reach <= Size /\ Size \in Int /\ pos \in Nat /\ end \in Nat
      /\ left \in Nat /\ left > 0 /\ pos <= end /\ end <= Size /\ pc = "names"
  <2>1. Len(file) \in Nat
    BY DEF IInv, TypeOK, FileOK
  <2> QED
    BY <2>1 DEF Name, IInv, TypeOK, Inside, Size, HeaderLen
<1>1. U8(pos) \in Nat
  <2>1. U8(pos) \in 0..255
    BY <1>0, Numbers
  <2> QED
    BY <2>1
<1>2. reach' \in Nat /\ reach' <= Size
  BY <1>0, <1>1 DEF Name, Read, Larger, NameOk
<1>3. CASE ~NameOk
  <2>1. Fail("BOUNDS")
    BY <1>3 DEF Name
  <2> QED
    BY <1>0, <1>2, <2>1, FailKeeps
<1>4. CASE NameOk
  <2>1. /\ Same /\ pos' = pos + 1 + U8(pos) /\ left' = left - 1
        /\ names' = Append(names, Bytes(pos + 1, U8(pos)))
        /\ UNCHANGED <<pc, end, first, entry, functions, bytecode>>
    BY <1>4 DEF Name, Same
  <2>2. pos' \in Nat /\ pos' <= end /\ left' \in Nat
    BY <1>0, <1>1, <1>4, <2>1 DEF NameOk
  <2>3. names' \in Seq(Seq(0..255))
    <3>1. pos + 1 \in Nat /\ U8(pos) \in Nat
      BY <1>0, <1>1
    <3>2. Bytes(pos + 1, U8(pos)) \in Seq(0..255)
      BY <1>0, <3>1, BytesOf
    <3> QED
      BY <2>1, <3>2 DEF IInv, TypeOK
  <2>4. TypeOK'
    BY <1>0, <1>2, <2>1, <2>2, <2>3 DEF IInv, TypeOK, FileOK, Stages, Same
  <2>5. Inside'
    BY <1>0, <1>2, <2>1, <2>2, SameSize DEF IInv, Inside, Same
  <2>6. Measured' /\ Copied'
    BY <1>0, <2>1 DEF Measured, Copied
  <2>7. FunctionsSound'
    BY <1>0, <2>1 DEF IInv, FunctionsSound
  <2> QED
    BY <2>4, <2>5, <2>6, <2>7 DEF IInv
<1> QED
  BY <1>3, <1>4

-----------------------------------------------------------------------------
(* The two passes over the records *)

LEMMA ChainExtend ==
  ASSUME NEW CONSTANT s, NEW CONSTANT k \in Nat, NEW CONSTANT q \in Nat, NEW CONSTANT r \in Nat,
         Chain(s, k), s[k + 1] = q, r = RecordEnd(q), q <= r
  PROVE LET t == [i \in 1..(k + 2) |-> IF i = k + 2 THEN r ELSE s[i]]
        IN Chain(t, k + 1) /\ t[k + 2] = r
<1> DEFINE t == [i \in 1..(k + 2) |-> IF i = k + 2 THEN r ELSE s[i]]
<1>1. /\ s \in [1..(k + 1) -> Nat] /\ s[1] = first
      /\ \A i \in 1..k : s[i + 1] = RecordEnd(s[i]) /\ s[i] <= s[k + 1] /\ s[i + 1] <= s[k + 1]
  BY DEF Chain
<1>2. t[k + 2] = r /\ \A i \in 1..(k + 1) : t[i] = s[i] /\ s[i] \in Nat
  BY <1>1
<1>3. t \in [1..((k + 1) + 1) -> Nat]
  <2>1. \A i \in 1..(k + 2) : t[i] \in Nat
    BY <1>2
  <2>2. (k + 1) + 1 = k + 2
    OBVIOUS
  <2> QED
    BY <2>1, <2>2
<1>4. t[1] = first
  BY <1>1, <1>2
<1>5. ASSUME NEW i \in 1..(k + 1)
      PROVE t[i + 1] = RecordEnd(t[i]) /\ t[i] <= t[k + 2] /\ t[i + 1] <= t[k + 2]
  <2>1. CASE i = k + 1
    <3>1. t[i] = q /\ t[i + 1] = r
      BY <1>2, <2>1
    <3> QED
      BY <1>2, <3>1
  <2>2. CASE i # k + 1
    <3>1. i \in 1..k /\ i + 1 \in 1..(k + 1)
      BY <2>2
    <3>2. t[i] = s[i] /\ t[i + 1] = s[i + 1] /\ s[i] \in Nat /\ s[i + 1] \in Nat
      BY <1>2, <3>1
    <3>3. s[i + 1] = RecordEnd(s[i]) /\ s[i] <= q /\ s[i + 1] <= q
      BY <1>1, <3>1
    <3> QED
      BY <1>2, <3>2, <3>3
  <2> QED
    BY <2>1, <2>2
<1>6. (k + 1) + 1 = k + 2
  OBVIOUS
<1> HIDE DEF t
<1>7. Chain(t, k + 1)
  BY <1>3, <1>4, <1>5, <1>6 DEF Chain
<1> QED
  BY <1>2, <1>7 DEF t

LEMMA MeasureKeeps == ASSUME IInv, MeasureRecord PROVE IInv'
<1>0. /\ FileOK /\ reach \in Nat /\ Size \in Nat /\ pos \in Nat /\ end \in Nat /\ first \in Nat
      /\ left \in Nat /\ left > 0 /\ end <= Size /\ pc = "measure" /\ first >= 4
      /\ reach <= Size + 4 /\ (reach <= Size \/ pos > end)
  <2>1. Len(file) \in Nat
    BY DEF IInv, TypeOK, FileOK
  <2> QED
    BY <2>1 DEF MeasureRecord, IInv, TypeOK, Inside, Size, HeaderLen
<1>1. /\ RecordReach(pos) \in Nat /\ RecordReach(pos) <= end + 4
      /\ Code(pos) <= end => RecordReach(pos) <= end
  BY <1>0, ReachOfRecord
<1>2. /\ Code(pos) \in Nat /\ RecordEnd(pos) \in Nat /\ pos <= Code(pos)
      /\ Code(pos) <= RecordEnd(pos)
  BY <1>0, RecordGrows
<1>3. reach' = Larger(reach, RecordReach(pos))
  BY DEF MeasureRecord, Read
<1>4. reach' \in Nat /\ reach' <= Size + 4
  BY <1>0, <1>1, <1>3 DEF Larger
<1>5. CASE ~RecordOk(pos)
  <2>1. Fail("BOUNDS")
    BY <1>5 DEF MeasureRecord
  <2> QED
    BY <1>4, <2>1, FailKeeps
<1>6. CASE RecordOk(pos)
  <2>1. /\ Same /\ pos' = RecordEnd(pos) /\ left' = left - 1
        /\ UNCHANGED <<pc, end, first, entry, names, functions, bytecode>>
    BY <1>6 DEF MeasureRecord, Same, vm
  <2>2. TypeOK'
    BY <1>0, <1>2, <1>4, <2>1 DEF IInv, TypeOK, FileOK, Stages, Same
  <2>3. reach' <= Size \/ pos' > end
    <3>1. pos <= end
      BY <1>6 DEF RecordOk, FixedFits
    <3>2. CASE Code(pos) <= end
      BY <1>0, <1>1, <1>3, <3>1, <3>2 DEF Larger
    <3>3. CASE ~(Code(pos) <= end)
      BY <1>0, <1>2, <2>1, <3>3
    <3> QED
      BY <3>2, <3>3
  <2>4. Inside'
    BY <1>0, <1>4, <2>1, <2>3, SameSize DEF Inside, Same
  <2>5. Measured'
    <3>1. left <= Count /\ Count \in Nat
      <4>1. first - 4 \in Nat
        BY <1>0
      <4>2. Count \in Nat
        BY <1>0, <4>1, Numbers DEF Count
      <4> QED
        BY <1>0, <4>2 DEF IInv, Measured
    <3>2. PICK s : Chain(s, Count - left) /\ pos = s[Count - left + 1]
      BY <1>0 DEF IInv, Measured
    <3>3. PICK k \in Nat : k = Count - left
      BY <1>0, <3>1
    <3>4. PICK q \in Nat, r \in Nat : q = pos /\ r = RecordEnd(pos)
      BY <1>0, <1>2
    <3>5. PICK t : Chain(t, k + 1) /\ t[k + 2] = r
      <4>1. Chain(s, k) /\ s[k + 1] = q /\ r = RecordEnd(q) /\ q <= r
        BY <1>2, <3>2, <3>3, <3>4
      <4> QED
        BY <4>1, ChainExtend
    <3>6. Chain(t, k + 1)'
      BY <2>1, <3>5, SameChain DEF Same
    <3>7. Count' = Count
      BY <2>1, SameCount DEF Same
    <3>8. Count' - left' = k + 1 /\ left' <= Count' /\ (Count' - left') + 1 = k + 2
      BY <1>0, <2>1, <3>1, <3>3, <3>7
    <3>9. pos' = t[k + 2]
      BY <2>1, <3>4, <3>5
    <3> QED
      BY <3>6, <3>8, <3>9 DEF Measured
  <2>6. Copied'
    BY <1>0, <2>1 DEF Copied
  <2>7. FunctionsSound'
    BY <1>0, <2>1 DEF IInv, FunctionsSound
  <2> QED
    BY <2>2, <2>4, <2>5, <2>6, <2>7 DEF IInv
<1> QED
  BY <1>5, <1>6

LEMMA MeasureEndKeeps == ASSUME IInv, MeasureEnd PROVE IInv'
<1>0. /\ FileOK /\ reach' = reach /\ reach \in Nat /\ Size \in Nat /\ pos \in Nat /\ end \in Nat
      /\ first \in Nat /\ left = 0 /\ end <= Size /\ pc = "measure" /\ first >= 4
      /\ reach <= Size + 4 /\ (reach <= Size \/ pos > end)
  <2>1. Len(file) \in Nat
    BY DEF IInv, TypeOK, FileOK
  <2> QED
    BY <2>1 DEF MeasureEnd, IInv, TypeOK, Inside, Size, HeaderLen
<1>1. CASE pos # end
  BY <1>0, <1>1, FailKeeps DEF MeasureEnd
<1>2. CASE pos = end
  <2>1. /\ Same /\ pos' = first /\ left' = Count /\ pc' = "copy"
        /\ UNCHANGED <<end, first, entry, names, functions, bytecode>>
    BY <1>2 DEF MeasureEnd, Same, vm, Count
  <2>2. Count \in Nat
    <3>1. first - 4 \in Nat
      BY <1>0
    <3> QED
      BY <1>0, <3>1, Numbers DEF Count
  <2>3. TypeOK'
    BY <1>0, <2>1, <2>2 DEF IInv, TypeOK, FileOK, Stages, Same
  <2>4. PICK s : Chain(s, Count) /\ s[Count + 1] = end
    <3>1. PICK s : Chain(s, Count - left) /\ pos = s[Count - left + 1]
      BY <1>0 DEF IInv, Measured
    <3>2. Count - left = Count /\ Count - left + 1 = Count + 1
      BY <1>0, <2>2
    <3> QED
      BY <1>2, <3>1, <3>2
  <2>5. s[1] = first /\ first <= end
    <3>1. CASE Count = 0
      BY <1>0, <2>4, <3>1 DEF Chain
    <3>2. CASE Count # 0
      BY <2>2, <2>4, <3>2 DEF Chain
    <3> QED
      BY <3>1, <3>2
  <2>6. Inside'
    BY <1>0, <1>2, <2>1, <2>5, SameSize DEF Inside, Same
  <2>7. Copied'
    <3>1. PICK c \in Nat : c = Count
      BY <2>2
    <3>2. Count' = c /\ left' = c
      BY <2>1, <3>1, SameCount DEF Same
    <3>3. Chain(s, c)' /\ s[c + 1] = end'
      BY <2>1, <2>4, <3>1, SameChain DEF Same
    <3>4. left' <= Count' /\ (Count' - left') + 1 = 1 /\ pos' = s[1]
      <4>1. (c - c) + 1 = 1
        OBVIOUS
      <4> QED
        BY <2>1, <2>5, <3>2, <4>1
    <3> QED
      BY <3>2, <3>3, <3>4 DEF Copied
  <2>8. Measured'
    BY <2>1 DEF Measured
  <2>9. FunctionsSound'
    BY <1>0, <2>1 DEF IInv, FunctionsSound
  <2> QED
    BY <2>3, <2>6, <2>7, <2>8, <2>9 DEF IInv
<1> QED
  BY <1>1, <1>2

\* A function is sound for n names and m bytes of code.
SoundIn(f, n, m) ==
  /\ f.name_index < n
  /\ Len(f.param_names) <= f.locals_count
  /\ f.posonly_count <= Len(f.param_names) /\ f.defaults_count <= Len(f.param_names)
  /\ f.vararg_slot # NoSlot => f.vararg_slot < f.locals_count
  /\ f.kwarg_slot # NoSlot => f.kwarg_slot < f.locals_count
  /\ \A i \in 1..Len(f.kwonly_slots) : f.kwonly_slots[i] < f.locals_count
  /\ \A i \in 1..Len(f.cell_slots) : f.cell_slots[i] < f.locals_count
  /\ \A i \in 1..Len(f.param_names) : f.param_names[i] < n
  /\ \A i \in 1..Len(f.kwonly_names) : f.kwonly_names[i] < n
  /\ \A i \in 1..Len(f.free_names) : f.free_names[i] < n
  /\ f.code_offset + f.code_len <= m

LEMMA SoundGrows ==
  ASSUME NEW f \in FunctionSet, NEW n, NEW m \in Nat, NEW m2 \in Nat, m <= m2, SoundIn(f, n, m)
  PROVE SoundIn(f, n, m2)
<1>1. f.code_offset \in Nat /\ f.code_len \in Nat
  BY DEF FunctionSet
<1>2. f.code_offset + f.code_len <= m2
  <2>1. f.code_offset + f.code_len <= m
    BY DEF SoundIn
  <2> QED
    BY <1>1, <2>1
<1> QED
  BY <1>2 DEF SoundIn

LEMMA TablesBelow ==
  ASSUME FileOK, NEW p \in Nat, NEW n \in Nat, NEW m
  PROVE /\ Len(Table32(p, n)) = n /\ Len(Table16(p, n)) = n
        /\ (\A i \in 1..n : Nth32(p, i) < m) => \A i \in 1..n : Table32(p, n)[i] < m
        /\ (\A i \in 1..n : Nth16(p, i) < m) => \A i \in 1..n : Table16(p, n)[i] < m
<1>1. /\ Len(Table32(p, n)) = n /\ Len(Table16(p, n)) = n
      /\ \A i \in 1..n : Table16(p, n)[i] = Nth16(p, i) /\ Table32(p, n)[i] = Nth32(p, i)
  BY Tables
<1> QED
  BY <1>1

LEMMA ConcatIn ==
  ASSUME NEW S, NEW a \in Seq(S), NEW b \in Seq(S)
  PROVE a \o b \in Seq(S) /\ Len(a \o b) = Len(a) + Len(b)
  OBVIOUS

LEMMA RecordSound ==
  ASSUME FileOK, NEW p \in Nat, RecordOk(p)
  PROVE SoundIn(RecordAt(p), Len(names), Len(bytecode) + U32(CodeLen(p)))
<1> DEFINE f == RecordAt(p)
<1>1. /\ NumParams(p) \in Nat /\ NumKwonly(p) \in Nat /\ NumCells(p) \in Nat /\ NumFree(p) \in Nat
  BY Fields
<1>2. /\ ParamNames(p) \in Nat /\ KwonlyNames(p) \in Nat /\ KwonlySlots(p) \in Nat
      /\ CellSlots(p) \in Nat /\ FreeNames(p) \in Nat
  BY Places
<1>3. /\ f.name_index = NameIndex(p) /\ f.locals_count = NumLocals(p)
      /\ f.posonly_count = Posonly(p) /\ f.defaults_count = Defaults(p)
      /\ f.vararg_slot = Vararg(p) /\ f.kwarg_slot = Kwarg(p)
      /\ f.param_names = Table32(ParamNames(p), NumParams(p))
      /\ f.kwonly_names = Table32(KwonlyNames(p), NumKwonly(p))
      /\ f.kwonly_slots = Table16(KwonlySlots(p), NumKwonly(p))
      /\ f.cell_slots = Table16(CellSlots(p), NumCells(p))
      /\ f.free_names = Table32(FreeNames(p), NumFree(p))
      /\ f.code_offset = Len(bytecode) /\ f.code_len = U32(CodeLen(p))
  BY DEF RecordAt
<1> HIDE DEF f
<1>4. /\ NameIndex(p) < Len(names)
      /\ NumParams(p) <= NumLocals(p) /\ Defaults(p) <= NumParams(p) /\ Posonly(p) <= NumParams(p)
      /\ Vararg(p) = NoSlot \/ Vararg(p) < NumLocals(p)
      /\ Kwarg(p) = NoSlot \/ Kwarg(p) < NumLocals(p)
  BY DEF RecordOk, FixedSound
<1>5. /\ \A i \in 1..NumParams(p) : Nth32(ParamNames(p), i) < Len(names)
      /\ \A i \in 1..NumKwonly(p) : Nth32(KwonlyNames(p), i) < Len(names)
      /\ \A i \in 1..NumKwonly(p) : Nth16(KwonlySlots(p), i) < NumLocals(p)
      /\ \A i \in 1..NumCells(p) : Nth16(CellSlots(p), i) < NumLocals(p)
      /\ \A i \in 1..NumFree(p) : Nth32(FreeNames(p), i) < Len(names)
  BY DEF RecordOk, TablesSound
<1>6. /\ Len(f.param_names) = NumParams(p)
      /\ \A i \in 1..NumParams(p) : f.param_names[i] < Len(names)
  <2>1. /\ Len(Table32(ParamNames(p), NumParams(p))) = NumParams(p)
        /\ \A i \in 1..NumParams(p) : Table32(ParamNames(p), NumParams(p))[i] < Len(names)
    BY <1>1, <1>2, <1>5, TablesBelow
  <2> QED
    BY <1>3, <2>1
<1>7. /\ Len(f.kwonly_names) = NumKwonly(p)
      /\ \A i \in 1..NumKwonly(p) : f.kwonly_names[i] < Len(names)
  <2>1. /\ Len(Table32(KwonlyNames(p), NumKwonly(p))) = NumKwonly(p)
        /\ \A i \in 1..NumKwonly(p) : Table32(KwonlyNames(p), NumKwonly(p))[i] < Len(names)
    BY <1>1, <1>2, <1>5, TablesBelow
  <2> QED
    BY <1>3, <2>1
<1>8. /\ Len(f.kwonly_slots) = NumKwonly(p)
      /\ \A i \in 1..NumKwonly(p) : f.kwonly_slots[i] < f.locals_count
  <2>1. /\ Len(Table16(KwonlySlots(p), NumKwonly(p))) = NumKwonly(p)
        /\ \A i \in 1..NumKwonly(p) : Table16(KwonlySlots(p), NumKwonly(p))[i] < NumLocals(p)
    BY <1>1, <1>2, <1>5, TablesBelow
  <2> QED
    BY <1>3, <2>1
<1>9. /\ Len(f.cell_slots) = NumCells(p)
      /\ \A i \in 1..NumCells(p) : f.cell_slots[i] < f.locals_count
  <2>1. /\ Len(Table16(CellSlots(p), NumCells(p))) = NumCells(p)
        /\ \A i \in 1..NumCells(p) : Table16(CellSlots(p), NumCells(p))[i] < NumLocals(p)
    BY <1>1, <1>2, <1>5, TablesBelow
  <2> QED
    BY <1>3, <2>1
<1>10. /\ Len(f.free_names) = NumFree(p)
       /\ \A i \in 1..NumFree(p) : f.free_names[i] < Len(names)
  <2>1. /\ Len(Table32(FreeNames(p), NumFree(p))) = NumFree(p)
        /\ \A i \in 1..NumFree(p) : Table32(FreeNames(p), NumFree(p))[i] < Len(names)
    BY <1>1, <1>2, <1>5, TablesBelow
  <2> QED
    BY <1>3, <2>1
<1>11. f.code_offset + f.code_len <= Len(bytecode) + U32(CodeLen(p))
  <2>1. CodeLen(p) \in Nat /\ U32(CodeLen(p)) \in Nat
    BY Places
  <2>2. f.code_offset + f.code_len = Len(bytecode) + U32(CodeLen(p))
    BY <1>3
  <2>3. Len(bytecode) + U32(CodeLen(p)) \in Int
    BY <2>1, <1>3
  <2> QED
    BY <2>2, <2>3
<1>12. SoundIn(f, Len(names), Len(bytecode) + U32(CodeLen(p)))
  BY <1>3, <1>4, <1>6, <1>7, <1>8, <1>9, <1>10, <1>11 DEF SoundIn
<1> QED
  BY <1>12 DEF f

LEMMA CopyKeeps == ASSUME IInv, CopyRecord PROVE IInv'
<1>0. /\ FileOK /\ reach \in Nat /\ Size \in Nat /\ pos \in Nat /\ end \in Nat /\ first \in Nat
      /\ left \in Nat /\ left > 0 /\ end <= Size /\ pc = "copy" /\ first >= 4
      /\ reach <= Size /\ pos <= end
  <2>1. Len(file) \in Nat
    BY DEF IInv, TypeOK, FileOK
  <2> QED
    BY <2>1 DEF CopyRecord, IInv, TypeOK, Inside, Size, HeaderLen
<1>1. /\ Code(pos) \in Nat /\ RecordEnd(pos) \in Nat /\ pos <= Code(pos)
      /\ Code(pos) <= RecordEnd(pos)
  BY <1>0, RecordGrows
<1>2. Count \in Nat
  <2>1. first - 4 \in Nat
    BY <1>0
  <2> QED
    BY <1>0, <2>1, Numbers DEF Count
<1>3. /\ left <= Count
      /\ \E s : Chain(s, Count) /\ s[Count + 1] = end /\ pos = s[Count - left + 1]
  BY <1>0 DEF IInv, Copied
<1>4. PICK s : Chain(s, Count) /\ s[Count + 1] = end /\ pos = s[Count - left + 1]
  BY <1>3
<1>5. PICK i \in 1..Count : i = Count - left + 1
  BY <1>0, <1>2, <1>3
<1>6. s[i + 1] = RecordEnd(pos) /\ s[i + 1] <= end
  BY <1>4, <1>5 DEF Chain
<1>7. RecordReach(pos) \in Nat /\ RecordReach(pos) <= end
  <2>1. Code(pos) <= end
    BY <1>0, <1>1, <1>6
  <2> QED
    BY <1>0, <2>1, ReachOfRecord
<1>8. reach' \in Nat /\ reach' <= Size
  BY <1>0, <1>1, <1>6, <1>7 DEF CopyRecord, Read, Larger
<1>9. CASE ~RecordOk(pos)
  <2>1. Fail("BOUNDS")
    BY <1>9 DEF CopyRecord
  <2> QED
    BY <1>0, <1>8, <2>1, FailKeeps
<1>10. CASE RecordOk(pos)
  <2>1. /\ Same /\ pos' = RecordEnd(pos) /\ left' = left - 1
        /\ bytecode' = bytecode \o Bytes(Code(pos), U32(CodeLen(pos)))
        /\ functions' = Append(functions, RecordAt(pos))
        /\ UNCHANGED <<pc, end, first, entry, names>>
    BY <1>10 DEF CopyRecord, Same
  <2>2. /\ functions \in Seq(FunctionSet) /\ bytecode \in Seq(0..255)
        /\ \A j \in 1..Len(functions) : FunctionSound(functions[j])
    BY DEF IInv, TypeOK, FunctionsSound
  <2>3. PICK c \in Nat : c = U32(CodeLen(pos))
    BY <1>0, Places
  <2>4. bytecode' \in Seq(0..255) /\ Len(bytecode') = Len(bytecode) + c
    <3>1. Bytes(Code(pos), c) \in Seq(0..255) /\ Len(Bytes(Code(pos), c)) = c
      BY <1>0, <1>1, BytesOf
    <3> QED
      BY <2>1, <2>2, <2>3, <3>1, ConcatIn
  <2>5. PICK f \in FunctionSet : f = RecordAt(pos)
    BY <1>0, <2>2, RecordIn
  <2>6. functions' \in Seq(FunctionSet)
    BY <2>1, <2>2, <2>5
  <2>7. TypeOK'
    BY <1>0, <1>1, <1>8, <2>1, <2>4, <2>6 DEF IInv, TypeOK, FileOK, Stages, Same
  <2>8. Inside'
    BY <1>0, <1>1, <1>6, <1>8, <2>1, SameSize DEF Inside, Same
  <2>9. Copied'
    <3>1. PICK k \in Nat : k = Count
      BY <1>2
    <3>2. Count' = k
      BY <2>1, <3>1, SameCount DEF Same
    <3>3. Chain(s, k)'
      BY <1>4, <2>1, <3>1, SameChain DEF Same
    <3>4. s[k + 1] = end' /\ pos' = s[i + 1]
      BY <1>4, <1>6, <2>1, <3>1
    <3>5. left' <= k /\ k - left' + 1 = i + 1
      BY <1>0, <1>3, <1>5, <2>1, <3>1
    <3> QED
      BY <3>2, <3>3, <3>4, <3>5 DEF Copied
  <2>10. Measured'
    BY <1>0, <2>1 DEF Measured
  <2>11. FunctionsSound'
    <3>1. PICK n, m \in Nat : n = Len(names) /\ m = Len(bytecode)
      <4>1. Len(bytecode) \in Nat
        BY <2>2
      <4> QED
        BY <4>1
    <3>2. SoundIn(f, n, m + c)
      BY <1>0, <1>10, <2>3, <2>5, <3>1, RecordSound
    <3>3. ASSUME NEW j \in 1..Len(functions')
          PROVE SoundIn(functions'[j], n, m + c)
      <4>1. CASE j \in 1..Len(functions)
        <5>1. functions'[j] = functions[j]
          BY <2>1, <2>2, <4>1
        <5>2. PICK g : g = functions[j]
          OBVIOUS
        <5>3. g \in FunctionSet
          BY <2>2, <4>1, <5>2, ElementIn
        <5>4. SoundIn(g, n, m)
          BY <2>2, <3>1, <4>1, <5>2 DEF FunctionSound, SoundIn
        <5>5. m + c \in Nat /\ m <= m + c
          OBVIOUS
        <5> QED
          BY <5>1, <5>2, <5>3, <5>4, <5>5, SoundGrows
      <4>2. CASE j = Len(functions) + 1
        BY <2>1, <2>2, <2>5, <3>2, <4>2
      <4>3. Len(functions') = Len(functions) + 1
        BY <2>1, <2>2
      <4> QED
        BY <2>2, <4>1, <4>2, <4>3
    <3>4. n = Len(names)' /\ m + c = Len(bytecode)'
      BY <2>1, <2>4, <3>1
    <3>5. \A j \in 1..Len(functions') : FunctionSound(functions[j])'
      BY <3>3, <3>4 DEF FunctionSound, SoundIn
    <3> QED
      BY <1>0, <2>1, <3>5 DEF FunctionsSound
  <2> QED
    BY <2>7, <2>8, <2>9, <2>10, <2>11 DEF IInv
<1> QED
  BY <1>9, <1>10

LEMMA SourceKeeps == ASSUME IInv, SourceName PROVE IInv'
<1>0. /\ FileOK /\ reach \in Nat /\ Size \in Nat /\ pos \in Nat /\ pc = "source"
      /\ reach <= Size /\ pos <= Size
  <2>1. Len(file) \in Nat
    BY DEF IInv, TypeOK, FileOK
  <2> QED
    BY <2>1 DEF SourceName, IInv, TypeOK, Inside, Size, HeaderLen
<1>1. U32(pos + 1) \in Nat
  BY <1>0, Numbers
<1>2. CASE ~SourceOk
  <2>1. Fail("BOUNDS")
    BY <1>2 DEF SourceName
  <2>2. reach' \in Nat /\ reach' <= Size
    BY <1>0, <1>2 DEF SourceName, Read, Larger
  <2> QED
    BY <1>0, <2>1, <2>2, FailKeeps
<1>3. CASE SourceOk
  <2>1. /\ Same /\ pos' = Size /\ pc' = "loaded" /\ reach' = Larger(reach, pos + 5 + U32(pos + 1))
        /\ UNCHANGED <<end, left, first, entry, names, functions, bytecode>>
    BY <1>3 DEF SourceName, Same, Read
  <2>2. reach' = Size
    <3>1. pos + 5 + U32(pos + 1) = Size
      BY <1>0, <1>1, <1>3 DEF SourceOk
    <3> QED
      BY <1>0, <2>1, <3>1 DEF Larger
  <2>3. TypeOK'
    BY <1>0, <2>1, <2>2 DEF IInv, TypeOK, FileOK, Stages, Same
  <2>4. Inside'
    BY <1>0, <2>1, <2>2, SameSize DEF Inside, Same
  <2>5. Measured' /\ Copied'
    BY <2>1 DEF Measured, Copied
  <2>6. FunctionsSound'
    <3>1. \A i \in 1..Len(functions') : FunctionSound(functions[i])'
      BY <2>1 DEF IInv, FunctionsSound, FunctionSound
    <3>2. entry' < Len(functions')
      BY <1>3, <2>1 DEF SourceOk
    <3> QED
      BY <2>1, <3>1, <3>2 DEF FunctionsSound
  <2> QED
    BY <2>3, <2>4, <2>5, <2>6 DEF IInv
<1> QED
  BY <1>2, <1>3

LEMMA NoMemoryKeeps == ASSUME IInv, NoMemory PROVE IInv'
<1>1. reach' = reach /\ reach \in Nat /\ (reach > 0 => reach <= Size + 4)
  BY DEF NoMemory, IInv, TypeOK, Inside
<1> QED
  BY <1>1, FailKeeps DEF NoMemory

\* The invariant is inductive: one case for each action.
LEMMA NextKeeps == IInv /\ [Next]_vars => IInv'
<1> SUFFICES ASSUME IInv, [Next]_vars PROVE IInv'
  OBVIOUS
<1>1. CASE Header
  BY <1>1, HeaderKeeps
<1>2. CASE EntryIndex
  BY <1>2, EntryKeeps
<1>3. CASE ConstantsHead \/ NamesHead \/ FunctionsHead
  BY <1>3, HeadKeeps DEF ConstantsHead, NamesHead, FunctionsHead
<1>4. CASE Constant
  BY <1>4, ConstantKeeps
<1>5. CASE Name
  BY <1>5, NameKeeps
<1>6. CASE ConstantsEnd \/ NamesEnd \/ FunctionsEnd
  BY <1>6, EndKeeps DEF ConstantsEnd, NamesEnd, FunctionsEnd
<1>7. CASE MeasureRecord
  BY <1>7, MeasureKeeps
<1>8. CASE MeasureEnd
  BY <1>8, MeasureEndKeeps
<1>9. CASE CopyRecord
  BY <1>9, CopyKeeps
<1>10. CASE SourceName
  BY <1>10, SourceKeeps
<1>11. CASE NoMemory
  BY <1>11, NoMemoryKeeps
<1>12. CASE UNCHANGED vars
  <2>1. /\ Same /\ pc' = pc /\ reach' = reach
        /\ UNCHANGED <<pos, end, left, first, entry, names, functions, bytecode>>
    BY <1>12 DEF vars, vm, Same
  <2>2. TypeOK'
    BY <2>1 DEF IInv, TypeOK, FileOK, Same
  <2>3. Inside'
    BY <2>1, SameSize DEF IInv, Inside, Same
  <2>4. Count' = Count
    BY <2>1, SameCount DEF Same
  <2>5. Measured'
    <3> SUFFICES ASSUME pc = "measure" PROVE Measured'
      BY <2>1 DEF Measured
    <3>1. left <= Count
      BY DEF IInv, Measured
    <3>2. PICK s : Chain(s, Count - left) /\ pos = s[Count - left + 1]
      BY DEF IInv, Measured
    <3>3. PICK c, l : c = Count /\ l = left
      OBVIOUS
    <3>4. Chain(s, c - l)'
      BY <2>1, <3>2, <3>3, SameChain DEF Same
    <3>5. left' = l /\ Count' = c /\ pos' = s[c - l + 1] /\ left' <= Count'
      BY <2>1, <2>4, <3>1, <3>2, <3>3
    <3> QED
      BY <3>4, <3>5 DEF Measured
  <2>6. Copied'
    <3> SUFFICES ASSUME pc = "copy" PROVE Copied'
      BY <2>1 DEF Copied
    <3>1. left <= Count
      BY DEF IInv, Copied
    <3>2. PICK s : Chain(s, Count) /\ s[Count + 1] = end /\ pos = s[Count - left + 1]
      BY DEF IInv, Copied
    <3>3. PICK c, l : c = Count /\ l = left
      OBVIOUS
    <3>4. Chain(s, c)'
      BY <2>1, <3>2, <3>3, SameChain DEF Same
    <3>5. /\ left' = l /\ Count' = c /\ pos' = s[c - l + 1] /\ s[c + 1] = end' /\ left' <= Count'
      BY <2>1, <2>4, <3>1, <3>2, <3>3
    <3> QED
      BY <3>4, <3>5 DEF Copied
  <2>7. FunctionsSound'
    BY <2>1 DEF IInv, FunctionsSound, FunctionSound
  <2> QED
    BY <2>2, <2>3, <2>5, <2>6, <2>7 DEF IInv
<1> QED
  BY <1>1, <1>2, <1>3, <1>4, <1>5, <1>6, <1>7, <1>8, <1>9, <1>10, <1>11, <1>12 DEF Next

-----------------------------------------------------------------------------
(* The theorems *)

\* The invariant holds for files of any bytes.
THEOREM LoaderInvariant == Spec => []IInv
  BY InitIInv, NextKeeps, PTL DEF Spec

\* load_buffer reads nothing past the end of the file but the four bytes of a code
\* length that is not there, and what it loads is the whole file.
THEOREM StaysInside == Spec => []ReadsInside
<1>1. IInv => ReadsInside
  <2>1. Len(file) \in Nat /\ FileOK => Size \in Int
    BY DEF Size, HeaderLen
  <2> QED
    BY <2>1 DEF IInv, TypeOK, FileOK, Inside, ReadsInside
<1> QED
  BY <1>1, LoaderInvariant, PTL

\* Whatever the bytes of the file, a module that load_buffer accepts has its entry
\* among its functions, and every index, slot and length of these in its table.
THEOREM SoundWhenLoaded == Spec => []LoadedIsSound
<1>1. IInv => LoadedIsSound
  BY DEF IInv, FunctionsSound, LoadedIsSound
<1> QED
  BY <1>1, LoaderInvariant, PTL

-----------------------------------------------------------------------------
(* Executables *)

\* The bytes of a number.
Byte1(v) == v % 256
Byte2(v) == (v \div 256) % 256
Byte3(v) == (v \div 65536) % 256
Byte4(v) == v \div 16777216

\* A number below 2^30 is read as it was written.
LEMMA NumberRead ==
  ASSUME NEW v \in Nat, v < Large
  PROVE  /\ Number32(Byte1(v), Byte2(v), Byte3(v), Byte4(v)) = v
         /\ Byte1(v) \in 0..255 /\ Byte2(v) \in 0..255 /\ Byte3(v) \in 0..255 /\ Byte4(v) \in 0..255
         /\ Pack32(v) = <<Byte1(v), Byte2(v), Byte3(v), Byte4(v)>>
PROOF
<1>1. PICK a, w : a = v % 256 /\ w = v \div 256
  OBVIOUS
<1>2. v = a + 256 * w /\ a \in 0..255 /\ w \in Nat
  BY <1>1
<1>3. PICK b, x : b = w % 256 /\ x = w \div 256
  OBVIOUS
<1>4. w = b + 256 * x /\ b \in 0..255 /\ x \in Nat
  BY <1>2, <1>3
<1>5. PICK c, d : c = x % 256 /\ d = x \div 256
  OBVIOUS
<1>6. x = c + 256 * d /\ c \in 0..255 /\ d \in Nat
  BY <1>4, <1>5
<1>7. v = a + 256 * b + 65536 * c + 16777216 * d
  BY <1>2, <1>4, <1>6
<1>8. d < 64
  BY <1>2, <1>4, <1>6, <1>7 DEF Large
<1>9. v \div 65536 = x /\ v \div 16777216 = d
  BY <1>2, <1>4, <1>6
<1>10. Number32(a, b, c, d) = v
  BY <1>2, <1>4, <1>6, <1>7, <1>8 DEF Number32
<1>11. (v \div 256) % 256 = b /\ (v \div 65536) % 256 = c
  BY <1>1, <1>3, <1>5, <1>9
<1>12. d \in 0..255
  BY <1>6, <1>8
<1>13. Byte1(v) = a /\ Byte2(v) = b /\ Byte3(v) = c /\ Byte4(v) = d
  BY <1>1, <1>9, <1>5, <1>6, <1>11 DEF Byte1, Byte2, Byte3, Byte4
<1>14. Pack32(v) = <<Byte1(v), Byte2(v), Byte3(v), Byte4(v)>>
  BY DEF Pack32, Byte1, Byte2, Byte3, Byte4
<1> QED BY <1>2, <1>4, <1>6, <1>10, <1>12, <1>13, <1>14

\* w is x followed by y, of lengths j and k.
Joined(w, x, y, j, k) ==
  /\ w \in Seq(0..255) /\ Len(w) = j + k
  /\ \A i \in 1..j : w[i] = x[i]
  /\ \A i \in 1..k : w[j + i] = y[i]

LEMMA Joins ==
  ASSUME NEW x \in Seq(0..255), NEW y \in Seq(0..255)
  PROVE  Joined(x \o y, x, y, Len(x), Len(y))
PROOF
BY DEF Joined

\* The bytes of an executable: those of the stub, of the container and of the trailer.
Trailed(exe, c, ns, nc, n) ==
  /\ exe \in Seq(0..255) /\ Len(exe) = n + 16
  /\ \A i \in 1..nc : exe[ns + i] = c[i]
  /\ exe[n + 1] = Byte1(ns) /\ exe[n + 2] = Byte2(ns)
  /\ exe[n + 3] = Byte3(ns) /\ exe[n + 4] = Byte4(ns)
  /\ exe[n + 5] = 0 /\ exe[n + 6] = 0 /\ exe[n + 7] = 0 /\ exe[n + 8] = 0
  /\ exe[n + 9] = Byte1(nc) /\ exe[n + 10] = Byte2(nc)
  /\ exe[n + 11] = Byte3(nc) /\ exe[n + 12] = Byte4(nc)
  /\ exe[n + 13] = 67 /\ exe[n + 14] = 86 /\ exe[n + 15] = 77 /\ exe[n + 16] = 84

LEMMA PackedBytes ==
  ASSUME NEW s \in Seq(0..255), NEW c \in Seq(0..255), NEW ns \in Nat, NEW nc \in Nat, NEW n \in Nat,
         ns = Len(s), nc = Len(c), n = ns + nc, ns < Large, nc < Large
  PROVE  Trailed(PackExecutable(s, c), c, ns, nc, n)
PROOF
<1>1. PICK a1, a2, a3, a4 : /\ a1 = Byte1(ns) /\ a2 = Byte2(ns)
                            /\ a3 = Byte3(ns) /\ a4 = Byte4(ns)
  OBVIOUS
<1>2. PICK b1, b2, b3, b4 : /\ b1 = Byte1(nc) /\ b2 = Byte2(nc)
                            /\ b3 = Byte3(nc) /\ b4 = Byte4(nc)
  OBVIOUS
<1>3. a1 \in 0..255 /\ a2 \in 0..255 /\ a3 \in 0..255 /\ a4 \in 0..255
  BY <1>1, NumberRead
<1>4. b1 \in 0..255 /\ b2 \in 0..255 /\ b3 \in 0..255 /\ b4 \in 0..255
  BY <1>2, NumberRead
<1>5. PICK p : p = <<a1, a2, a3, a4>>
  OBVIOUS
<1>6. PICK q : q = <<b1, b2, b3, b4>>
  OBVIOUS
<1>7. PICK z : z = <<0, 0, 0, 0>>
  OBVIOUS
<1>8. PICK t : t = <<67, 86, 77, 84>>
  OBVIOUS
<1>9. p \in Seq(0..255) /\ Len(p) = 4 /\ p[1] = a1 /\ p[2] = a2 /\ p[3] = a3 /\ p[4] = a4
  BY <1>3, <1>5
<1>10. q \in Seq(0..255) /\ Len(q) = 4 /\ q[1] = b1 /\ q[2] = b2 /\ q[3] = b3 /\ q[4] = b4
  BY <1>4, <1>6
<1>11. z \in Seq(0..255) /\ Len(z) = 4 /\ z[1] = 0 /\ z[2] = 0 /\ z[3] = 0 /\ z[4] = 0
  BY <1>7
<1>12. t \in Seq(0..255) /\ Len(t) = 4 /\ t[1] = 67 /\ t[2] = 86 /\ t[3] = 77 /\ t[4] = 84
  BY <1>8
<1>13. Pack32(0) = z
  BY <1>7 DEF Pack32
<1>14. Pack32(Len(s)) = p
  BY <1>1, <1>5, NumberRead
<1>15. Pack32(Len(c)) = q
  BY <1>2, <1>6, NumberRead
<1>16. PICK four, eight, n8, n12 \in Nat : four = 4 /\ eight = 8 /\ n8 = n + 8 /\ n12 = n + 12
  <2>1. 4 \in Nat /\ 8 \in Nat /\ n + 8 \in Nat /\ n + 12 \in Nat
    OBVIOUS
  <2> QED BY <2>1, Zenon
<1>17. PICK A : A = s \o c
  OBVIOUS
<1>18. A \in Seq(0..255) /\ Len(A) = n /\ \A i \in 1..nc : A[ns + i] = c[i]
  <2>1. Joined(A, s, c, ns, nc)
    BY <1>17, Joins
  <2> QED BY <2>1, Zenon DEF Joined
<1>19. PICK W : W = p \o z
  OBVIOUS
<1>20. /\ W \in Seq(0..255) /\ Len(W) = eight
       /\ W[1] = a1 /\ W[2] = a2 /\ W[3] = a3 /\ W[4] = a4
       /\ W[5] = 0 /\ W[6] = 0 /\ W[7] = 0 /\ W[8] = 0
  <2>1. /\ W \in Seq(0..255) /\ Len(W) = four + four
        /\ \A i \in 1..four : W[i] = p[i]
        /\ \A i \in 1..four : W[four + i] = z[i]
    <3>1. p \in Seq(0..255) /\ z \in Seq(0..255) /\ Len(p) = four /\ Len(z) = four
      BY <1>9, <1>11, <1>16
    <3>2. Joined(W, p, z, Len(p), Len(z))
      BY <3>1, <1>19, Joins
    <3> QED BY <3>1, <3>2, Zenon DEF Joined
  <2>2. W[four + 1] = z[1] /\ W[four + 2] = z[2] /\ W[four + 3] = z[3] /\ W[four + 4] = z[4]
    BY <2>1, <1>16
  <2>3. W[1] = p[1] /\ W[2] = p[2] /\ W[3] = p[3] /\ W[4] = p[4]
    BY <2>1, <1>16
  <2> QED BY <2>1, <2>2, <2>3, <1>9, <1>11, <1>16
<1>21. PICK B : B = A \o W
  OBVIOUS
<1>22. /\ B \in Seq(0..255) /\ Len(B) = n8
       /\ \A i \in 1..n : B[i] = A[i]
       /\ \A i \in 1..eight : B[n + i] = W[i]
  <2>1. n8 = n + eight
    BY <1>16
  <2>2. Joined(B, A, W, Len(A), Len(W))
    BY <1>18, <1>20, <1>21, Joins
  <2> QED BY <2>1, <2>2, <1>18, <1>20, Zenon DEF Joined
<1>23. PICK C : C = B \o q
  OBVIOUS
<1>24. /\ C \in Seq(0..255) /\ Len(C) = n12
       /\ \A i \in 1..n8 : C[i] = B[i]
       /\ \A i \in 1..four : C[n8 + i] = q[i]
  <2>1. n12 = n8 + four /\ Len(q) = four
    BY <1>10, <1>16
  <2>2. Joined(C, B, q, Len(B), Len(q))
    BY <1>10, <1>22, <1>23, Joins
  <2> QED BY <2>1, <2>2, <1>22, Zenon DEF Joined
<1>25. PICK e : e = C \o t
  OBVIOUS
<1>26. /\ e \in Seq(0..255) /\ Len(e) = n12 + four
       /\ \A i \in 1..n12 : e[i] = C[i]
       /\ \A i \in 1..four : e[n12 + i] = t[i]
  <2>1. Len(t) = four
    BY <1>12, <1>16
  <2>2. Joined(e, C, t, Len(C), Len(t))
    BY <1>12, <1>24, <1>25, Joins
  <2> QED BY <2>1, <2>2, <1>24, Zenon DEF Joined
<1>27. PackExecutable(s, c) = e
  BY <1>8, <1>13, <1>14, <1>15, <1>17, <1>19, <1>21, <1>23, <1>25, Zenon
     DEF PackExecutable, Pack64, Trailer
<1>28. \A i \in 1..nc : e[ns + i] = c[i]
  <2> SUFFICES ASSUME NEW i \in 1..nc PROVE e[ns + i] = c[i]
    OBVIOUS
  <2>1. PICK j : j = ns + i
    OBVIOUS
  <2>2. j \in 1..n /\ j \in 1..n8 /\ j \in 1..n12
    BY <2>1, <1>16
  <2>3. e[j] = C[j] /\ C[j] = B[j] /\ B[j] = A[j]
    BY <2>2, <1>22, <1>24, <1>26
  <2>4. A[ns + i] = c[i]
    BY <1>18
  <2> QED BY <2>1, <2>3, <2>4
<1>29. ASSUME NEW i \in 1..eight
       PROVE  e[n + i] = W[i]
  <2>1. PICK j : j = n + i
    OBVIOUS
  <2>2. j \in 1..n8 /\ j \in 1..n12
    BY <2>1, <1>16
  <2>3. e[j] = C[j] /\ C[j] = B[j]
    BY <2>2, <1>24, <1>26
  <2>4. B[n + i] = W[i]
    BY <1>22
  <2> QED BY <2>1, <2>3, <2>4
<1>30. /\ e[n + 1] = a1 /\ e[n + 2] = a2 /\ e[n + 3] = a3 /\ e[n + 4] = a4
       /\ e[n + 5] = 0 /\ e[n + 6] = 0 /\ e[n + 7] = 0 /\ e[n + 8] = 0
  BY <1>16, <1>20, <1>29
<1>31. ASSUME NEW i \in 1..four
       PROVE  e[n8 + i] = q[i]
  <2>1. PICK j : j = n8 + i
    OBVIOUS
  <2>2. j \in 1..n12
    BY <2>1, <1>16
  <2>3. e[j] = C[j]
    BY <2>2, <1>26
  <2>4. C[n8 + i] = q[i]
    BY <1>24
  <2> QED BY <2>1, <2>3, <2>4
<1>32. e[n + 9] = b1 /\ e[n + 10] = b2 /\ e[n + 11] = b3 /\ e[n + 12] = b4
  <2>1. n8 + 1 = n + 9 /\ n8 + 2 = n + 10 /\ n8 + 3 = n + 11 /\ n8 + 4 = n + 12
    BY <1>16
  <2>2. 1 \in 1..four /\ 2 \in 1..four /\ 3 \in 1..four /\ 4 \in 1..four
    BY <1>16
  <2>3. e[n8 + 1] = q[1] /\ e[n8 + 2] = q[2] /\ e[n8 + 3] = q[3] /\ e[n8 + 4] = q[4]
    BY <2>2, <1>31
  <2> QED BY <2>1, <2>3, <1>10
<1>33. e[n + 13] = 67 /\ e[n + 14] = 86 /\ e[n + 15] = 77 /\ e[n + 16] = 84
  <2>1. n12 + 1 = n + 13 /\ n12 + 2 = n + 14 /\ n12 + 3 = n + 15 /\ n12 + 4 = n + 16
    BY <1>16
  <2>2. 1 \in 1..four /\ 2 \in 1..four /\ 3 \in 1..four /\ 4 \in 1..four
    BY <1>16
  <2>3. e[n12 + 1] = t[1] /\ e[n12 + 2] = t[2] /\ e[n12 + 3] = t[3] /\ e[n12 + 4] = t[4]
    BY <2>2, <1>26
  <2> QED BY <2>1, <2>3, <1>12
<1>34. Len(e) = n + 16 /\ e \in Seq(0..255)
  BY <1>16, <1>26
<1> QED BY <1>1, <1>2, <1>27, <1>28, <1>30, <1>32, <1>33, <1>34 DEF Trailed

\* The part of a sequence from m to n.
LEMMA SubSequence ==
  ASSUME NEW S, NEW x \in Seq(S), NEW m \in Nat, NEW n \in Nat, 1 <= m, n <= Len(x)
  PROVE  SubSeq(x, m, n) \in Seq(S)
PROOF
<1>1. \A i \in m..n : x[i] \in S
  OBVIOUS
<1> QED BY <1>1, SubSeqProperties

\* u is the part of x after the first a bytes, k bytes long.
CutOf(u, x, a, k) == u \in Seq(0..255) /\ Len(u) = k /\ \A i \in 1..k : u[i] = x[a + i]

LEMMA Cut ==
  ASSUME NEW x \in Seq(0..255), NEW a \in Nat, NEW k \in Nat, a + k <= Len(x)
  PROVE  CutOf(SubSeq(x, a + 1, a + k), x, a, k)
PROOF
<1>1. PICK m, n \in Nat : m = a + 1 /\ n = a + k
  OBVIOUS
<1>2. SubSeq(x, m, n) \in Seq(0..255)
  <2>1. PICK B : B = 0..255
    OBVIOUS
  <2>2. x \in Seq(B) /\ 1 <= m /\ n <= Len(x)
    BY <1>1, <2>1
  <2>3. SubSeq(x, m, n) \in Seq(B)
    BY <2>2, SubSequence
  <2> QED BY <2>1, <2>3
<1>3. n - m + 1 = k /\ \A i \in 1..k : m + i - 1 = a + i
  BY <1>1
<1>4. m <= n \/ k = 0
  BY <1>1
<1>5. Len(SubSeq(x, m, n)) = k /\ \A i \in 1..k : SubSeq(x, m, n)[i] = x[a + i]
  BY <1>3, <1>4
<1> QED BY <1>1, <1>2, <1>5 DEF CutOf

\* main of the stub finds what pack.py packed.
LEMMA EmbeddedFound ==
  ASSUME NEW s \in Seq(0..255), NEW c \in Seq(0..255), Len(s) < Large, Len(c) < Large
  PROVE  Embedded(PackExecutable(s, c)) = <<"container", c>>
PROOF
<1>1. PICK exe : exe = PackExecutable(s, c)
  OBVIOUS
<1>2. PICK ns, nc \in Nat : ns = Len(s) /\ nc = Len(c) /\ ns < Large /\ nc < Large
  OBVIOUS
<1>4. PICK n \in Nat : n = ns + nc
  BY <1>2
<1>3. Trailed(exe, c, ns, nc, n)
  BY <1>1, <1>2, <1>4, PackedBytes
<1> DEFINE tail   == Len(exe) - TrailerSize
           at(i)  == exe[tail + i]
           offset == IF \E i \in 5..8 : at(i) # 0 THEN Large ELSE Number32(at(1), at(2), at(3), at(4))
           length == Number32(at(9), at(10), at(11), at(12))
<1>5. tail = n
  BY <1>3, <1>4 DEF TrailerSize, Trailed
<1>6. offset = ns
  <2>1. \A i \in 5..8 : at(i) = 0
    <3>1. at(5) = 0 /\ at(6) = 0 /\ at(7) = 0 /\ at(8) = 0
      BY <1>3, <1>5 DEF Trailed
    <3>2. PICK f : f = [i \in 5..8 |-> at(i)]
      OBVIOUS
    <3>3. \A i \in 5..8 : i = 5 \/ i = 6 \/ i = 7 \/ i = 8
      OBVIOUS
    <3> QED BY <3>1, <3>3, Zenon
  <2>2. offset = Number32(exe[n + 1], exe[n + 2], exe[n + 3], exe[n + 4])
    BY <2>1, <1>5, Zenon
  <2>3. Number32(Byte1(ns), Byte2(ns), Byte3(ns), Byte4(ns)) = ns
    BY <1>2, NumberRead
  <2> QED BY <2>2, <2>3, <1>3 DEF Trailed
<1>7. length = nc
  <2>1. length = Number32(exe[n + 9], exe[n + 10], exe[n + 11], exe[n + 12])
    BY <1>5, Zenon
  <2>2. Number32(Byte1(nc), Byte2(nc), Byte3(nc), Byte4(nc)) = nc
    BY <1>2, NumberRead
  <2> QED BY <2>1, <2>2, <1>3 DEF Trailed
<1>8. SubSeq(exe, n + 13, n + 16) = Trailer
  <2>1. PICK u : u = SubSeq(exe, n + 13, n + 16)
    OBVIOUS
  <2>2. u \in Seq(0..255) /\ Len(u) = 4 /\ \A i \in 1..4 : u[i] = exe[(n + 13) + i - 1]
    <3>1. exe \in Seq(0..255) /\ Len(exe) = n + 16
      BY <1>3 DEF Trailed
    <3>2. PICK at12, k \in Nat : at12 = n + 12 /\ k = 4
      BY <1>4
    <3>3. u = SubSeq(exe, at12 + 1, at12 + k) /\ at12 + k <= Len(exe)
      BY <2>1, <3>1, <3>2
    <3>4. u \in Seq(0..255) /\ Len(u) = k /\ \A i \in 1..k : u[i] = exe[at12 + i]
      <4>1. CutOf(SubSeq(exe, at12 + 1, at12 + k), exe, at12, k)
        BY <3>1, <3>3, Cut
      <4> QED BY <3>3, <4>1 DEF CutOf
    <3>5. \A i \in 1..4 : at12 + i = (n + 13) + i - 1
      BY <3>2, <1>4
    <3> QED BY <3>2, <3>4, <3>5
  <2>3. u[1] = 67 /\ u[2] = 86 /\ u[3] = 77 /\ u[4] = 84
    <3>1. exe[n + 13] = 67 /\ exe[n + 14] = 86 /\ exe[n + 15] = 77 /\ exe[n + 16] = 84
      BY <1>3 DEF Trailed
    <3>2. (n + 13) + 1 - 1 = n + 13 /\ (n + 13) + 2 - 1 = n + 14 /\ (n + 13) + 3 - 1 = n + 15
          /\ (n + 13) + 4 - 1 = n + 16
      BY <1>4
    <3> QED BY <2>2, <3>1, <3>2
  <2>4. u = <<67, 86, 77, 84>>
    BY <2>2, <2>3
  <2> QED BY <2>1, <2>4, Zenon DEF Trailer
<1>9. SubSeq(exe, ns + 1, ns + nc) = c
  <2>1. PICK u : u = SubSeq(exe, ns + 1, ns + nc)
    OBVIOUS
  <2>2. exe \in Seq(0..255) /\ Len(exe) = ns + nc + 16 /\ \A i \in 1..nc : exe[ns + i] = c[i]
    BY <1>3, <1>4 DEF Trailed
  <2>3. u \in Seq(0..255) /\ Len(u) = nc /\ \A i \in 1..nc : u[i] = exe[ns + i]
    <3>1. ns + nc <= Len(exe)
      BY <2>2, <1>2
    <3>2. CutOf(SubSeq(exe, ns + 1, ns + nc), exe, ns, nc)
      BY <2>2, <3>1, <1>2, Cut
    <3> QED BY <2>1, <3>2 DEF CutOf
  <2>4. \A i \in 1..nc : u[i] = c[i]
    BY <2>2, <2>3
  <2>5. u = c
    BY <2>3, <2>4, <1>2
  <2> QED BY <2>1, <2>5
<1>10. Embedded(exe) =
        IF tail < 0 THEN <<"too small">>
        ELSE IF SubSeq(exe, tail + 13, tail + 16) # Trailer THEN <<"bad magic">>
        ELSE IF offset > tail \/ length > tail - offset THEN <<"bad blob">>
        ELSE <<"container", SubSeq(exe, offset + 1, offset + length)>>
  BY Zenon DEF Embedded
<1> HIDE DEF tail, offset, length
<1>11. ~(length > tail - offset) /\ ~(offset > tail) /\ ~(tail < 0)
  BY <1>4, <1>5, <1>6, <1>7
<1>12. Embedded(exe) = <<"container", SubSeq(exe, offset + 1, offset + length)>>
  BY <1>5, <1>8, <1>10, <1>11, Zenon
<1> QED BY <1>1, <1>6, <1>7, <1>9, <1>12, Zenon

\* The stub finds in the executable the container that was packed, whatever their
\* bytes and their lengths, below 2^30 (pack.py, main of stub.c).
THEOREM PackedAlwaysFound == Spec => []PackedIsFound
PROOF
<1>1. ASSUME NEW f \in Files, NEW stub \in Stubs
      PROVE  Embedded(PackExecutable(stub, f)) = <<"container", f>>
  <2>1. f \in Seq(0..255) /\ stub \in Seq(0..255) /\ Len(f) < Large /\ Len(stub) < Large
    BY FilesAssumption, StubsAssumption, SizesAssumption
  <2> QED BY <2>1, EmbeddedFound
<1> DEFINE Chosen == file \in Files
<1>2. Init => Chosen
  BY DEF Init
<1>3. Chosen /\ [Next]_vars => Chosen'
  <2> SUFFICES ASSUME [Next]_vars PROVE file' = file
    OBVIOUS
  <2>1. CASE UNCHANGED vars
    BY <2>1 DEF vars
  <2>2. Header => file' = file
    BY Zenon DEF Header, Fail
  <2>3. EntryIndex => file' = file
    BY Zenon DEF EntryIndex, Fail
  <2>4. ConstantsHead => file' = file
    BY Zenon DEF ConstantsHead, SectionHead, Fail
  <2>5. Constant => file' = file
    BY Zenon DEF Constant, Fail
  <2>6. ConstantsEnd => file' = file
    BY Zenon DEF ConstantsEnd, SectionEnd, Fail
  <2>7. NamesHead => file' = file
    BY Zenon DEF NamesHead, SectionHead, Fail
  <2>8. Name => file' = file
    BY Zenon DEF Name, Fail
  <2>9. NamesEnd => file' = file
    BY Zenon DEF NamesEnd, SectionEnd, Fail
  <2>10. FunctionsHead => file' = file
    BY Zenon DEF FunctionsHead, SectionHead, Fail
  <2>11. MeasureRecord => file' = file
    BY Zenon DEF MeasureRecord, Fail
  <2>12. MeasureEnd => file' = file
    BY Zenon DEF MeasureEnd, Fail
  <2>13. CopyRecord => file' = file
    BY Zenon DEF CopyRecord, Fail
  <2>14. FunctionsEnd => file' = file
    BY Zenon DEF FunctionsEnd, SectionEnd, Fail
  <2>15. SourceName => file' = file
    BY Zenon DEF SourceName, Fail
  <2>16. NoMemory => file' = file
    BY Zenon DEF NoMemory, Fail
  <2> QED BY <2>1, <2>2, <2>3, <2>4, <2>5, <2>6, <2>7, <2>8, <2>9, <2>10, <2>11, <2>12, <2>13, <2>14, <2>15, <2>16 DEF Next
<1>4. Chosen => PackedIsFound
  BY <1>1 DEF PackedIsFound
<1> QED BY <1>2, <1>3, <1>4, PTL DEF Spec
=============================================================================
