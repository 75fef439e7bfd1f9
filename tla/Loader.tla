------------------------------- MODULE Loader -------------------------------
(***************************************************************************)
(* load_buffer of vm_c/loader.c: a file of any bytes is read field by      *)
(* field, one action for the header, the head of a section, a constant, a  *)
(* name, a function record (twice: to measure the code, then to copy it)   *)
(* and the source name.  Any allocation may fail.                          *)
(*                                                                         *)
(* Offsets are those of the payload, from 0, in size bytes.  junk is the   *)
(* byte that is found past its end.                                        *)
(***************************************************************************)
EXTENDS Executable

CONSTANTS
  Files,     \* the files that may be loaded: sequences of bytes
  Junk,      \* the bytes that memory past the payload may hold
  Stubs      \* the stubs that a container may be packed behind

ASSUME FilesAssumption == \A f \in Files : f \in Seq(0..255)
ASSUME JunkAssumption  == Junk \subseteq 0..255
ASSUME StubsAssumption == \A stub \in Stubs : stub \in Seq(0..255)
ASSUME SizesAssumption == \A s \in Files \cup Stubs : Len(s) < Large

HeaderLen    == 52
MaxConstants == 65536
MaxNames     == 65535
MaxFunctions == 4096
MaxLines     == 1048576
NoSlot       == 65535

VARIABLES
  file, junk,
  pc,        \* the stage of load_buffer
  pos, end,  \* of the next byte and of the section it is in
  left,      \* how many constants, names or functions of the section are to come
  first,     \* where the first function record starts
  entry, constants, names, functions, bytecode, source,    \* the VM
  reach,     \* the end of the furthest byte that was read
  err

vm   == <<entry, constants, names, functions, bytecode, source>>
vars == <<file, junk, pc, pos, end, left, first, entry, constants, names, functions, bytecode,
          source, reach, err>>

Size == Len(file) - HeaderLen
At(p) == IF p < Size THEN file[HeaderLen + p + 1] ELSE junk

U8(p)  == At(p)
U16(p) == At(p) + 256 * At(p + 1)
U32(p) == Number32(At(p), At(p + 1), At(p + 2), At(p + 3))
Bytes(p, n) == [i \in 1..n |-> At(p + i - 1)]

\* The i-th number of a table of 16 or 32-bit numbers.
Nth16(p, i) == U16(p + 2 * (i - 1))
Nth32(p, i) == U32(p + 4 * (i - 1))
Table16(p, n) == [i \in 1..n |-> Nth16(p, i)]
Table32(p, n) == [i \in 1..n |-> Nth32(p, i)]

Larger(a, b) == IF a < b THEN b ELSE a

-----------------------------------------------------------------------------
Init ==
  /\ file \in Files
  /\ junk \in Junk
  /\ pc = "header"
  /\ pos = 0 /\ end = 0 /\ left = 0 /\ first = 0
  /\ entry = 0
  /\ constants = << >> /\ names = << >> /\ functions = << >>
  /\ bytecode = << >> /\ source = << >>
  /\ reach = 0
  /\ err = "OK"

Read(upto) == reach' = Larger(reach, upto)

\* What was built is released and the VM is left zeroed.
Fail(e) ==
  /\ pc' = "failed"
  /\ err' = e
  /\ entry' = 0
  /\ constants' = << >> /\ names' = << >> /\ functions' = << >>
  /\ bytecode' = << >> /\ source' = << >>
  /\ UNCHANGED <<file, junk, pos, end, left, first>>

\* The first 52 bytes, the same in every file but for two lengths.
HeaderLengths == file[9] + 256 * file[10] + 65536 * file[11] + 16777216 * (file[12] % 64)

HeaderError ==
  IF Len(file) < HeaderLen THEN "BOUNDS"
  ELSE IF SubSeq(file, 1, 4) # <<67, 86, 77, 50>> THEN "BAD_MAGIC"
  ELSE IF SubSeq(file, 5, 8) # <<5, 1, 0, 0>> THEN "VERSION"
  ELSE IF /\ SubSeq(file, 17, 24) = <<16, 0, 0, 0, 12, 0, 0, 0>>
          /\ SubSeq(file, 9, 12) = SubSeq(file, 13, 16)
          /\ HeaderLengths = Size /\ file[12] < 64 THEN "OK"
  ELSE "BOUNDS"

Header ==
  /\ pc = "header"
  /\ UNCHANGED reach
  /\ IF HeaderError # "OK" THEN Fail(HeaderError)
     ELSE pc' = "entry" /\ UNCHANGED <<file, junk, pos, end, left, first, vm, err>>

EntryIndex ==
  /\ pc = "entry"
  /\ IF Size < 4 THEN Fail("BOUNDS") /\ UNCHANGED reach
     ELSE /\ entry' = U32(0)
          /\ pos' = 4
          /\ pc' = "constants_head"
          /\ Read(4)
          /\ UNCHANGED <<file, junk, end, left, first, constants, names, functions, bytecode,
                         source, err>>

\* A section: its tag, its length, which the payload holds, and a count.
HeadOk(tag, least, most) ==
  /\ pos + 5 <= Size /\ U8(pos) = tag /\ U32(pos + 1) <= Size - (pos + 5)
  /\ 4 <= U32(pos + 1)
  /\ least <= U32(pos + 5) /\ U32(pos + 5) <= most

HeadReach == IF pos + 5 > Size THEN pos
             ELSE IF U32(pos + 1) > Size - (pos + 5) \/ U32(pos + 1) < 4 THEN pos + 5
             ELSE pos + 9

SectionHead(stage, tag, least, most, next) ==
  /\ pc = stage
  /\ Read(HeadReach)
  /\ IF ~HeadOk(tag, least, most) THEN Fail("BOUNDS")
     ELSE /\ pos' = pos + 9
          /\ end' = pos + 5 + U32(pos + 1)
          /\ left' = U32(pos + 5)
          /\ first' = pos + 9
          /\ pc' = next
          /\ UNCHANGED <<file, junk, vm, err>>

ConstantsHead == SectionHead("constants_head", 1, 0, MaxConstants, "constants")
NamesHead     == SectionHead("names_head", 2, 0, MaxNames, "names")
FunctionsHead == SectionHead("functions_head", 3, 1, MaxFunctions, "measure")

\* After the last item of a section nothing may be left of it.
SectionEnd(stage, next) ==
  /\ pc = stage /\ left = 0
  /\ UNCHANGED reach
  /\ IF pos # end THEN Fail("BOUNDS")
     ELSE pc' = next /\ UNCHANGED <<file, junk, pos, end, left, first, vm, err>>

-----------------------------------------------------------------------------
(* Constants in the order of the file: a tuple, then its items.  The width  *)
(* of a number, or of the length of text or of a tuple, follows the tag.    *)

FixedWidth(tag) == IF tag \in {0, 1, 2} THEN 0 ELSE IF tag \in {3, 4} THEN 8 ELSE 4

ConstantLen(p) ==
  1 + FixedWidth(U8(p)) + (IF U8(p) \in {5, 6} THEN U32(p + 1) ELSE 0)

ConstantOk ==
  /\ pos < end
  /\ U8(pos) \in 0..7
  /\ FixedWidth(U8(pos)) <= end - (pos + 1)
  /\ ConstantLen(pos) <= end - pos
  /\ U8(pos) = 7 => U32(pos + 1) <= MaxConstants

ConstantReach == IF pos >= end THEN pos
                 ELSE IF U8(pos) > 7 \/ FixedWidth(U8(pos)) > end - (pos + 1) THEN pos + 1
                 ELSE IF ConstantLen(pos) > end - pos THEN pos + 5
                 ELSE pos + ConstantLen(pos)

\* The string is made from its C string: it ends at the first NUL.
BeforeNul(s) ==
  LET nul == {i \in 1..Len(s) : s[i] = 0}
  IN SubSeq(s, 1, IF nul = {} THEN Len(s) ELSE (CHOOSE i \in nul : \A j \in nul : i <= j) - 1)

ConstantAt(p) ==
  LET tag == U8(p)
  IN CASE tag \in {0, 1, 2} -> <<tag>>
       [] tag \in {3, 4}    -> <<tag, Bytes(p + 1, 8)>>
       [] tag = 5           -> <<tag, BeforeNul(Bytes(p + 5, U32(p + 1)))>>
       [] tag = 6           -> <<tag, Bytes(p + 5, U32(p + 1))>>
       [] OTHER             -> <<tag, U32(p + 1)>>

Constant ==
  /\ pc = "constants" /\ left > 0
  /\ Read(ConstantReach)
  /\ IF ~ConstantOk THEN Fail("BOUNDS")
     ELSE /\ constants' = Append(constants, ConstantAt(pos))
          /\ pos' = pos + ConstantLen(pos)
          /\ left' = left - 1 + (IF U8(pos) = 7 THEN U32(pos + 1) ELSE 0)
          /\ UNCHANGED <<file, junk, pc, end, first, entry, names, functions, bytecode, source, err>>

ConstantsEnd == SectionEnd("constants", "names_head")

-----------------------------------------------------------------------------
NameOk == pos < end /\ U8(pos) <= end - (pos + 1)

Name ==
  /\ pc = "names" /\ left > 0
  /\ Read(IF pos >= end THEN pos ELSE IF NameOk THEN pos + 1 + U8(pos) ELSE pos + 1)
  /\ IF ~NameOk THEN Fail("BOUNDS")
     ELSE /\ names' = Append(names, Bytes(pos + 1, U8(pos)))
          /\ pos' = pos + 1 + U8(pos)
          /\ left' = left - 1
          /\ UNCHANGED <<file, junk, pc, end, first, entry, constants, functions, bytecode, source, err>>

NamesEnd == SectionEnd("names", "functions_head")

-----------------------------------------------------------------------------
(* A function record at p *)

NameIndex(p) == U32(p)
NumLocals(p) == U16(p + 4)
NumParams(p) == U16(p + 6)
Posonly(p)   == U16(p + 8)
Defaults(p)  == U16(p + 10)
NumKwonly(p) == U16(p + 12)
Vararg(p)    == U16(p + 14)
Kwarg(p)     == U16(p + 16)
NumCells(p)  == U16(p + 18)
NumFree(p)   == U16(p + 20)

ParamNames(p)  == p + 22
KwonlyNames(p) == ParamNames(p) + 4 * NumParams(p)
KwonlySlots(p) == KwonlyNames(p) + 4 * NumKwonly(p)
KwonlyFlags(p) == KwonlySlots(p) + 2 * NumKwonly(p)
CellSlots(p)   == KwonlyFlags(p) + NumKwonly(p)
FreeNames(p)   == CellSlots(p) + 2 * NumCells(p)
LineCount(p)   == FreeNames(p) + 4 * NumFree(p)
Lines(p)       == LineCount(p) + 4
CodeLen(p)     == Lines(p) + 8 * U32(LineCount(p))
Code(p)        == CodeLen(p) + 4
RecordEnd(p)   == Code(p) + U32(CodeLen(p))

FixedFits(p) == p <= end /\ 24 <= end - p

FaultyFixedSound(p) ==
  /\ NameIndex(p) < Len(names)
  /\ NumParams(p) <= NumLocals(p) /\ Defaults(p) <= NumParams(p) /\ Posonly(p) <= NumParams(p)

FixedSound(p) ==
  /\ NameIndex(p) < Len(names)
  /\ NumParams(p) <= NumLocals(p) /\ Defaults(p) <= NumParams(p) /\ Posonly(p) <= NumParams(p)
  /\ Vararg(p) = NoSlot \/ Vararg(p) < NumLocals(p)
  /\ Kwarg(p) = NoSlot \/ Kwarg(p) < NumLocals(p)

TablesFit(p) == LineCount(p) + 4 <= end

TablesSound(p) ==
  /\ \A i \in 1..NumParams(p) : Nth32(ParamNames(p), i) < Len(names)
  /\ \A i \in 1..NumKwonly(p) : Nth32(KwonlyNames(p), i) < Len(names)
  /\ \A i \in 1..NumKwonly(p) : Nth16(KwonlySlots(p), i) < NumLocals(p)
  /\ \A i \in 1..NumCells(p) : Nth16(CellSlots(p), i) < NumLocals(p)
  /\ \A i \in 1..NumFree(p) : Nth32(FreeNames(p), i) < Len(names)

LinesFit(p) == U32(LineCount(p)) <= MaxLines /\ 8 * U32(LineCount(p)) <= end - Lines(p)

\* code_len is read without asking whether it is there, and compared with what is left
\* in unsigned arithmetic: when it was not, any length passes.
CodeFits(p) == Code(p) > end \/ U32(CodeLen(p)) <= end - Code(p)

RecordOk(p) ==
  FixedFits(p) /\ FixedSound(p) /\ TablesFit(p) /\ TablesSound(p) /\ LinesFit(p) /\ CodeFits(p)

RecordReach(p) ==
  IF ~FixedFits(p) THEN 0
  ELSE IF ~FixedSound(p) \/ ~TablesFit(p) THEN p + 22
  ELSE IF ~TablesSound(p) THEN LineCount(p)
  ELSE IF ~LinesFit(p) THEN Lines(p)
  ELSE Code(p)

RecordAt(p) ==
  [name_index |-> NameIndex(p), locals_count |-> NumLocals(p), posonly_count |-> Posonly(p),
   defaults_count |-> Defaults(p), vararg_slot |-> Vararg(p), kwarg_slot |-> Kwarg(p),
   param_names |-> Table32(ParamNames(p), NumParams(p)),
   kwonly_names |-> Table32(KwonlyNames(p), NumKwonly(p)),
   kwonly_slots |-> Table16(KwonlySlots(p), NumKwonly(p)),
   kwonly_flags |-> Bytes(KwonlyFlags(p), NumKwonly(p)),
   cell_slots |-> Table16(CellSlots(p), NumCells(p)),
   free_names |-> Table32(FreeNames(p), NumFree(p)),
   lines |-> Table32(Lines(p), 2 * U32(LineCount(p))),
   code_offset |-> Len(bytecode), code_len |-> U32(CodeLen(p))]

\* The first pass adds up the lengths of the code.
MeasureRecord ==
  /\ pc = "measure" /\ left > 0
  /\ Read(RecordReach(pos))
  /\ IF ~RecordOk(pos) THEN Fail("BOUNDS")
     ELSE /\ pos' = RecordEnd(pos)
          /\ left' = left - 1
          /\ UNCHANGED <<file, junk, pc, end, first, vm, err>>

MeasureEnd ==
  /\ pc = "measure" /\ left = 0
  /\ UNCHANGED reach
  /\ IF pos # end THEN Fail("BOUNDS")
     ELSE /\ pos' = first
          /\ left' = U32(first - 4)
          /\ pc' = "copy"
          /\ UNCHANGED <<file, junk, end, first, vm, err>>

\* The second pass copies the code and the tables.
CopyRecord ==
  /\ pc = "copy" /\ left > 0
  /\ Read(IF RecordOk(pos) THEN RecordEnd(pos) ELSE RecordReach(pos))
  /\ IF ~RecordOk(pos) THEN Fail("BOUNDS")
     ELSE /\ bytecode' = bytecode \o Bytes(Code(pos), U32(CodeLen(pos)))
          /\ functions' = Append(functions, RecordAt(pos))
          /\ pos' = RecordEnd(pos)
          /\ left' = left - 1
          /\ UNCHANGED <<file, junk, pc, end, first, entry, constants, names, source, err>>

FunctionsEnd == SectionEnd("copy", "source")

-----------------------------------------------------------------------------
FaultySourceOk ==
  /\ Size - pos >= 5
  /\ U8(pos) = 4
  /\ U32(pos + 1) <= Size - pos - 5
  /\ entry < Len(functions)

\* The source name fills the rest, and the entry is a function.
SourceOk ==
  /\ Size - pos >= 5
  /\ U8(pos) = 4
  /\ U32(pos + 1) = Size - pos - 5
  /\ entry < Len(functions)

SourceName ==
  /\ pc = "source"
  /\ Read(IF SourceOk THEN pos + 5 + U32(pos + 1)
          ELSE IF pos = Size THEN pos ELSE IF Size - pos < 5 THEN pos + 1 ELSE pos + 5)
  /\ IF ~SourceOk THEN Fail("BOUNDS")
     ELSE /\ source' = Bytes(pos + 5, U32(pos + 1))
          /\ pos' = Size
          /\ pc' = "loaded"
          /\ UNCHANGED <<file, junk, end, left, first, entry, constants, names, functions, bytecode,
                         err>>

\* Any allocation may fail.
NoMemory ==
  /\ pc \notin {"loaded", "failed"}
  /\ UNCHANGED reach
  /\ Fail("OOM")

Next ==
  \/ Header \/ EntryIndex
  \/ ConstantsHead \/ Constant \/ ConstantsEnd
  \/ NamesHead \/ Name \/ NamesEnd
  \/ FunctionsHead \/ MeasureRecord \/ MeasureEnd \/ CopyRecord \/ FunctionsEnd
  \/ SourceName
  \/ NoMemory

Spec == Init /\ [][Next]_vars

-----------------------------------------------------------------------------
\* What vm_run and vm_call_user take for granted of one function.
FunctionSound(f) ==
  /\ f.name_index < Len(names)
  /\ Len(f.param_names) <= f.locals_count
  /\ f.posonly_count <= Len(f.param_names) /\ f.defaults_count <= Len(f.param_names)
  /\ f.vararg_slot # NoSlot => f.vararg_slot < f.locals_count
  /\ f.kwarg_slot # NoSlot => f.kwarg_slot < f.locals_count
  /\ \A i \in 1..Len(f.kwonly_slots) : f.kwonly_slots[i] < f.locals_count
  /\ \A i \in 1..Len(f.cell_slots) : f.cell_slots[i] < f.locals_count
  /\ \A i \in 1..Len(f.param_names) : f.param_names[i] < Len(names)
  /\ \A i \in 1..Len(f.kwonly_names) : f.kwonly_names[i] < Len(names)
  /\ \A i \in 1..Len(f.free_names) : f.free_names[i] < Len(names)
  /\ f.code_offset + f.code_len <= Len(bytecode)

\* Whatever the bytes of the file, a module that loads is one the VM can run: the
\* entry is a function, every index of every function is in its table, every slot is
\* a local and the code of every function is in the bytecode.
LoadedIsSound ==
  pc = "loaded" => entry < Len(functions) /\ \A i \in 1..Len(functions) : FunctionSound(functions[i])

\* Whatever the bytes of the file, nothing is read past its end but, in a file that
\* ends after a line table, the four bytes of a code length; no such file is executed,
\* and what is loaded is the whole file.
ReadsInside ==
  /\ reach > 0 => reach <= Size + 4
  /\ pc \in {"copy", "source"} => reach <= Size
  /\ pc = "loaded" => reach = Size

\* The stub finds in the executable exactly the container that was packed, whatever
\* the length of either and whatever their bytes (pack.py, main of stub.c).
PackedIsFound ==
  pc = "header" => \A stub \in Stubs : Embedded(PackExecutable(stub, file)) = <<"container", file>>
=============================================================================
