----------------------------- MODULE Executable -----------------------------
(***************************************************************************)
(* Executables: numbers as bytes, what packer/pack.py appends to a stub,   *)
(* and how main of vm_c/stub.c finds it again.                             *)
(***************************************************************************)
EXTENDS Integers, Sequences

Large == 1073741824    \* a length that no file has

Pack8(v)  == <<v % 256>>
Pack16(v) == <<v % 256, v \div 256>>
Pack32(v) == <<v % 256, (v \div 256) % 256, (v \div 65536) % 256, v \div 16777216>>
Pack64(v) == Pack32(v) \o Pack32(0)

\* The number in four bytes.
Number32(a, b, c, d) == IF d >= 64 THEN Large ELSE a + 256 * b + 65536 * c + 16777216 * d

TrailerSize == 16
Trailer     == <<67, 86, 77, 84>>     \* "CVMT"

FaultyPackExecutable(stub, container) ==
  stub \o container \o Pack64(Len(stub) + Len(container)) \o Pack32(Len(container)) \o Trailer

\* pack.py: the stub, the container and a trailer that says where it is.
PackExecutable(stub, container) ==
  stub \o container \o Pack64(Len(stub)) \o Pack32(Len(container)) \o Trailer

\* main of the stub: the container that the trailer of an executable names.
Embedded(exe) ==
  LET tail   == Len(exe) - TrailerSize
      at(i)  == exe[tail + i]
      offset == IF \E i \in 5..8 : at(i) # 0 THEN Large ELSE Number32(at(1), at(2), at(3), at(4))
      length == Number32(at(9), at(10), at(11), at(12))
  IN IF tail < 0 THEN <<"too small">>
     ELSE IF SubSeq(exe, tail + 13, tail + 16) # Trailer THEN <<"bad magic">>
     ELSE IF offset > tail \/ length > tail - offset THEN <<"bad blob">>
     ELSE <<"container", SubSeq(exe, offset + 1, offset + length)>>
=============================================================================
