------------------------------ MODULE Emitter ------------------------------
(***************************************************************************)
(* compiler/emitter.py: the code of one function while it is written.  A   *)
(* jump is written before the place it goes to is known; finalize fills    *)
(* the places in.  An instruction is a record whose field n is its         *)
(* operand; bytes, operand widths and line numbers are left out, labels    *)
(* are numbers.                                                            *)
(***************************************************************************)
EXTENDS Integers, SequencesExt

\* The code so far, the jumps to fill in, the places of the labels set, the
\* next new label.
NewEmitter == [code |-> << >>, fixups |-> << >>, labels |-> << >>, next |-> 1]

Emit(em, instructions) == [em EXCEPT !.code = @ \o instructions]

EmitJump(em, instruction, label) ==
  [Emit(em, <<instruction>>) EXCEPT
     !.fixups = Append(@, [offset |-> Len(em.code) + 1, label |-> label])]

NewLabels(em, n) == [em EXCEPT !.next = @ + n]

SetLabel(em, label) == [em EXCEPT !.labels = (label :> Len(em.code)) @@ @]

Finalize(em) ==
  FoldLeft(LAMBDA code, fixup : [code EXCEPT ![fixup.offset].n = em.labels[fixup.label]],
           em.code, em.fixups)
=============================================================================
