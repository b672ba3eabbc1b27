-------------------------- MODULE DeviceAssignment ---------------------------
(***************************************************************************)
(* compiler/passes/device_assignment.py: routes each operator to a device  *)
(* and inserts a DMA_LOAD row in front of the first NPU operator that      *)
(* reads a large constant; later NPU operators share the staged copy.      *)
(*                                                                         *)
(* A graph's operator list is a sequence of records [type, ins, outs] with *)
(* sequences of tensors; a lowered operator also has its device.  ConstSize*)
(* gives the byte size of the constant tensors and of no other.  A tensor  *)
(* is named by a tuple of strings, and the staging buffer of constant c by *)
(* Sram(c): the counter in the code's names only keeps them unique.        *)
(***************************************************************************)
EXTENDS Integers, Sequences, SequencesExt

CONSTANTS
  ConstSize,    \* function: constant tensor -> byte size
  DmaMinBytes   \* _DMA_MIN_BYTES

Tensor == Seq(STRING)

SourceOp == [type : STRING, ins : Seq(Tensor), outs : Seq(Tensor)]

ASSUME AssignmentAssumption ==
  /\ DmaMinBytes \in Nat
  /\ DOMAIN ConstSize \subseteq Tensor
  /\ \A c \in DOMAIN ConstSize : ConstSize[c] \in Nat

NpuOps == {"Conv", "MatMul", "MatMul_Add", "Conv_Relu", "Gemm_Relu"}

Sram(c) == <<"sram">> \o c

\* Mutant: an off-by-one at the threshold.
MutantIsStaged(t) == t \in DOMAIN ConstSize /\ ConstSize[t] > DmaMinBytes

\* The constants that an NPU operator reads through a staging buffer.
IsStaged(t) == t \in DOMAIN ConstSize /\ ConstSize[t] >= DmaMinBytes

LoadRow(c) ==
  [type |-> "DMA_LOAD", ins |-> <<c>>, outs |-> <<Sram(c)>>, device |-> "DMA"]

\* One input: reuse the buffer if the constant has one, otherwise insert its
\* load row.
Stage(acc, t) ==
  IF IsStaged(t) /\ t \notin acc.sram
  THEN [ops |-> Append(acc.ops, LoadRow(t)), sram |-> acc.sram \cup {t}]
  ELSE acc

StageInputs(acc, op) ==
  LET after[k \in 0 .. Len(op.ins)] ==
        IF k = 0 THEN acc ELSE Stage(after[k - 1], op.ins[k])
  IN  after[Len(op.ins)]

\* Mutant: every staged input is redirected to the buffer of the first one.
MutantOnNpu(op) ==
  [type |-> op.type, outs |-> op.outs, device |-> "NPU",
   ins |-> [k \in DOMAIN op.ins |->
              IF IsStaged(op.ins[k])
              THEN Sram(SelectSeq(op.ins, IsStaged)[1]) ELSE op.ins[k]]]

OnNpu(op) ==
  [type |-> op.type, outs |-> op.outs, device |-> "NPU",
   ins |-> [k \in DOMAIN op.ins |->
              IF IsStaged(op.ins[k]) THEN Sram(op.ins[k]) ELSE op.ins[k]]]

OnCpu(op) ==
  [type |-> op.type, outs |-> op.outs, device |-> "CPU", ins |-> op.ins]

AssignOp(acc, op) ==
  IF op.type \in NpuOps
  THEN LET staged == StageInputs(acc, op)
       IN  [staged EXCEPT !.ops = Append(@, OnNpu(op))]
  ELSE [acc EXCEPT !.ops = Append(@, OnCpu(op))]

\* run(graph)
AssignDevices(ops) ==
  LET after[k \in 0 .. Len(ops)] ==
        IF k = 0 THEN [ops |-> << >>, sram |-> {}]
        ELSE AssignOp(after[k - 1], ops[k])
  IN  after[Len(ops)].ops
=============================================================================
