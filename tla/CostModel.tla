------------------------------ MODULE CostModel ------------------------------
(***************************************************************************)
(* compiler/passes/cost_model.py: the cycles a row is charged with, from   *)
(* the shapes of its operands and result, beside the kernel it is charged  *)
(* for.                                                                    *)
(***************************************************************************)
EXTENDS KernelMeaning

CONSTANTS
  ElemsPerCycle,   \* ELEMS_PER_CYCLE
  MacsPerCycle     \* MACS_PER_CYCLE

ASSUME RatesAssumption == ElemsPerCycle \in Nat \ {0} /\ MacsPerCycle \in Nat \ {0}

CeilDiv(a, b) == -((-a) \div b)

\* The product of the dimensions, each at least 1.
AtLeastOne(shape) == Numel([d \in DOMAIN shape |-> Max({shape[d], 1})])

\* M * K * N of a MatMul: the batch of the first operand only.
BatchedMacs(A, B) == AtLeastOne(Front(A)) * Last(A) * Last(B)

\* Mutant: transB is not looked at.
MutantGemmMacs(c) ==
  c.ins[1][1] * c.ins[1][2] * c.ins[2][2]

GemmMacs(c) ==
  c.ins[1][1] * c.ins[1][2] * (IF c.transB THEN c.ins[2][1] ELSE c.ins[2][2])

ConvMacs(c) ==
  c.out[1] * c.ins[2][1] * c.out[3] * c.out[4] * c.ins[2][2] * c.ins[2][3] * c.ins[2][4]

\* estimate_op
Estimate(c) ==
  CASE c.kernel \in Batched -> CeilDiv(BatchedMacs(c.ins[1], c.ins[2]), MacsPerCycle)
    [] c.kernel = "Gemm"    -> CeilDiv(GemmMacs(c), MacsPerCycle)
    [] c.kernel = "Conv"    -> CeilDiv(ConvMacs(c), MacsPerCycle)
    [] c.kernel \in {"MaxPool", "AveragePool"} ->
         CeilDiv(AtLeastOne(c.out) * c.window[1] * c.window[2], ElemsPerCycle)
    [] c.kernel = "ReduceMean" -> AtLeastOne(c.ins[1])
    [] c.kernel = "Softmax" -> AtLeastOne(c.ins[1]) * 3
    [] c.kernel = "Slice"   -> CeilDiv(AtLeastOne(c.out), ElemsPerCycle)
    [] OTHER                -> Max({1, CeilDiv(AtLeastOne(c.out), ElemsPerCycle)})

-----------------------------------------------------------------------------
(* Properties. *)

Multiplying == Batched \cup {"Gemm", "Conv"}

\* What an element of these terms has taken: products summed, or elements read, in
\* the passes that a Softmax makes over its input.
Effort(c, terms) ==
  IF c.kernel = "Softmax" THEN 3
  ELSE Cardinality(IF c.kernel \in Multiplying THEN {t \in terms : Len(t) = 2} ELSE terms)

Rate(c) == IF c.kernel \in Multiplying THEN MacsPerCycle ELSE ElemsPerCycle

\* What the kernel has done.
Work ==
  CeilDiv(FoldLeft(LAMBDA n, f : n + Effort(call, dst[f - 1]), 0,
                   [f \in 1 .. Numel(call.out) |-> f]),
          Rate(call))

\* The batch of a MatMul comes from its first operand; one that only the second
\* has is not charged (cost_model.py:71).
BatchOfFirst(c) ==
  c.kernel \in Batched =>
    Numel(BatchShape(c.out)) = Numel(BatchShape(c.ins[1]))

\* A row is charged with at least the multiplications or element accesses its
\* kernel performs, at the documented rates (cost_model.py:6-22), but for
\* batches of the second operand and for GlobalAveragePool, which is charged for
\* its output and not, like other pools, for its window (cost_model.py:20, 114).
CostCoversWork ==
  pc = "done" /\ call.kernel # "GlobalAveragePool" /\ BatchOfFirst(call) => Work <= Estimate(call)
=============================================================================
