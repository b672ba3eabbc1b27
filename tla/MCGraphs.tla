------------------------------ MODULE MCGraphs -------------------------------
(***************************************************************************)
(* Small graphs for model checking: three operators in topological order   *)
(* over one graph input, with two MatMul inputs staged through DMA in      *)
(* every combination of shared, private, repeated and small weights.       *)
(***************************************************************************)
EXTENDS Integers, Sequences, TLC

W1 == <<"const", "w1">>
W2 == <<"const", "w2">>
W3 == <<"const", "w3">>
Tiny == <<"const", "tiny">>

MCConstSize == (W1 :> 256) @@ (W2 :> 1024) @@ (W3 :> 512) @@ (Tiny :> 255)

Act(k) == <<"act", ToString(k)>>

NpuOp(k, acts, weights) == [type |-> "MatMul", ins |-> acts \o weights, outs |-> <<Act(k)>>]
CpuOp(k, acts, weights) == [type |-> "Add", ins |-> acts \o weights, outs |-> <<Act(k)>>]

OpChoices(k, inputs, npuWeights, cpuWeights) ==
  {NpuOp(k, acts, w) : acts \in inputs, w \in npuWeights}
    \cup {CpuOp(k, acts, w) : acts \in inputs, w \in cpuWeights}

GraphsOver(inputs2, inputs3, npuWeights, cpuWeights) ==
  {<<>>} \cup
  {<<a, b, c>> :
     a \in OpChoices(1, {<<Act(0)>>}, npuWeights, cpuWeights),
     b \in OpChoices(2, inputs2, npuWeights, cpuWeights),
     c \in OpChoices(3, inputs3, npuWeights, cpuWeights)}

AnyInputs2 == {<<Act(0)>>, <<Act(1)>>}
AnyInputs3 == {<<Act(0)>>, <<Act(2)>>, <<Act(1), Act(2)>>}

\* For the compiler passes: all of it, with a CPU row that reads a large
\* constant and a weight just under the staging threshold.
LoweringGraphs ==
  GraphsOver(AnyInputs2, AnyInputs3,
    {<<>>, <<W1>>, <<W2>>, <<W3, W1>>, <<W2, W2>>, <<Tiny>>}, {<<>>, <<W1>>})

\* For the scheduler: those that differ in rows, edges or transfers.
DispatchGraphs ==
  GraphsOver(AnyInputs2, {<<Act(1), Act(2)>>},
    {<<>>, <<W1>>, <<W2>>, <<W3, W1>>}, {<<>>})
=============================================================================
