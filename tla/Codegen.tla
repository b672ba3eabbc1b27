------------------------------- MODULE Codegen --------------------------------
(***************************************************************************)
(* compiler/codegen/c_generator.py: what the generator accepts, and the    *)
(* attributes that reach the kernels.  The tables themselves are in        *)
(* ExecTable and ArenaLayout.                                              *)
(***************************************************************************)
EXTENDS GraphIR

CONSTANTS MaxInputs, MaxOutputs, MaxRank, MaxSuccessors  \* tinyos.h

ASSUME LimitsAssumption ==
  {MaxInputs, MaxOutputs, MaxRank, MaxSuccessors} \subseteq Nat /\ MaxInputs >= 3

SupportedOps ==
  {"Identity", "Reshape", "Flatten", "Transpose", "Concat", "Slice", "DMA_LOAD",
   "Relu", "Sigmoid", "Tanh", "Clip", "Add", "Sub", "Mul", "Div", "Pow", "Erf",
   "LeakyRelu", "MatMul", "MatMul_Add", "Gemm", "Gemm_Relu", "Conv", "Conv_Relu",
   "MaxPool", "AveragePool", "GlobalAveragePool", "Softmax", "BatchNormalization",
   "LayerNormalization", "ReduceMean", "Add_Relu"}

\* _emit_params: the attributes it writes out, of the types it has a case for.
FrozenAttributes ==
  [Conv |-> {"strides", "pads", "dilations", "group"},
   MaxPool |-> {"kernel_shape", "strides", "pads"},
   AveragePool |-> {"kernel_shape", "strides", "pads"},
   Gemm |-> {"alpha", "beta", "transA", "transB"},
   Gemm_Relu |-> {"alpha", "beta", "transA", "transB"},
   Softmax |-> {"axis"}, Concat |-> {"axis"}, Transpose |-> {"perm"},
   BatchNormalization |-> {"epsilon"}, LayerNormalization |-> {"axis", "epsilon"},
   ReduceMean |-> {"axes", "keepdims"}, LeakyRelu |-> {"alpha"}]

\* A kernel uses the ONNX defaults for what it does not find, and for all of
\* them if its parameters are NULL.
Frozen(op) ==
  [op EXCEPT !.attr =
     IF op.type \in DOMAIN FrozenAttributes
     THEN SelectSeq(@, LAMBDA a : a \in FrozenAttributes[op.type]) ELSE <<>>]

\* The tensors the arena has a slot for: the live ranges go by the keys that
\* operators and graph inputs name.
Allocated(g) ==
  {t \in ToSet(g.inputs) \cup UNION {ToSet(op.outs) : op \in ToSet(g.ops)} :
     ~IsConstant(g.tensors, t)}

ActivationKeys(g) == {t \in DOMAIN g.tensors : ~IsConstant(g.tensors, t)}

\* An operator or a tensor that has no room in the tables.
TooLarge(g) ==
  \/ \E op \in ToSet(g.ops) : Len(op.ins) > MaxInputs \/ Len(op.outs) > MaxOutputs
  \/ \E t \in DOMAIN g.tensors : Len(g.tensors[t].shape) > MaxRank

\* CGenerator.__init__ raises.
Refused(g) ==
  \/ \E op \in ToSet(g.ops) : op.type \notin SupportedOps
  \/ TooLarge(g)
  \/ ~(ActivationKeys(g) \subseteq Allocated(g))

\* The descriptor table finds each slot by the name in the Tensor object, and
\* dies of a KeyError if that is not the key it is stored under.
SlotMissing(g) == \E t \in ActivationKeys(g) : g.tensors[t].name \notin Allocated(g)

\* A fused epilogue adds the bias by column: the vector must have one element
\* for each column of the weight.
EpilogueFits(g, op) ==
  op.type = "MatMul_Add" =>
    g.tensors[op.ins[3]].shape = <<Last(g.tensors[op.ins[2]].shape)>>

\* The rows that wait for row i.
Successors(g, i) ==
  {j \in DOMAIN g.ops : ToSet(g.ops[i].outs) \cap ToSet(g.ops[j].ins) # {}}

\* The successors of a row are not counted before they are written: the scheduler
\* reads past the entry for those that do not fit.
SuccessorsFit(g, i) == Cardinality(Successors(g, i)) <= MaxSuccessors

\* What the kernels compute: with the frozen attributes, and undefined where a
\* bias has no such column or a row is never made ready.
Emitted(g) ==
  [g EXCEPT !.ops = [k \in DOMAIN g.ops |->
     IF EpilogueFits(g, g.ops[k]) /\ SuccessorsFit(g, k) THEN Frozen(g.ops[k])
     ELSE [g.ops[k] EXCEPT !.type = "Undefined"]]]
=============================================================================
