------------------------------- MODULE Pipeline -------------------------------
(***************************************************************************)
(* compiler/main.py from ingestion to emission: the passes that rewrite    *)
(* the graph, its re-validation, and what the generator accepts.  Each     *)
(* pass, and each turn of the loop of folding and of fusion, is a step.    *)
(* The passes between pruning and emission are in MemoryPlan.              *)
(***************************************************************************)
EXTENDS ConstantFold, BnAbsorb, Fusion, Prune, Codegen

CONSTANT SourceGraphs  \* graphs as they leave ingestion

Operators ==
  [type : STRING, attr : Seq(STRING), ins : Seq(Seq(STRING)), outs : Seq(Seq(STRING))]

\* The number of operands and results, by ONNX, of the operators that are rewritten.
Arity == [Conv |-> {2, 3}, Gemm |-> {2, 3}, MatMul |-> {2}, Add |-> {2}, Relu |-> {1},
          BatchNormalization |-> {5}]

HasArity(op) ==
  /\ op.outs # <<>>
  /\ op.type \in DOMAIN Arity => Len(op.ins) \in Arity[op.type] /\ Len(op.outs) = 1
  /\ op.type \in Evaluable => op.ins # <<>> /\ Len(op.outs) = 1
  /\ op.type = "Relu" => op.attr = <<>>
  /\ op.type = "Cast" => op.attr # <<>>

\* The element types ONNX allows for the operands of an operator that the passes
\* evaluate, and infers for its result.
HasType(ts, op) ==
  LET dtype == [k \in DOMAIN op.ins |-> ts[op.ins[k]].dtype]
  IN  /\ op.type \in Evaluable =>
           ts[op.outs[1]].dtype = CASE op.type = "Cast" -> op.attr[1]
                                    [] op.type = "Shape" -> "I64"
                                    [] OTHER -> dtype[1]
      /\ op.type \in {"Add", "Sub", "Mul", "Div", "Concat", "Conv", "Gemm"} =>
           \A k \in DOMAIN op.ins : dtype[k] = dtype[1]
      /\ op.type \in {"Sqrt", "BatchNormalization"} =>
           \A k \in DOMAIN op.ins : dtype[k] \in FloatTypes

\* What an operator reads or the caller sees is given or computed.
Supplied(graph) ==
  \A t \in graph.outputs \cup UNION {ToSet(op.ins) : op \in ToSet(graph.ops)} :
    \/ t \in ToSet(graph.inputs) \/ IsConstant(graph.tensors, t)
    \/ \E op \in ToSet(graph.ops) : t \in ToSet(op.outs)

\* A graph as ingestion leaves it: sorted and validated, every tensor under its own
\* name, constants in their own bytes.  No name is one that absorption makes up.
IsIngested(s) ==
  LET ts == s.tensors
  IN  /\ s \in [ops : Seq(Operators), tensors : {ts},
                 inputs : Seq(Seq(STRING)), outputs : SUBSET Seq(STRING)]
      /\ \A t \in DOMAIN ts :
           ts[t] \in [name : {t}, dtype : Dtypes, shape : Seq(Nat),
                     val : {NoValue, Term("const", t, <<>>)}, as : {ts[t].dtype}]
      /\ NamesKnown(s) /\ InOrder(s) /\ Supplied(s)
      /\ \A op \in ToSet(s.ops) :
           /\ HasArity(op) /\ HasType(ts, op)
           /\ \A t \in ToSet(op.outs) : ~IsConstant(ts, t) /\ t \notin ToSet(s.inputs)
           /\ NewBias(op) \notin DOMAIN ts

ASSUME SourceAssumption == \A s \in SourceGraphs : IsIngested(s)

VARIABLES
  source,  \* the graph at ingestion
  g,       \* the graph
  stage    \* the last pass that is complete, or "raised" or "emitted"

vars == <<source, g, stage>>

Init == source \in SourceGraphs /\ g = source /\ stage = "ingested"

Raise == stage' = "raised" /\ UNCHANGED g

Fold ==
  /\ stage = "ingested"
  /\ LET r == FoldSweep(g)
     IN  IF r.raised THEN Raise
         ELSE /\ g' = [g EXCEPT !.ops = r.ops, !.tensors = r.tensors]
              /\ stage' = IF r.changed THEN "ingested" ELSE "folded"
  /\ UNCHANGED source

AbsorbBatchNorms ==
  /\ stage = "folded"
  /\ LET r == Absorb(g)
     IN  IF r.raised THEN Raise ELSE g' = r.g /\ stage' = "absorbed"
  /\ UNCHANGED source

Fuse ==
  /\ stage = "absorbed"
  /\ LET r == FuseSweep(g)
     IN  /\ g' = [g EXCEPT !.ops = r.ops]
         /\ stage' = IF r.taken # {} THEN "absorbed" ELSE "fused"
  /\ UNCHANGED source

\* Aliases are found before this and keep no tensor that no operator names.
PruneTensors ==
  /\ stage = "fused"
  /\ LET kept == Kept(g.tensors, Named(g.ops, g.inputs, g.outputs), <<>>)
     IN  g' = [g EXCEPT !.tensors = [t \in kept |-> @[t]]]
  /\ stage' = "pruned"
  /\ UNCHANGED source

Validate ==
  /\ stage = "pruned"
  /\ stage' = IF NamesKnown(g) /\ InOrder(g) THEN "valid" ELSE "raised"
  /\ UNCHANGED <<source, g>>

Emit ==
  /\ stage = "valid"
  /\ IF Refused(g) \/ SlotMissing(g) THEN Raise
     ELSE g' = Emitted(g) /\ stage' = "emitted"
  /\ UNCHANGED source

Next ==
  Fold \/ AbsorbBatchNorms \/ Fuse \/ PruneTensors \/ Validate \/ Emit

\* The compiler runs until it is done.
Spec == Init /\ [][Next]_vars /\ WF_vars(Next)

-----------------------------------------------------------------------------
(* Where the passes go wrong. *)

\* A result whose bytes are not laid out in the type the tensor declares.
Mistyped(graph) ==
  \E t \in DOMAIN graph.tensors : graph.tensors[t].as # graph.tensors[t].dtype

\* A result that is not what ONNX defines.
Miscomputed(graph) ==
  \E t \in DOMAIN graph.tensors : OpOf(graph.tensors[t].val) = "otherwise"

ReadElsewhere(graph, t, i, k) ==
  t \in graph.outputs \/ \E r \in Reads(graph) : r # <<i, k>> /\ graph.ops[r[1]].ins[r[2]] = t

HasBias(op) == Len(op.ins) >= 3

\* Absorption rewrites a constant that somebody else reads.
RewritesShared(graph, op, i) ==
  \E k \in {2, 3} \cap DOMAIN op.ins : ReadElsewhere(graph, op.ins[k], i, k)

\* The bias is computed at run time and keeps its value.
LeavesBias(graph, op) == HasBias(op) /\ ~IsConstant(graph.tensors, op.ins[3])

\* The kernel scales the new bias.
ScalesBias(op) == "beta" \in ToSet(op.attr)

AbsorbsWrongly(graph) ==
  \E i, j \in DOMAIN graph.ops :
    /\ Absorbs(graph, i, j)
    /\ LET op == graph.ops[i]
       IN  \/ RewritesShared(graph, op, i) \/ LeavesBias(graph, op) \/ ScalesBias(op)
           \/ op.outs[1] \in graph.outputs

\* The generator drops an attribute or a successor, or an epilogue runs past its
\* bias.
EmitsWrongly(graph) ==
  \E k \in DOMAIN graph.ops :
    LET op == graph.ops[k]
    IN  Frozen(op) # op \/ ~EpilogueFits(graph, op) \/ ~SuccessorsFit(graph, k)

\* What can be computed from constants by operators that can be folded.
Known(graph) ==
  LET known[k \in 0 .. Len(graph.ops)] ==
        IF k = 0 THEN {t \in DOMAIN graph.tensors : IsConstant(graph.tensors, t)}
        ELSE LET op == graph.ops[k]
             IN  known[k - 1] \cup
                   (IF op.type \in Evaluable /\ ToSet(op.ins) \subseteq known[k - 1]
                    THEN ToSet(op.outs) ELSE {})
  IN  known[Len(graph.ops)]

\* An operator that has no kernel and is not folded.
Unsupported(graph) ==
  \E op \in ToSet(graph.ops) :
    op.type \notin SupportedOps /\ ~(ToSet(op.outs) \subseteq Known(graph))

\* The results whose bytes are not laid out in their element type: of a Cast to a
\* type that is not among the targets, and of a division of integers.
Mislaid(graph) ==
  {op.outs[1] : op \in {o \in ToSet(graph.ops) :
     /\ ToSet(o.ins) \subseteq Known(graph)
     /\ \/ o.type = "Cast" /\ o.attr[1] \notin CastTargets
        \/ o.type = "Div" /\ graph.tensors[o.ins[1]].dtype \notin FloatTypes}}

\* An operand that the compiler may not be able to make an array of.
ReadsMislaid(graph) == \E op \in ToSet(graph.ops) : ToSet(op.ins) \cap Mislaid(graph) # {}

\* numpy refuses a result, or computes something else.
FoldsOtherwise(graph) ==
  \E op \in ToSet(graph.ops) :
    /\ op.type \in Evaluable /\ ToSet(op.ins) \subseteq Known(graph)
    /\ LET result == Values(graph)[op.outs[1]]
       IN  result \in EvalRaises \/ Deviates(op, result)

\* The producer's output, or its name, outlives the absorption.
AbsorbsUnfused(graph) ==
  \E i, j \in DOMAIN graph.ops :
    /\ graph.ops[i].type \in {"Conv", "Gemm"}
    /\ graph.ops[j].type = "BatchNormalization"
    /\ graph.ops[i].outs[1] = graph.ops[j].ins[1]
    /\ LET bn == graph.ops[j].outs[1]
       IN  \/ {bn, graph.ops[i].outs[1]} \cap graph.outputs # {}
           \/ ConsumerCount(graph, bn) # 1
           \/ \E k \in DOMAIN graph.ops : bn \in ToSet(graph.ops[k].ins) /\ graph.ops[k].type # "Relu"

-----------------------------------------------------------------------------
(* Properties. *)

\* Every pass keeps what the model computes, outside the named cases: folding,
\* absorption, fusion and pruning rewrite the graph, and the tables say the
\* same as the graph they are made from (main.py:38-75).
PassesKeepTheFunction ==
  [][\/ Outputs(g') = Outputs(g)
     \/ Mistyped(g') \/ (stage = "ingested" /\ Miscomputed(g'))
     \/ (stage = "folded" /\ AbsorbsWrongly(g))
     \/ (stage = "valid" /\ EmitsWrongly(g))]_vars

\* A model of supported operators that fit the tables is compiled: folding can
\* read and evaluate what it finds, and the passes leave no operator in front of
\* its producer, no name without a tensor and no tensor without a slot, except
\* for the cases AbsorbsUnfused, ReadsMislaid and FoldsOtherwise.
RefusesOnlyWhatItMust ==
  stage = "raised" =>
    \/ Unsupported(source) \/ TooLarge(source)
    \/ AbsorbsUnfused(source) \/ ReadsMislaid(source) \/ FoldsOtherwise(source)

\* The loops of folding and fusion end, whatever they find to rewrite
\* (constant_fold.py:107-136, fusion.py:70-133).
CompilerTerminates == <>(stage \in {"emitted", "raised"})

-----------------------------------------------------------------------------
(* What the documentation says and the code does not do. *)

\* "Operator attributes ... become read-only param blobs" and "`NULL` means ONNX
\* defaults" (README.md:71-74): no operator loses an attribute that differs from
\* the default.
AttributesAreFrozen == stage = "valid" => \A op \in ToSet(g.ops) : Frozen(op) = op
=============================================================================
