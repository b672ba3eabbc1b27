----------------------------- MODULE ConstantFold -----------------------------
(***************************************************************************)
(* compiler/passes/constant_fold.py: operators whose inputs are all        *)
(* constants are evaluated, and their results become constants.            *)
(***************************************************************************)
EXTENDS GraphIR

CONSTANTS
  EvalRaises,  \* the results that numpy refuses to compute
  EvalShapes   \* the results numpy computes otherwise than ONNX, by their shape

ASSUME EvalAssumption == \A result \in DOMAIN EvalShapes : EvalShapes[result] \in Seq(Nat)

\* The operators _eval_op evaluates.
Evaluable ==
  {"Reshape", "Flatten", "Transpose", "Squeeze", "Unsqueeze", "Add", "Mul",
   "Sub", "Div", "Sqrt", "Cast", "Gather", "Shape", "Concat"}

FloatTypes == {"F32", "F16"}

\* The types a Cast finds in the table; for the others it takes float32.
CastTargets == {"F32", "I32", "I64", "U8", "I8"}

\* The element type of the array numpy returns.  A quotient of integers is a
\* float64, and the type a Cast asks for is its attribute.
ArrayType(op, operands) ==
  CASE op.type = "Div" /\ operands[1].dtype \notin FloatTypes -> "F64"
    [] op.type = "Cast" -> IF op.attr[1] \in CastTargets THEN op.attr[1] ELSE "F32"
    [] op.type = "Shape" -> "I64"
    [] OTHER -> operands[1].dtype

\* What ONNX defines the result to be.
ResultOf(op, operands) == Result(op.type, op.attr, [k \in DOMAIN operands |-> Read(operands[k])])

\* numpy computes something else: Shape does not look at its attributes.
Deviates(op, result) == result \in DOMAIN EvalShapes \/ (op.type = "Shape" /\ op.attr # <<>>)

\* The shape and the value of the array.  Where numpy computes what ONNX defines,
\* the shape is the inferred one.
ArrayShape(op, operands, inferred) ==
  IF op.type = "Shape" /\ op.attr # <<>> THEN <<Len(operands[1].shape)>>
  ELSE IF ResultOf(op, operands) \in DOMAIN EvalShapes THEN EvalShapes[ResultOf(op, operands)]
  ELSE inferred

ArrayValue(op, operands) ==
  LET result == ResultOf(op, operands)
  IN  IF Deviates(op, result) THEN Term("otherwise", <<>>, <<result>>) ELSE result

\* The result becomes a constant.  It has the shape of the array and keeps the
\* element type declared for it, whatever type the array has.
Folded(acc, op, operands) ==
  [acc EXCEPT !.changed = TRUE,
     !.tensors[op.outs[1]] =
        Constant(op.outs[1], @.dtype, ArrayShape(op, operands, @.shape),
                 ArrayValue(op, operands), ArrayType(op, operands))]

\* Mutant: the operator stays in the list although its result is known.
MutantEvaluate(acc, op, operands) ==
  [Folded(acc, op, operands) EXCEPT !.ops = Append(@, op)]

\* The operator is gone from the list.
Evaluate(acc, op, operands) == Folded(acc, op, operands)

\* One operator of a sweep, if none before it raised.
FoldOp(acc, op) ==
  LET operands == [k \in DOMAIN op.ins |-> acc.tensors[op.ins[k]]]
  IN  IF acc.raised THEN acc
      ELSE IF \E t \in ToSet(op.ins) : ~IsConstant(acc.tensors, t)
      THEN [acc EXCEPT !.ops = Append(@, op)]
      ELSE IF \E k \in DOMAIN operands : ~Readable(operands[k])
      THEN [acc EXCEPT !.raised = TRUE]
      ELSE IF op.type \notin Evaluable THEN [acc EXCEPT !.ops = Append(@, op)]
      ELSE IF ResultOf(op, operands) \in EvalRaises THEN [acc EXCEPT !.raised = TRUE]
      ELSE Evaluate(acc, op, operands)

\* One turn of the while loop of run(graph).
FoldSweep(g) ==
  LET Start == [ops |-> <<>>, tensors |-> g.tensors, changed |-> FALSE, raised |-> FALSE]
      acc[k \in 0 .. Len(g.ops)] ==
        IF k = 0 THEN Start ELSE FoldOp(acc[k - 1], g.ops[k])
  IN  acc[Len(g.ops)]
=============================================================================
