------------------------------- MODULE GraphIR --------------------------------
(***************************************************************************)
(* compiler/frontend/ir.py: the graph the passes share, its validation,    *)
(* and what a graph computes.                                              *)
(*                                                                         *)
(* A graph is a record [ops, tensors, inputs, outputs].  An operator is a  *)
(* record [type, attr, ins, outs]; attr lists the attributes that differ   *)
(* from the ONNX defaults.  tensors maps a key to the Tensor object stored *)
(* there, which has a name of its own.  Tensors are named by tuples of     *)
(* strings.                                                                *)
(*                                                                         *)
(* Data is symbolic: a value is the term of operators it is the result of. *)
(* A constant has a value and the element type its bytes are laid out in,  *)
(* which need not be the declared one.                                     *)
(***************************************************************************)
EXTENDS Integers, Sequences, FiniteSets, SequencesExt, TLC

Term(op, attr, args) == <<op, attr, args>>

OpOf(v) == v[1]
AttrOf(v) == v[2]
ArgsOf(v) == v[3]

NoValue == Term("none", <<>>, <<>>)

InputValue(t) == Term("input", t, <<>>)

\* The element types a tensor can declare.
Dtypes == {"F32", "F16", "I8", "I16", "I32", "I64", "U8", "BOOL"}

\* Bytes per element; F64 exists only in the arrays numpy returns.
ItemSize ==
  [F32 |-> 4, F16 |-> 2, I8 |-> 1, I16 |-> 2, I32 |-> 4, I64 |-> 8, U8 |-> 1, BOOL |-> 1,
   F64 |-> 8]

Activation(t, dtype, shape) ==
  [name |-> t, dtype |-> dtype, shape |-> shape, val |-> NoValue, as |-> dtype]

Constant(t, dtype, shape, val, as) ==
  [name |-> t, dtype |-> dtype, shape |-> shape, val |-> val, as |-> as]

IsConstant(tensors, t) == t \in DOMAIN tensors /\ tensors[t].val # NoValue

\* np.frombuffer(t.data, dtype).reshape(t.shape) raises if the bytes do not
\* make the right number of elements, and otherwise reinterprets them.
Readable(tensor) ==
  ItemSize[tensor.as] = ItemSize[tensor.dtype] \/ 0 \in ToSet(tensor.shape)

Read(tensor) ==
  IF tensor.as = tensor.dtype THEN tensor.val
  ELSE Term("reinterpreted", <<tensor.dtype>>, <<tensor.val>>)

-----------------------------------------------------------------------------
\* validate(): every name is in the table.  Shapes here are always static.
NamesKnown(g) ==
  \A t \in ToSet(g.inputs) \cup g.outputs
             \cup UNION {ToSet(op.ins) \cup ToSet(op.outs) : op \in ToSet(g.ops)} :
    t \in DOMAIN g.tensors

\* validate_topological(): one write per tensor, and no read before it.
InOrder(g) ==
  /\ \A i, j \in DOMAIN g.ops : \A k \in DOMAIN g.ops[i].outs, l \in DOMAIN g.ops[j].outs :
       g.ops[i].outs[k] = g.ops[j].outs[l] => i = j /\ k = l
  /\ \A i, j \in DOMAIN g.ops :
       ToSet(g.ops[i].outs) \cap ToSet(g.ops[j].ins) # {} => i < j

-----------------------------------------------------------------------------
(* What operators compute.                                                 *)

Relu(v) == Term("Relu", <<>>, <<v>>)

\* The operands of an addition commute.
Plus(args) == Term("Add", <<>>, ToSet(args))

\* A product with a scaled weight and a shifted bias is the BatchNorm of the
\* plain product, if the bias enters with factor one.
Product(type, attr, args) ==
  LET weight == args[2]
      bias == args[3]
      params == ArgsOf(weight)[2]
      Normalised(operands) ==
        Term("BatchNormalization", AttrOf(weight), <<Term(type, attr, operands)>> \o params)
  IN  IF OpOf(weight) # "scaled" \/ Len(args) < 3 \/ "beta" \in ToSet(attr)
      THEN Term(type, attr, args)
      ELSE IF bias = Term("shift", AttrOf(weight), <<params>>)
      THEN Normalised(<<args[1], ArgsOf(weight)[1]>>)
      ELSE IF OpOf(bias) = "shifted" /\ AttrOf(bias) = AttrOf(weight) /\ ArgsOf(bias)[2] = params
      THEN Normalised(<<args[1], ArgsOf(weight)[1], ArgsOf(bias)[1]>>)
      ELSE Term(type, attr, args)

Result(type, attr, args) ==
  CASE type \in {"Conv", "Gemm"} -> Product(type, attr, args)
    [] type = "Add" -> Plus(args)
    [] type = "Conv_Relu" -> Relu(Product("Conv", attr, args))
    [] type = "Gemm_Relu" -> Relu(Product("Gemm", attr, args))
    [] type = "Add_Relu" -> Relu(Plus(args))
    [] type = "MatMul_Add" -> Plus(<<Term("MatMul", attr, SubSeq(args, 1, 2)), args[3]>>)
    [] OTHER -> Term(type, attr, args)

\* What a tensor holds before an operator has written it.
Held(g, t) ==
  IF IsConstant(g.tensors, t) THEN Read(g.tensors[t])
  ELSE IF t \in ToSet(g.inputs) THEN InputValue(t) ELSE NoValue

\* What an operator computes from the values of its operands.
Compute(op, vals) ==
  Result(op.type, op.attr, [k \in DOMAIN op.ins |-> vals[op.ins[k]]])

\* The value of every tensor when the operators run in list order.
Values(g) ==
  LET vals[k \in 0 .. Len(g.ops)] ==
        IF k = 0 THEN [t \in DOMAIN g.tensors |-> Held(g, t)]
        ELSE [t \in DOMAIN g.tensors |->
                IF t \in ToSet(g.ops[k].outs) THEN Compute(g.ops[k], vals[k - 1])
                ELSE vals[k - 1][t]]
  IN  vals[Len(g.ops)]

\* What the caller sees.
Outputs(g) == LET vals == Values(g) IN [t \in g.outputs |-> vals[t]]
=============================================================================
