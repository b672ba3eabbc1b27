------------------------------ MODULE MCPipeline ------------------------------
(***************************************************************************)
(* Graphs of three operators: convolutions in one set, products in the     *)
(* other, with normalisation, elementwise and constant operators over      *)
(* every choice of operands; operators on constants of each element type,  *)
(* whose results are folded further; and one tensor with many readers.     *)
(***************************************************************************)
EXTENDS Pipeline

X == <<"x">>
R == <<"r">>
W == <<"w">>
B == <<"b">>
One == <<"one">>
K == <<"k">>
I == <<"i">>
Zero == <<"zero">>
T(k) == <<"t", ToString(k)>>
BnParams == <<<<"scale">>, <<"shift">>, <<"mean">>, <<"var">>>>

Op(type, attr, ins, k) == [type |-> type, attr |-> attr, ins |-> ins, outs |-> <<T(k)>>]

Earlier(k) == {T(j) : j \in 1 .. k - 1}

Elementwise(k) ==
  {Op("Relu", <<>>, <<a>>, k) : a \in {X, R} \cup Earlier(k)}
    \cup {Op("BatchNormalization", <<>>, <<a>> \o BnParams, k) : a \in {X} \cup Earlier(k)}
    \cup {Op("Mul", <<>>, <<W, W>>, k)}

Convolutions(k) ==
  Elementwise(k)
    \cup {Op("Conv", <<>>, <<a>> \o c, k) :
            a \in {X} \cup Earlier(k), c \in {<<W>>, <<W, B>>, <<W, R>>}}
    \cup {Op("Conv", <<"pads">>, <<a, w>>, k) :
            a \in {X} \cup Earlier(k), w \in {W} \cup Earlier(k)}
    \cup {Op("Add", <<>>, <<a, c>>, k) : a \in {X} \cup Earlier(k), c \in {X} \cup Earlier(k)}

Products(k) ==
  Elementwise(k)
    \cup {Op("Gemm", attr, <<a, W, B>>, k) :
            attr \in {<<>>, <<"beta">>}, a \in {X} \cup Earlier(k)}
    \cup {Op("MatMul", <<>>, <<a, w>>, k) :
            a \in {X} \cup Earlier(k), w \in {W} \cup Earlier(k)}
    \cup {Op("Add", <<>>, <<a, c>>, k) :
            a \in {X} \cup Earlier(k), c \in {B, One, R} \cup Earlier(k)}
    \cup {Op("Add", <<>>, <<B, a>>, k) : a \in Earlier(k)}
    \cup {Op("Reshape", <<>>, <<X, s>>, k) : s \in Earlier(k)}
    \cup {Op("Cast", <<"F16">>, <<s>>, k) : s \in {K} \cup Earlier(k)}
    \cup {Op("Div", <<>>, <<K, K>>, k), Op("Softplus", <<>>, <<X>>, k)}

DtypeOf(op) == CASE op.type = "Div" -> "I64" [] op.type = "Cast" -> "F16" [] OTHER -> "F32"

ShapeOf(op) ==
  CASE op.ins = <<R>> -> <<2>> [] op.type \in {"Div", "Cast"} -> <<1>> [] OTHER -> <<2, 2>>

\* The kind of a tensor: what an operator may do with it.
Kind(list, t) ==
  IF t \notin {T(j) : j \in DOMAIN list} THEN "given"
  ELSE LET op == CHOOSE op \in ToSet(list) : op.outs = <<t>>
       IN  CASE op.type \in {"Mul", "Div", "Cast"} -> op.type
             [] op.ins = <<R>> -> "vector"
             [] OTHER -> "activation"

\* Every operand is of a kind the operator can take there.
WellTyped(list) ==
  \A op \in ToSet(list) : \A k \in DOMAIN op.ins :
    Kind(list, op.ins[k]) \in
      CASE op.type \in {"Conv", "MatMul"} /\ k = 2 -> {"given", "Mul"}
        [] op.type = "Add" /\ k = 2 -> {"given", "activation", "vector"}
        [] op.type = "Reshape" /\ k = 2 -> {"Div"}
        [] op.type = "Cast" -> {"given", "Div", "Cast"}
        [] OTHER -> {"given", "activation"}

Lists ==
  {list \in {<<a, b, c>> : a \in Convolutions(1), b \in Convolutions(2), c \in Convolutions(3)}
              \cup {<<a, b, c>> : a \in Products(1), b \in Products(2), c \in Products(3)} :
     WellTyped(list)}

Initializer(t, dtype, shape) == t :> Constant(t, dtype, shape, Term("const", t, <<>>), dtype)

Initializers ==
  Initializer(W, "F32", <<2, 2>>) @@ Initializer(B, "F32", <<2>>)
    @@ Initializer(One, "F32", <<1>>) @@ Initializer(K, "I64", <<1>>)
    @@ Initializer(I, "I32", <<1>>) @@ Initializer(Zero, "I64", <<2>>)
    @@ Initializer(BnParams[1], "F32", <<2>>) @@ Initializer(BnParams[2], "F32", <<2>>)
    @@ Initializer(BnParams[3], "F32", <<2>>) @@ Initializer(BnParams[4], "F32", <<2>>)

Read1(list) == UNION {ToSet(op.ins) : op \in ToSet(list)}

TensorsOf(list) ==
  [t \in {T(k) : k \in DOMAIN list} |->
     LET op == CHOOSE op \in ToSet(list) : op.outs[1] = t
     IN  Activation(t, DtypeOf(op), ShapeOf(op))]
    @@ [t \in Read1(list) \cap DOMAIN Initializers |-> Initializers[t]]
    @@ (X :> Activation(X, "F32", <<2, 2>>)) @@ (R :> Activation(R, "F32", <<2>>))

Graph(list, outs) ==
  [ops |-> list, tensors |-> TensorsOf(list), inputs |-> <<X, R>>, outputs |-> outs]

\* The results that are not constant, and those that no operator reads.
Computed(list) ==
  {T(k) : k \in {j \in DOMAIN list : list[j].type \notin {"Mul", "Div", "Cast"}}}
Sinks(list) == Computed(list) \ Read1(list)

\* One tensor that n operators read.
Fan(n) ==
  LET list == [k \in 1 .. n + 1 |-> Op("Relu", <<>>, <<IF k = 1 THEN X ELSE T(1)>>, k)]
  IN  Graph(list, Sinks(list))

\* What is evaluated first, with the type and the shape that are inferred.
Evaluations ==
  {[op |-> Op("Div", <<>>, <<I, I>>, 1), dtype |-> "I32", shape |-> <<1>>],
   [op |-> Op("Div", <<>>, <<K, K>>, 1), dtype |-> "I64", shape |-> <<1>>],
   [op |-> Op("Cast", <<"I16">>, <<K>>, 1), dtype |-> "I16", shape |-> <<1>>],
   [op |-> Op("Cast", <<"I32">>, <<K>>, 1), dtype |-> "I32", shape |-> <<1>>],
   [op |-> Op("Reshape", <<>>, <<W, Zero>>, 1), dtype |-> "F32", shape |-> <<2, 2>>],
   [op |-> Op("Flatten", <<>>, <<W>>, 1), dtype |-> "F32", shape |-> <<2, 2>>],
   [op |-> Op("Flatten", <<"axis">>, <<W>>, 1), dtype |-> "F32", shape |-> <<2, 2>>],
   [op |-> Op("Unsqueeze", <<"axes">>, <<B>>, 1), dtype |-> "F32", shape |-> <<2, 1, 1>>],
   [op |-> Op("Shape", <<>>, <<W>>, 1), dtype |-> "I64", shape |-> <<2>>],
   [op |-> Op("Shape", <<"start">>, <<W>>, 1), dtype |-> "I64", shape |-> <<1>>]}

\* A dimension of zero, a negative axis, and axes that are negative and more than one.
MCEvalRaises ==
  {Term("Reshape", <<>>, <<Initializers[W].val, Initializers[Zero].val>>),
   Term("Flatten", <<"axis">>, <<Initializers[W].val>>)}
MCEvalShapes == Term("Unsqueeze", <<"axes">>, <<Initializers[B].val>>) :> <<1, 2, 1>>

\* The result is evaluated further, and added to the input.
FoldingGraph(e, second) ==
  LET list == <<e.op, second, Op("Cast", <<"F32">>, <<T(2)>>, 3), Op("Add", <<>>, <<X, T(3)>>, 4)>>
      dtypes == <<e.dtype, IF second.type = "Cast" THEN "F32" ELSE e.dtype, "F32", "F32">>
      shapes == <<e.shape, e.shape, e.shape, IF Len(e.shape) = 3 THEN <<2, 2, 2>> ELSE <<2, 2>>>>
      results == [t \in {T(k) : k \in 1 .. 4} |->
                    LET k == CHOOSE k \in 1 .. 4 : t = T(k) IN Activation(t, dtypes[k], shapes[k])]
  IN  [Graph(list, {T(4)}) EXCEPT !.tensors = results @@ @]

FoldingGraphs ==
  {FoldingGraph(e, second) : e \in Evaluations,
     second \in {Op("Cast", <<"F32">>, <<T(1)>>, 2), Op("Mul", <<>>, <<T(1), T(1)>>, 2)}}

\* The caller sees the sinks, and possibly the first result too.
MCSourceGraphs ==
  {Graph(list, Sinks(list) \cup ({T(1)} \cap more \cap Computed(list))) :
     list \in Lists, more \in {{}, {T(1)}}}
  \cup FoldingGraphs \cup {Fan(3)}

\* A convolution that is about to be fused.
MCFindingGraphs ==
  {Graph(<<Op("Conv", <<"pads">>, <<X, W>>, 1), Op("Relu", <<>>, <<T(1)>>, 2)>>, {T(2)})}
=============================================================================
