----------------------------- MODULE MCLowering ------------------------------
(***************************************************************************)
(* Graphs of three operators.  For the planner, over a vector and a scalar *)
(* input: unary and binary elementwise operators, views and products with  *)
(* a staged weight, over every choice of operands.  For routing, over one  *)
(* input: those of MCGraphs, with every combination of weights.            *)
(***************************************************************************)
EXTENDS Lowering, MCGraphs

Scalar == <<"act", "s">>

\* What fusion leaves of the tensor between the operators it joined.
Leftover == <<"act", "t0">>

Vectors(k) == {Act(j) : j \in 0 .. k - 1}

Operands(k) == {Scalar} \cup Vectors(k)

OpsOver(k) ==
  {[type |-> type, ins |-> <<t>>, outs |-> <<Act(k)>>] :
     type \in {"Relu", "Reshape"}, t \in Vectors(k)}
  \cup {[type |-> "Add", ins |-> <<t, u>>, outs |-> <<Act(k)>>] :
          t \in Operands(k), u \in Operands(k)}
  \cup {[type |-> "MatMul", ins |-> <<t, w>>, outs |-> <<Act(k)>>] :
          t \in Vectors(k), w \in {W1}}

\* Broadcasting, between shapes of one or two dimensions of 32 or 1.
Broadcast(a, b) ==
  LET n == IF 32 \in {Last(a), Last(b)} THEN 32 ELSE 1
  IN  IF Len(a) = 2 \/ Len(b) = 2 THEN <<1, n>> ELSE <<n>>

ResultShape(op, shape) ==
  CASE op.type = "Reshape" -> <<1, Last(shape[op.ins[1]])>>
    [] op.type = "Add" -> Broadcast(shape[op.ins[1]], shape[op.ins[2]])
    [] OTHER -> shape[op.ins[1]]

ShapesOf(list) ==
  FoldLeft(LAMBDA shape, op : (op.outs[1] :> ResultShape(op, shape)) @@ shape,
           (Act(0) :> <<32>>) @@ (Scalar :> <<1>>) @@ (Leftover :> <<32>>), list)

Sinks(list) ==
  {Act(k) : k \in {j \in DOMAIN list : \A i \in DOMAIN list : Act(j) \notin ToSet(list[i].ins)}}

\* The caller sees the results that no operator reads, possibly the first too.
GraphsFrom(list) ==
  {[ops |-> list, inputs |-> <<Act(0), Scalar>>, outputs |-> outs, shape |-> ShapesOf(list)] :
     outs \in {Sinks(list), Sinks(list) \cup {Act(1)}}}

MCPlannedGraphs ==
  UNION {GraphsFrom(<<a, b, c>>) : a \in OpsOver(1), b \in OpsOver(2), c \in OpsOver(3)}

MCRoutedGraphs ==
  {[ops |-> list, inputs |-> <<Act(0)>>, outputs |-> Sinks(list),
    shape |-> [t \in {Act(k) : k \in 0 .. Len(list)} |-> <<32>>]] : list \in LoweringGraphs}

MCGraphsToLower == MCPlannedGraphs \cup MCRoutedGraphs

MCWcet == ("CPU" :> 6) @@ ("NPU" :> 40) @@ ("DMA" :> 16)
=============================================================================
