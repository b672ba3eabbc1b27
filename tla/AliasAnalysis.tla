---------------------------- MODULE AliasAnalysis ----------------------------
(***************************************************************************)
(* compiler/passes/alias_analysis.py: which activation tensors use the     *)
(* buffer of another one.  A view is the same bytes under a new shape; an  *)
(* in-place operator overwrites its first operand when no later operator   *)
(* names that operand.                                                     *)
(*                                                                         *)
(* A graph is a record [ops, inputs, outputs, shape]: the lowered operator *)
(* list, the graph's input tensors as a sequence and its output tensors as *)
(* a set, and the shape of each activation tensor of the source graph.     *)
(* Constants and staging buffers have no shape here: the pass leaves the   *)
(* former alone, and the latter are read by NPU operators only, none of    *)
(* which is a view or works in place.                                      *)
(***************************************************************************)
EXTENDS ExecTable, TLC

ViewOps == {"Reshape", "Flatten", "Squeeze", "Unsqueeze", "Identity"}

InPlaceUnary ==
  {"Relu", "Clip", "Sigmoid", "Tanh", "Softmax", "Erf", "LeakyRelu"}

InPlaceBinary == {"Add", "Sub", "Mul", "Div", "Pow"}

Elements(shape) == FoldLeft(LAMBDA m, n : m * n, 1, shape)

\* Size of an activation of float32 elements.
BytesOf(g, t) == 4 * Elements(g.shape[t])

\* The first operand and the first result of a row.
Operand(g, i) == Row(g.ops, i).ins[1]
Result(g, i) == Row(g.ops, i).outs[1]

\* Row i is the last use of the name t: no later row reads it, and no caller.
DiesAt(g, t, i) ==
  /\ t \notin g.outputs
  /\ \A j \in Rows(g.ops) : j > i => t \notin InputsOf(g.ops, j)

IsCandidate(g, i) ==
  /\ Row(g.ops, i).ins # << >> /\ Row(g.ops, i).outs # << >>
  /\ Operand(g, i) \in DOMAIN g.shape /\ Result(g, i) \in DOMAIN g.shape

IsView(g, i) == IsCandidate(g, i) /\ Row(g.ops, i).type \in ViewOps

\* Mutant: an operand of another shape is overwritten too.
MutantIsInPlace(g, i) ==
  /\ IsCandidate(g, i)
  /\ DiesAt(g, Operand(g, i), i)
  /\ Row(g.ops, i).type \in InPlaceUnary \cup InPlaceBinary

IsInPlace(g, i) ==
  /\ IsCandidate(g, i)
  /\ DiesAt(g, Operand(g, i), i)
  /\ \/ /\ Row(g.ops, i).type \in InPlaceUnary
        /\ BytesOf(g, Operand(g, i)) >= BytesOf(g, Result(g, i))
     \/ /\ Row(g.ops, i).type \in InPlaceBinary
        /\ g.shape[Operand(g, i)] = g.shape[Result(g, i)]

\* run(graph): the alias_of of the tensors that have one.
AliasOf(g) ==
  LET rows == {i \in Rows(g.ops) : IsView(g, i) \/ IsInPlace(g, i)}
  IN  [t \in {Result(g, i) : i \in rows} |->
         Operand(g, CHOOSE i \in rows : Result(g, i) = t)]

\* The tensors of a graph that are not constants.
ArenaTensors(g) ==
  ToSet(g.inputs) \cup UNION {ToSet(Row(g.ops, i).outs) : i \in Rows(g.ops)}

\* Follow the chain from each tensor to its root: operands come before results,
\* so one pass over the rows is enough.
RootsOf(g, alias) ==
  LET Follow(root, op) ==
        [t \in DOMAIN root |->
           IF t \in ToSet(op.outs) \cap DOMAIN alias THEN root[alias[t]] ELSE root[t]]
      roots[k \in 0 .. Len(g.ops)] ==
        IF k = 0 THEN [t \in DOMAIN g.shape \cup ArenaTensors(g) |-> t]
        ELSE Follow(roots[k - 1], g.ops[k])
  IN  roots[Len(g.ops)]
=============================================================================
