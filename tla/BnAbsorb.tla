------------------------------- MODULE BnAbsorb -------------------------------
(***************************************************************************)
(* compiler/passes/bn_absorb.py: a BatchNormalization is folded into the   *)
(* weights and the bias of the convolution or product in front of it.      *)
(* Operators are in the order of their op_id when the pass runs.           *)
(***************************************************************************)
EXTENDS GraphIR

ConsumersAfter(g, t, i) == {j \in DOMAIN g.ops : t \in ToSet(g.ops[j].ins) /\ j > i}

\* Mutant: any consumer will do, the first one is taken.
MutantSoleConsumer(g, t, i, j) ==
  j \in ConsumersAfter(g, t, i) /\ \A k \in ConsumersAfter(g, t, i) : j <= k

\* _find_single_consumer
SoleConsumer(g, t, i, j) == ConsumersAfter(g, t, i) = {j}

\* scale, bias, mean and variance
Params(bn) == SubSeq(bn.ins, 2, 5)

\* Operator i absorbs operator j.
Absorbs(g, i, j) ==
  LET op == g.ops[i]
      bn == g.ops[j]
  IN  /\ op.type \in {"Conv", "Gemm"}
      /\ Len(op.outs) = 1
      /\ SoleConsumer(g, op.outs[1], i, j)
      /\ bn.type = "BatchNormalization"
      /\ Len(bn.ins) >= 5
      /\ \A p \in ToSet(Params(bn)) : IsConstant(g.tensors, p)
      /\ Len(op.ins) >= 2 /\ IsConstant(g.tensors, op.ins[2])

\* The bias the pass makes for a producer that has none.  The code's name has
\* the op_id instead of the output, to the same effect.
NewBias(op) == <<"absorbed">> \o op.outs[1]

BiasOf(op) == IF Len(op.ins) < 3 THEN NewBias(op) ELSE op.ins[3]

\* Weight and bias are rewritten in place, under their names, the weight first;
\* the Tensor object of the producer's output is stored under the BatchNorm's
\* output as well, with the name it has.
Rewritten(ts, op, bn) ==
  LET params == [k \in 1 .. 4 |-> Read(ts[Params(bn)[k]])]
      dtype == ts[op.ins[2]].dtype
      Stored(t, shape, term, args) == Constant(t, dtype, shape, Term(term, bn.attr, args), dtype)
      scaled == [ts EXCEPT ![op.ins[2]] =
                   Stored(op.ins[2], @.shape, "scaled", <<Read(@), params>>)]
      out == IF op.outs[1] \in DOMAIN ts THEN op.outs[1] ELSE bn.outs[1]
  IN  [t \in DOMAIN ts \cup {bn.outs[1], BiasOf(op)} |->
         IF t = bn.outs[1] THEN [ts[out] EXCEPT !.val = NoValue]
         ELSE IF t = BiasOf(op) /\ Len(op.ins) < 3
         THEN Stored(t, ts[Params(bn)[1]].shape, "shift", <<params>>)
         ELSE IF t = BiasOf(op) /\ IsConstant(ts, t)
         THEN Stored(t, ts[t].shape, "shifted", <<Read(scaled[t]), params>>)
         ELSE scaled[t]]

Fused(op, bn) ==
  [op EXCEPT !.outs = <<bn.outs[1]>>,
             !.ins = IF Len(op.ins) < 3 THEN Append(op.ins, NewBias(op)) ELSE op.ins]

\* One operator; those that are absorbed are gone.
AbsorbOp(g, acc, i) ==
  LET partners == {j \in DOMAIN g.ops : Absorbs(g, i, j)}
      bn == g.ops[CHOOSE j \in partners : TRUE]
  IN  IF \E j \in DOMAIN g.ops : Absorbs(g, j, i) THEN acc
      ELSE IF partners = {} THEN [acc EXCEPT !.ops = Append(@, g.ops[i])]
      ELSE [ops |-> Append(acc.ops, Fused(g.ops[i], bn)),
            tensors |-> Rewritten(acc.tensors, g.ops[i], bn)]

\* run(graph): whether an operator absorbs another does not depend on those
\* before it, but what it finds in a weight they share does.
Absorb(g) ==
  LET pairs == {p \in (DOMAIN g.ops) \X (DOMAIN g.ops) : Absorbs(g, p[1], p[2])}
      read == UNION {ToSet(Params(g.ops[p[2]])) \cup ToSet(Tail(g.ops[p[1]].ins)) : p \in pairs}
      acc[k \in 0 .. Len(g.ops)] ==
        IF k = 0 THEN [ops |-> <<>>, tensors |-> g.tensors] ELSE AbsorbOp(g, acc[k - 1], k)
  IN  IF \E t \in read : IsConstant(g.tensors, t) /\ ~Readable(g.tensors[t])
      THEN [g |-> g, raised |-> TRUE]
      ELSE [g |-> [g EXCEPT !.tensors = acc[Len(g.ops)].tensors, !.ops = acc[Len(g.ops)].ops],
            raised |-> FALSE]
=============================================================================
