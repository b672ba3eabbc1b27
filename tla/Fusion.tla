-------------------------------- MODULE Fusion --------------------------------
(***************************************************************************)
(* compiler/passes/fusion.py: a producer and the one operator that reads   *)
(* its result become a single operator, at the place of the producer.      *)
(* None of the consumers that can be fused has attributes.                 *)
(***************************************************************************)
EXTENDS GraphIR

\* _FUSION_RULES
FusedType == [Conv |-> [Relu |-> "Conv_Relu"], Gemm |-> [Relu |-> "Gemm_Relu"],
              MatMul |-> [Add |-> "MatMul_Add"], Add |-> [Relu |-> "Add_Relu"]]

HasRule(producer, consumer) ==
  producer \in DOMAIN FusedType /\ consumer \in DOMAIN FusedType[producer]

\* Where operators read, by index and position.
Reads(g) == UNION {{i} \X DOMAIN g.ops[i].ins : i \in DOMAIN g.ops}

\* _build_consumer_count: an operator that reads a tensor twice counts twice.
ConsumerCount(g, t) ==
  Cardinality({r \in Reads(g) : g.ops[r[1]].ins[r[2]] = t})

\* Mutant: the addend need not be a constant.
MutantIsBiasAdd(g, consumer, shared) ==
  \A t \in ToSet(consumer.ins) \ {shared} : Len(g.tensors[t].shape) <= 1

\* _is_bias_add
IsBiasAdd(g, consumer, shared) ==
  \A t \in ToSet(consumer.ins) \ {shared} :
    IsConstant(g.tensors, t) /\ Len(g.tensors[t].shape) <= 1

\* Operator i can be fused with operator j, going by the list as it was at the
\* start of the sweep.
Fuses(g, i, j) ==
  LET shared == g.ops[i].outs[1]
  IN  /\ Len(g.ops[i].outs) = 1
      /\ ConsumerCount(g, shared) = 1
      /\ shared \notin g.outputs
      /\ j > i /\ shared \in ToSet(g.ops[j].ins)
      /\ HasRule(g.ops[i].type, g.ops[j].type)
      /\ g.ops[i].type = "MatMul" => IsBiasAdd(g, g.ops[j], shared)

FusedOp(op, consumer) ==
  [type |-> FusedType[op.type][consumer.type],
   attr |-> op.attr,
   ins  |-> op.ins \o RemoveAt(consumer.ins,
                               CHOOSE k \in DOMAIN consumer.ins : consumer.ins[k] = op.outs[1]),
   outs |-> consumer.outs]

\* One operator of a sweep; taken holds the consumers already absorbed.
FuseOp(g, acc, i) ==
  LET partners == {j \in (DOMAIN g.ops) \ acc.taken : Fuses(g, i, j)}
      j == CHOOSE j \in partners : TRUE
  IN  IF i \in acc.taken THEN acc
      ELSE IF partners = {} THEN [acc EXCEPT !.ops = Append(@, g.ops[i])]
      ELSE [ops |-> Append(acc.ops, FusedOp(g.ops[i], g.ops[j])),
            taken |-> acc.taken \cup {j}]

\* One turn of the while loop of run(graph): it changed something if it took
\* a consumer.
FuseSweep(g) ==
  LET acc[k \in 0 .. Len(g.ops)] ==
        IF k = 0 THEN [ops |-> <<>>, taken |-> {}] ELSE FuseOp(g, acc[k - 1], k)
  IN  acc[Len(g.ops)]
=============================================================================
