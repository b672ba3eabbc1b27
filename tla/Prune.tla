-------------------------------- MODULE Prune ---------------------------------
(***************************************************************************)
(* compiler/passes/prune.py: the tensors that are kept are those an        *)
(* operator or the caller names, and the ones they are aliases of.         *)
(***************************************************************************)
EXTENDS Sequences, SequencesExt, TLC

\* The keys that survive, where aliasOf maps the tensors that have an alias_of
\* to it: mark follows each chain to its root.
Kept(tables, names, aliasOf) ==
  LET Chain[n \in 0 .. Cardinality(DOMAIN aliasOf)] ==
        IF n = 0 THEN names
        ELSE Chain[n - 1] \cup {aliasOf[t] : t \in Chain[n - 1] \cap DOMAIN aliasOf}
  IN  DOMAIN tables \cap Chain[Cardinality(DOMAIN aliasOf)]

\* What the operators and the interface of a graph name.
Named(ops, inputs, outputs) ==
  ToSet(inputs) \cup outputs
    \cup UNION {ToSet(op.ins) \cup ToSet(op.outs) : op \in ToSet(ops)}
=============================================================================
