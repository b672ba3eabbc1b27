------------------------------ MODULE Liveness -------------------------------
(***************************************************************************)
(* compiler/memory/liveness.py: for each buffer of the arena, the rows     *)
(* from the first that writes it to the last that uses it.  A tensor with  *)
(* an alias has no range of its own: it is folded into its root's.         *)
(***************************************************************************)
EXTENDS AliasAnalysis

Readers(g, t) == {i \in Rows(g.ops) : t \in InputsOf(g.ops, i)}

\* The row that produces a tensor; -1 for a graph input.
FirstDef(g, t) ==
  IF t \in ToSet(g.inputs) THEN -1 ELSE Max(Writers(g.ops, t))

LastUse(g, t) ==
  IF t \in g.outputs THEN Len(g.ops) - 1
  ELSE Max({FirstDef(g, t)} \cup Readers(g, t))

\* The tensors that live in the buffer of r.
Sharing(g, root, r) == {t \in ArenaTensors(g) : root[t] = r}

\* Mutant: only the root's own uses count.
MutantFolded(g, sharing, r) == [first |-> FirstDef(g, r), last |-> LastUse(g, r)]

\* The folded range of root r.  A first_def of -1 gives way to any other, so a
\* graph input that has aliases begins at the first of them.
Folded(g, sharing, r) ==
  LET defs == {FirstDef(g, t) : t \in sharing} \ {-1}
  IN  [first |-> IF defs = {} THEN -1 ELSE Min(defs),
       last  |-> Max({LastUse(g, t) : t \in sharing})]

\* compute_liveness(graph)
LiveRanges(g, root) ==
  [r \in {t \in ArenaTensors(g) : root[t] = t} |-> Folded(g, Sharing(g, root, r), r)]
=============================================================================
