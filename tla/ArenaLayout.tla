----------------------------- MODULE ArenaLayout -----------------------------
(***************************************************************************)
(* The offsets compiler/memory/arena.py gives to the buffers of a graph,   *)
(* and the tensor table that points into them (c_generator.py:367-405), in *)
(* aligned blocks.  ArenaAlloc has the algorithm step by step and checks   *)
(* that it takes the lowest aligned offset that fits; here that is the     *)
(* definition.  Names are abstract: where the code sorts by name, any      *)
(* fixed order of the tensors stands for it.                               *)
(***************************************************************************)
EXTENDS Liveness

CONSTANT Alignment  \* ARENA_ALIGNMENT

ASSUME AlignmentAssumption == Alignment \in Nat \ {0}

BufferBytes(g, t) ==
  IF t \in DOMAIN g.shape THEN BytesOf(g, t)
  ELSE ConstSize[CHOOSE c \in DOMAIN ConstSize : t = Sram(c)]

Blocks(g, t) == (BufferBytes(g, t) + Alignment - 1) \div Alignment

BySize(g, t, u) == BufferBytes(g, t) > BufferBytes(g, u)

ByStart(g, live, t, u) ==
  \/ live[t].first < live[u].first
  \/ live[t].first = live[u].first /\ live[t].last > live[u].last
  \/ live[t] = live[u] /\ BySize(g, t, u)

RangesOverlap(a, b) == a.first <= b.last /\ b.first <= a.last

Avoids(live, t, u) == RangesOverlap(live[t], live[u])

FreeAt(g, live, at, t, o) ==
  \A u \in DOMAIN at : Avoids(live, t, u) =>
    o + Blocks(g, t) <= at[u] \/ at[u] + Blocks(g, u) <= o

\* One buffer: the lowest offset at which it fits.
PlaceBuffer(g, live, at, t) ==
  LET top == Max({0} \cup {at[u] + Blocks(g, u) : u \in DOMAIN at})
      offset == Min({o \in 0 .. top : FreeAt(g, live, at, t, o)})
  IN  [u \in DOMAIN at \cup {t} |-> IF u = t THEN offset ELSE at[u]]

\* Some buffer of S that no other comes before.
Foremost(S, before) == CHOOSE t \in S : \A u \in S : <<u, t>> \notin before

\* Every buffer, the first of those that are left each time.
PlaceAll(g, live, before) ==
  LET S == DOMAIN live
      placed[k \in 0 .. Cardinality(S)] ==
        IF k = 0 THEN [t \in {} |-> 0]
        ELSE PlaceBuffer(g, live, placed[k - 1], Foremost(S \ DOMAIN placed[k - 1], before))
  IN  placed[Cardinality(S)]

ArenaBlocks(g, at) == Max({0} \cup {at[t] + Blocks(g, t) : t \in DOMAIN at})

\* allocate(graph, live_ranges): the smaller of two layouts, the first on a tie.
Allocate(g, live) ==
  LET S == DOMAIN live
      bySize == {p \in S \X S : BySize(g, p[1], p[2])}
      byStart == {p \in S \X S : ByStart(g, live, p[1], p[2])}
      gffd == PlaceAll(g, live, bySize)
      linear == PlaceAll(g, live, byStart)
  IN  IF ArenaBlocks(g, gffd) <= ArenaBlocks(g, linear) THEN gffd ELSE linear

\* g_tensors: the blocks each tensor's pointer and size cover, at its root.
TensorTable(g, root, at) ==
  [t \in ArenaTensors(g) |-> at[root[t]] .. at[root[t]] + Blocks(g, t) - 1]

\* What rows read and write and what it stands for (see ArenaMemory), given the
\* blocks of each tensor.  A view's kernel copies its operand onto itself or not
\* at all, so a view stands for what its operand does.
MapOf(graph, blocks) ==
  LET views == {Result(graph, i) : i \in {j \in Rows(graph.ops) : IsView(graph, j)}}
      viewOf == [t \in views |->
                   Operand(graph, CHOOSE i \in Rows(graph.ops) :
                                    IsView(graph, i) /\ Result(graph, i) = t)]
  IN  [reads   |-> [i \in Rows(graph.ops) |-> InputsOf(graph.ops, i) \cap ArenaTensors(graph)],
       writes  |-> [i \in Rows(graph.ops) |-> ToSet(Row(graph.ops, i).outs)],
       blocks  |-> blocks,
       meaning |-> RootsOf(graph, viewOf),
       inputs  |-> graph.inputs,
       outputs |-> graph.outputs \cap ArenaTensors(graph)]
=============================================================================
