----------------------------- MODULE MemoryPlan ------------------------------
(***************************************************************************)
(* The memory planner of compiler/main.py: device routing, aliasing,       *)
(* pruning and re-validation, liveness, the arena layout and the tensor    *)
(* table.  Each pass is a step; the graph is any of PlannedGraphs, whose   *)
(* shapes are of the activations in the table, the ones that fusion left   *)
(* without an operator included.                                           *)
(***************************************************************************)
EXTENDS ArenaLayout, ArenaMemory, Prune

CONSTANT PlannedGraphs  \* graphs as they leave the fusion pass

\* The tensors of the table: the activations, the constants, and the buffers that
\* routing made, each with its load row.
TensorsOf(graph) ==
  DOMAIN graph.shape \cup DOMAIN ConstSize
    \cup ({Sram(c) : c \in DOMAIN ConstSize} \cap ArenaTensors(graph))

\* validate: every name is in the table.  The shapes are static.
NamesKnown(graph) ==
  Named(graph.ops, graph.inputs, graph.outputs) \subseteq TensorsOf(graph)

\* validate_topological: one writer per tensor, writers before readers.
IsValid(graph) ==
  /\ \A i, j \in Rows(graph.ops) :
       ToSet(Row(graph.ops, i).outs) \cap ToSet(Row(graph.ops, j).outs) # {} => i = j
  /\ ~Rejected(graph.ops)
  /\ \A i \in Rows(graph.ops) :
       ToSet(Row(graph.ops, i).outs) \cap InputsOf(graph.ops, i) = {}

\* What is known of a graph then: names that are in the table, operators in
\* topological order; a static shape for every activation; nothing read or
\* returned that is an activation and has no origin; no input that an operator
\* writes; views that keep the size; no name like a staging buffer's.
IsSource(graph) ==
  /\ DOMAIN graph = {"ops", "inputs", "outputs", "shape"}
  /\ graph.ops \in Seq(SourceOp) /\ graph.inputs \in Seq(Tensor)
  /\ NamesKnown(graph) /\ IsValid(graph)
  /\ DOMAIN graph.shape \subseteq Tensor
  /\ \A t \in DOMAIN graph.shape : graph.shape[t] \in Seq(Nat)
  /\ ArenaTensors(graph) \subseteq DOMAIN graph.shape
  /\ Named(graph.ops, graph.inputs, graph.outputs) \cap DOMAIN graph.shape
       \subseteq ArenaTensors(graph)
  /\ \A i \in Rows(graph.ops) : ToSet(Row(graph.ops, i).outs) \cap ToSet(graph.inputs) = {}
  /\ \A i \in Rows(graph.ops) :
       IsView(graph, i) => BytesOf(graph, Operand(graph, i)) = BytesOf(graph, Result(graph, i))
  /\ \A c \in DOMAIN ConstSize :
       /\ c \notin DOMAIN graph.shape
       /\ Sram(c) \notin DOMAIN ConstSize \cup DOMAIN graph.shape
            \cup Named(graph.ops, graph.inputs, graph.outputs)

ASSUME PlanAssumption == \A graph \in PlannedGraphs : IsSource(graph)

VARIABLES
  g,      \* the graph
  stage,  \* "fused", "routed", "aliased", "pruned", "live", "planned" or "raised"
  root,   \* where the alias_of chain of each tensor ends
  live,   \* live_ranges
  table   \* the blocks of each tensor

vars == <<g, stage, root, live, table>>

Empty == [t \in {} |-> t]

Init ==
  /\ g \in PlannedGraphs
  /\ stage = "fused"
  /\ root = Empty /\ live = Empty /\ table = Empty

\* device_assignment.run, and the new row numbers.
Route ==
  /\ stage = "fused"
  /\ g' = [g EXCEPT !.ops = AssignDevices(@)]
  /\ stage' = "routed"
  /\ UNCHANGED <<root, live, table>>

\* alias_analysis.run
Alias ==
  /\ stage = "routed"
  /\ root' = RootsOf(g, AliasOf(g))
  /\ stage' = "aliased"
  /\ UNCHANGED <<g, live, table>>

\* prune.run, then validate and validate_topological.
PruneTable ==
  /\ stage = "aliased"
  /\ LET kept == Kept(g.shape, Named(g.ops, g.inputs, g.outputs), AliasOf(g))
     IN  g' = [g EXCEPT !.shape = [t \in kept |-> @[t]]]
  /\ stage' = IF NamesKnown(g') /\ IsValid(g') THEN "pruned" ELSE "raised"
  /\ UNCHANGED <<root, live, table>>

\* compute_liveness; it raises if some root has no range.
ComputeLiveness ==
  /\ stage = "pruned"
  /\ IF \A t \in ArenaTensors(g) : root[t] \in ArenaTensors(g)
     THEN stage' = "live" /\ live' = LiveRanges(g, root)
     ELSE stage' = "raised" /\ UNCHANGED live
  /\ UNCHANGED <<g, root, table>>

\* verify, the part about aliases: each fits in the slot of its root.
AliasesFit ==
  \A t \in ArenaTensors(g) : Blocks(g, t) <= Blocks(g, root[t])

\* CGenerator.__init__: every activation without an alias has a place.
AllPlaced == DOMAIN g.shape \ DOMAIN AliasOf(g) \subseteq DOMAIN live

PlanArena ==
  /\ stage = "live"
  /\ table' = TensorTable(g, root, Allocate(g, live))
  /\ stage' = IF AliasesFit /\ AllPlaced THEN "planned" ELSE "raised"
  /\ UNCHANGED <<g, root, live>>

Next == Route \/ Alias \/ PruneTable \/ ComputeLiveness \/ PlanArena

Spec == Init /\ [][Next]_vars

-----------------------------------------------------------------------------
(* Where the plan goes wrong. *)

InPlaceRows == {i \in Rows(g.ops) : IsInPlace(g, i)}

\* The tensors whose bytes are in the buffer row i overwrites when it does.
Overwritten(i) ==
  {t \in Sharing(g, root, root[Operand(g, i)]) : FirstDef(g, t) < i}

\* Some in-place row destroys bytes that are still wanted under another name.
OverwritesTooEarly ==
  \E i \in InPlaceRows : \E t \in Overwritten(i) :
    t \in g.outputs \/ LastUse(g, t) > i

\* A graph input with aliases, whose buffer is not reserved from the start.
InputNotReserved == \E t \in ToSet(g.inputs) \cap DOMAIN live : live[t].first # -1

-----------------------------------------------------------------------------
(* Properties. *)

\* No pass makes a graph that a later one refuses: staging names nothing that is
\* not in the table and keeps single assignment and topological order, every
\* alias has a root with a range and fits in its slot, and pruning drops what has
\* no operator and nothing else (README.md:30-33, ir.py:163-193, arena.py:192-197,
\* c_generator.py:144-151).
PlanningNeverRaises == stage # "raised"

\* Outside the two cases the planner gets wrong (OverwritesTooEarly and
\* InputNotReserved), rows that run by index compute the graph: aliases, live
\* ranges and the layout agree, so that each operand is in the arena from the row
\* that writes it to the last that reads it, and the outputs are when the caller
\* fetches them.
PlanIsSound ==
  stage = "planned" /\ ~OverwritesTooEarly /\ ~InputNotReserved
    => SequentiallySound(MapOf(g, table), Len(g.ops))

-----------------------------------------------------------------------------
(* What the documentation says and the code does not do. *)

\* "If the input tensor `X` is completely dead after this operation, the output
\* tensor `Y` can safely map to the exact same physical memory"
\* (alias_analysis.py:15-16): what an in-place row overwrites is dead.
OverwrittenIsDead == stage = "planned" => ~OverwritesTooEarly
=============================================================================
