------------------------------- MODULE Lowering ------------------------------
(***************************************************************************)
(* The back half of compiler/main.py: the planner's passes, then emission. *)
(* The code generator writes the image of the routed graph, or refuses it. *)
(***************************************************************************)
EXTENDS MemoryPlan

VARIABLES
  source,  \* the operators before routing
  image    \* the emitted tables

NoImage == [n |-> 0]

LoweringInit ==
  /\ Init
  /\ source = g.ops
  /\ image = NoImage

Plan == Next /\ UNCHANGED <<source, image>>

Emit ==
  /\ stage = "planned"
  /\ IF Rejected(g.ops)
     THEN stage' = "raised" /\ UNCHANGED image
     ELSE stage' = "emitted" /\ image' = ImageOf(g.ops)
  /\ UNCHANGED <<g, root, live, table, source>>

LoweringNext == Plan \/ Emit

LoweringSpec == LoweringInit /\ [][LoweringNext]_<<vars, source, image>>

-----------------------------------------------------------------------------
LoadRows == {i \in Rows(g.ops) : Row(g.ops, i).device = "DMA"}

\* What the runtime takes for granted about its ROM tables, from any graph in
\* topological order: the generator accepts it and its image is well formed
\* (c_generator.py:433-437 and the module header of power_analysis.py).
ImageIsWellFormed ==
  stage \in {"emitted", "raised"} => stage = "emitted" /\ WellFormed(image)

\* A large constant is fetched once, however many NPU rows read it, none reads
\* it around its staging buffer, and each of them waits for the one fetch
\* (device_assignment.py:30-32).
FetchedOnceAndAwaited ==
  stage = "emitted" =>
    /\ \A i, j \in LoadRows : Row(g.ops, i).ins = Row(g.ops, j).ins => i = j
    /\ \A i \in Rows(g.ops) : image.device[i] = "NPU" =>
         /\ \A t \in InputsOf(g.ops, i) :
              t \in DOMAIN ConstSize => ConstSize[t] < DmaMinBytes
         /\ \A k \in LoadRows :
              Sram(Row(g.ops, k).ins[1]) \in InputsOf(g.ops, i)
                <=> k \in image.preds[i]

\* The rewrite moves data and changes none: in order, the rows other than the
\* loads are the operators of the source, with every staging buffer read as the
\* constant it holds.
Unstaged(t) ==
  IF \E c \in DOMAIN ConstSize : t = Sram(c)
  THEN CHOOSE c \in DOMAIN ConstSize : t = Sram(c)
  ELSE t

ComputeRows == Rows(g.ops) \ LoadRows

\* The operator that became compute row i.
SourceOf(i) == source[Cardinality({j \in ComputeRows : j <= i})]

ReadsTheSameData ==
  stage # "fused" =>
    /\ Cardinality(ComputeRows) = Len(source)
    /\ \A i \in ComputeRows :
         SourceOf(i) = [type |-> Row(g.ops, i).type, outs |-> Row(g.ops, i).outs,
                        ins  |-> [j \in DOMAIN Row(g.ops, i).ins |->
                                    Unstaged(Row(g.ops, i).ins[j])]]
=============================================================================
