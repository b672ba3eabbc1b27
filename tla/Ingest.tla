-------------------------------- MODULE Ingest --------------------------------
(***************************************************************************)
(* compiler/frontend/onnx_ingest.py, once the tensors are known: the nodes *)
(* of a model are put in topological order by counting the inputs each one *)
(* waits for, and the graph is validated.  Each turn of the loop is a      *)
(* step.  The code takes the ready nodes first come, first served; here    *)
(* they come in any order.                                                 *)
(*                                                                         *)
(* A model has nodes with a sequence of inputs and a set of outputs, the   *)
(* tensors that are given (graph inputs and initializers), and those that  *)
(* are no initializers and have a dimension that is not known.  A node     *)
(* that writes a tensor twice is left out.                                 *)
(***************************************************************************)
EXTENDS Integers, Sequences, FiniteSets

CONSTANTS
  Names,   \* of tensors
  Absent,  \* the empty name of an optional input or output
  Models   \* [nodes, given, dynamic]

ASSUME ModelsAssumption ==
  \A m \in Models :
    /\ m.nodes \in Seq([ins : Seq(Names), outs : SUBSET Names])
    /\ m.given \cup m.dynamic \subseteq Names

VARIABLES
  model,
  inDegree,  \* in_degrees
  ready,     \* ready_nodes
  sorted,    \* sorted_nodes, by index
  outcome      \* "sorting", "accepted" or "refused"

sortVars == <<model, inDegree, ready, sorted, outcome>>

Nodes(m) == DOMAIN m.nodes

\* Mutant: only the first input is looked at.
MutantUnmet(m, j) ==
  {k \in {1} : m.nodes[j].ins[k] \notin m.given \cup {Absent}}

\* The inputs of a node that nobody has given, by position.
Unmet(m, j) ==
  {k \in DOMAIN m.nodes[j].ins : m.nodes[j].ins[k] \notin m.given \cup {Absent}}

\* Mutant: a node that reads a tensor twice hears of it once.
MutantDelivered(m, i, j) ==
  IF \E k \in Unmet(m, j) : m.nodes[j].ins[k] \in m.nodes[i].outs THEN 1 ELSE 0

\* How many of them node i supplies: consumers has one entry for each.
Delivered(m, i, j) ==
  Cardinality({k \in Unmet(m, j) : m.nodes[j].ins[k] \in m.nodes[i].outs})

\* Mutant: a node becomes ready again at every input it hears of too many.
MutantBecomesReady(before, after) == after < before /\ after <= 0

\* A count reaches zero, and may be below it when all of node i is in.
BecomesReady(before, after) == before > 0 /\ after <= 0

SortInit ==
  /\ model \in Models
  /\ inDegree = [j \in Nodes(model) |-> Cardinality(Unmet(model, j))]
  /\ ready = {j \in Nodes(model) : Unmet(model, j) = {}}
  /\ sorted = <<>>
  /\ outcome = "sorting"

\* A ready node is sorted, and those that only waited for it become ready.
Pop(i) ==
  /\ outcome = "sorting" /\ i \in ready
  /\ sorted' = Append(sorted, i)
  /\ inDegree' = [j \in Nodes(model) |-> inDegree[j] - Delivered(model, i, j)]
  /\ ready' = (ready \ {i}) \cup {j \in Nodes(model) : BecomesReady(inDegree[j], inDegree'[j])}
  /\ UNCHANGED <<model, outcome>>

\* validate() looks up the inputs and the outputs of each node, and the table has
\* no tensor of the empty name.
NoneAbsent ==
  \A j \in Nodes(model) :
    /\ \A k \in DOMAIN model.nodes[j].ins : model.nodes[j].ins[k] # Absent
    /\ Absent \notin model.nodes[j].outs

\* It refuses an activation without a static shape, too.
StaticShapes == model.dynamic = {}

Finish ==
  /\ outcome = "sorting" /\ ready = {}
  /\ outcome' = IF Len(sorted) = Len(model.nodes) /\ NoneAbsent /\ StaticShapes
                THEN "accepted" ELSE "refused"
  /\ UNCHANGED <<model, inDegree, ready, sorted>>

SortNext == (\E i \in ready : Pop(i)) \/ Finish

SortSpec == SortInit /\ [][SortNext]_sortVars

-----------------------------------------------------------------------------
(* Properties. *)

\* No tensor has two producers, or is given and produced.
SingleProducers(m) ==
  /\ \A i, j \in Nodes(m) : i # j => m.nodes[i].outs \cap m.nodes[j].outs \subseteq {Absent}
  /\ \A i \in Nodes(m) : m.nodes[i].outs \cap m.given = {}

\* Whatever is sorted comes after all it reads (onnx_ingest.py:241-273), in a
\* model with single producers.  The sort does not ask for them: with two
\* producers a count reaches zero too early, and only the validation after the
\* passes finds out (ir.py:182-193).
SortIsTopological ==
  SingleProducers(model) =>
    \A p \in DOMAIN sorted : \A k \in DOMAIN model.nodes[sorted[p]].ins :
      LET t == model.nodes[sorted[p]].ins[k]
      IN  \/ t \in model.given \cup {Absent}
          \/ \E q \in 1 .. p - 1 : t \in model.nodes[sorted[q]].outs

\* Each node is sorted at most once, two producers or not, and all of them if
\* the model is accepted (onnx_ingest.py:275-279).
SortIsComplete ==
  /\ \A p, q \in DOMAIN sorted : sorted[p] = sorted[q] => p = q
  /\ outcome = "accepted" => \A i \in Nodes(model) : \E p \in DOMAIN sorted : sorted[p] = i

\* Some nodes wait for each other, or for what nobody produces.
Stuck(m, S) ==
  /\ S # {}
  /\ \A i \in S : \E k \in DOMAIN m.nodes[i].ins :
       /\ m.nodes[i].ins[k] \notin m.given \cup {Absent}
       /\ \A j \in Nodes(m) \ S : m.nodes[i].ins[k] \notin m.nodes[j].outs

\* A model whose inputs and outputs are all named and whose shapes are static is
\* refused only for nodes that can never run (onnx_ingest.py:275-279, ir.py:163-180).
OnlyStuckModelsRefused ==
  outcome = "refused" /\ NoneAbsent /\ StaticShapes =>
    \E S \in SUBSET Nodes(model) : Stuck(model, S)
=============================================================================
