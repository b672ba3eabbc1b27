------------------------------ MODULE ExecImage ------------------------------
(***************************************************************************)
(* The compiled image: the ROM tables the code generator writes            *)
(* (g_sunits, g_power_plan) and the runtime reads.  An image is a record   *)
(*                                                                         *)
(*   n       NUM_OPS; rows are numbered 0 .. n-1                           *)
(*   device  target_device of each row                                     *)
(*   preds   predecessors of each row (initial_dep_count is its size)      *)
(*   succs   successors of each row                                        *)
(*   wcet    wcet_cycles of each row                                       *)
(*   bytes   byte_size of a row's first input (what a DMA row moves)       *)
(*   plan    the power plan: a set of [domain, first, last, alwaysOn]      *)
(*                                                                         *)
(* A power domain is named by the device it feeds: PWR_x by DEVICE_x.      *)
(***************************************************************************)
EXTENDS Integers, FiniteSets

Device == {"CPU", "NPU", "DMA"}

RowsOf(image) == 0 .. image.n - 1

PlanEntry == [domain : Device, first : Nat, last : Nat, alwaysOn : BOOLEAN]

\* Every table has one entry per row, of the right kind.
WellTyped(image) ==
  /\ image.n \in Nat
  /\ image.device \in [RowsOf(image) -> Device]
  /\ image.preds \in [RowsOf(image) -> SUBSET RowsOf(image)]
  /\ image.succs \in [RowsOf(image) -> SUBSET RowsOf(image)]
  /\ image.wcet \in [RowsOf(image) -> Nat]
  /\ image.bytes \in [RowsOf(image) -> Nat]
  /\ \A e \in image.plan : e \in PlanEntry

\* Rows are in topological order (c_generator.py:433-437 raises otherwise).
Topological(image) ==
  \A i \in RowsOf(image) : \A p \in image.preds[i] : p < i

\* The two adjacency lists of a row describe the same graph.
ListsAgree(image) ==
  \A i, j \in RowsOf(image) : j \in image.succs[i] <=> i \in image.preds[j]

\* A DMA row feeds some compute row: the pass inserts one only in front of an
\* NPU row that reads what it loads.
LoadsAreUsed(image) ==
  \A i \in RowsOf(image) :
    image.device[i] = "DMA" => \E j \in image.succs[i] : image.device[j] # "DMA"

\* Each domain has at most one entry, the CPU's is always on and no other is,
\* and each entry's window spans exactly the rows that use the domain.
PlanCovers(image) ==
  /\ \A e, f \in image.plan : e.domain = f.domain => e = f
  /\ \A e \in image.plan : e.alwaysOn <=> e.domain = "CPU"
  /\ \E e \in image.plan : e.domain = "CPU"
  /\ \A i \in RowsOf(image) :
       \E e \in image.plan :
         e.domain = image.device[i] /\ e.first <= i /\ i <= e.last
  /\ \A e \in image.plan : ~e.alwaysOn =>
       /\ e.first \in RowsOf(image) /\ image.device[e.first] = e.domain
       /\ e.last \in RowsOf(image) /\ image.device[e.last] = e.domain

WellFormed(image) ==
  /\ WellTyped(image)
  /\ Topological(image)
  /\ ListsAgree(image)
  /\ LoadsAreUsed(image)
  /\ PlanCovers(image)
=============================================================================
