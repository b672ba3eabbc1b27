------------------------------ MODULE ExecTable ------------------------------
(***************************************************************************)
(* The tables compiler/codegen/c_generator.py and power_analysis.py derive *)
(* from the lowered operator list: predecessor and successor lists, the    *)
(* bytes a DMA row moves and the power windows.  Positions in the list     *)
(* count from 1, rows of the table from 0.                                 *)
(***************************************************************************)
EXTENDS ExecImage, DeviceAssignment

CONSTANTS
  ActBytes,   \* byte size of activation tensors
  Wcet        \* function: device -> wcet_cycles of a compute row

ASSUME TableAssumption ==
  /\ ActBytes \in Nat
  /\ Wcet \in [Device -> Nat]

Rows(ops) == 0 .. Len(ops) - 1

Row(ops, i) == ops[i + 1]

InputsOf(ops, i) == ToSet(Row(ops, i).ins)

\* producer_map: the last row that writes t, if any.
Writers(ops, t) == {i \in Rows(ops) : t \in ToSet(Row(ops, i).outs)}

Producers(ops, t) ==
  {w \in Writers(ops, t) : \A v \in Writers(ops, t) : v <= w}

\* Mutant: only the last input of a row is looked up.
MutantPredsOf(ops, i) == Producers(ops, Last(Row(ops, i).ins)) \ {i}

\* Predecessors of a row: the producers of its inputs other than itself.
PredsOf(ops, i) == (UNION {Producers(ops, t) : t \in InputsOf(ops, i)}) \ {i}

\* The generator raises when a predecessor is not an earlier row.
Rejected(ops) == \E i \in Rows(ops) : \E p \in PredsOf(ops, i) : p >= i

SuccsOf(ops, i) == {j \in Rows(ops) : i \in PredsOf(ops, j)}

ByteSize(t) == IF t \in DOMAIN ConstSize THEN ConstSize[t] ELSE ActBytes

-----------------------------------------------------------------------------
(* compiler/passes/power_analysis.py *)

UsersOf(ops, d) == {i \in Rows(ops) : Row(ops, i).device = d}

Window(ops, d) ==
  [domain   |-> d,
   first    |-> CHOOSE i \in UsersOf(ops, d) : \A j \in UsersOf(ops, d) : i <= j,
   last     |-> CHOOSE i \in UsersOf(ops, d) : \A j \in UsersOf(ops, d) : j <= i,
   alwaysOn |-> d = "CPU"]

\* The entry that keeps the CPU in the plan when no row runs on it.
IdleCpuWindow(ops) ==
  [domain |-> "CPU", first |-> 0, alwaysOn |-> TRUE,
   last |-> IF Len(ops) = 0 THEN 0 ELSE Len(ops) - 1]

\* analyse(graph)
PowerPlan(ops) ==
  {Window(ops, d) : d \in {e \in Device : UsersOf(ops, e) # {}}}
    \cup IF UsersOf(ops, "CPU") = {} THEN {IdleCpuWindow(ops)} ELSE {}

-----------------------------------------------------------------------------
\* The image of a lowered operator list.
ImageOf(ops) ==
  [n      |-> Len(ops),
   device |-> [i \in Rows(ops) |-> Row(ops, i).device],
   preds  |-> [i \in Rows(ops) |-> PredsOf(ops, i)],
   succs  |-> [i \in Rows(ops) |-> SuccsOf(ops, i)],
   wcet   |-> [i \in Rows(ops) |-> Wcet[Row(ops, i).device]],
   bytes  |-> [i \in Rows(ops) |-> ByteSize(Row(ops, i).ins[1])],
   plan   |-> PowerPlan(ops)]
=============================================================================
