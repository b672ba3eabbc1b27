----------------------------- MODULE ArenaMemory -----------------------------
(***************************************************************************)
(* What the arena holds, block by block.  A value is named by the tensor   *)
(* it belongs to: a block holds the meaning of a tensor or Garbage.  A     *)
(* memory map m has, of an image and its tensor table,                     *)
(*                                                                         *)
(*   reads, writes   the arena tensors each row reads and writes           *)
(*   blocks          the blocks of each tensor                             *)
(*   meaning         the value each tensor stands for: a view stands for   *)
(*                   what its operand stands for                           *)
(*   inputs, outputs the tensors the caller fills and fetches              *)
(***************************************************************************)
EXTENDS Integers, Sequences, SequencesExt

\* What no tensor stands for: tensors are sequences.
Garbage == [x \in {0} |-> "garbage"]

\* What the fields of a map of n rows are.
IsMap(m, n) ==
  /\ m.reads \in [0 .. n - 1 -> SUBSET DOMAIN m.blocks]
  /\ m.writes \in [0 .. n - 1 -> SUBSET DOMAIN m.blocks]
  /\ m.inputs \in Seq(DOMAIN m.blocks)
  /\ m.outputs \subseteq DOMAIN m.blocks

\* What the tables say of a map: a load reads nothing of the arena, and a row
\* waits for those that write its operands.
MapFits(m, tables) ==
  /\ IsMap(m, tables.n)
  /\ \A t \in DOMAIN m.blocks : m.meaning[t] # Garbage
  /\ \A i \in 0 .. tables.n - 1 : tables.device[i] = "DMA" => m.reads[i] = {}
  /\ \A i, j \in 0 .. tables.n - 1 :
       m.reads[i] \cap m.writes[j] # {} => j \in tables.preds[i]

Holds(m, mem, t) == \A b \in m.blocks[t] : mem[b] = m.meaning[t]

ReadsIntact(m, mem, i) == \A t \in m.reads[i] : Holds(m, mem, t)

\* A row computes what its results stand for if its operands hold what they
\* stand for.  Its operands are read before its result is written.
Compute(m, mem, i) ==
  LET written(b) == {t \in m.writes[i] : b \in m.blocks[t]}
      result(b) == m.meaning[CHOOSE t \in written(b) : TRUE]
  IN  [b \in DOMAIN mem |-> IF written(b) = {} THEN mem[b]
                            ELSE IF ReadsIntact(m, mem, i) THEN result(b) ELSE Garbage]

\* The caller copies its input tensors in, one after the other.
FillInputs(m, mem) ==
  LET filled(b) == {k \in DOMAIN m.inputs : b \in m.blocks[m.inputs[k]]}
  IN  [b \in DOMAIN mem |-> IF filled(b) = {} THEN mem[b]
                            ELSE m.meaning[m.inputs[Max(filled(b))]]]

OutputsHold(m, mem) == \A t \in m.outputs : Holds(m, mem, t)

ClearMemory(m) ==
  [b \in UNION {m.blocks[t] : t \in DOMAIN m.blocks} |-> Garbage]

\* When it is the turn of row k of n, that row and those after it find their
\* operands, but for what is still to be written.
OperandsHeld(m, mem, k, n) ==
  \A i \in k .. n - 1 : \A t \in m.reads[i] :
    i = k \/ (\A j \in k .. n - 1 : t \notin m.writes[j]) => Holds(m, mem, t)

\* The arena after rows 0 .. n-1 one after the other, and whether each operand
\* was in place from when it was written to its last reader.
RunInOrder(m, n) ==
  LET Turn(acc, i) == [mem    |-> Compute(m, acc.mem, i),
                       intact |-> acc.intact /\ OperandsHeld(m, acc.mem, i, n)]
      after[k \in 0 .. n] ==
        IF k = 0 THEN [mem |-> FillInputs(m, ClearMemory(m)), intact |-> TRUE]
        ELSE Turn(after[k - 1], k - 1)
  IN  after[n]

\* Rows run by index compute the graph.
SequentiallySound(m, n) ==
  LET end == RunInOrder(m, n)
  IN  end.intact /\ OutputsHold(m, end.mem)
=============================================================================
