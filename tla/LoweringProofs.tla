--------------------------- MODULE LoweringProofs ----------------------------
(***************************************************************************)
(* What the back half of the compiler makes of any graph in topological    *)
(* order: no pass raises, routing fetches each large constant once and     *)
(* changes no data, the image is well formed, and the memory plan is sound.*)
(*                                                                         *)
(* Routing is an induction over the source rows (Partial): after each of   *)
(* them the rows so far are its operators in order, with one load before   *)
(* the first NPU reader of each large constant.  Everything the image and  *)
(* the planner need of the new rows follows from that: single writers,     *)
(* writers before readers, kept names and shapes.  MemoryProofs then takes *)
(* the planned graph to a sound plan.  IInv says, stage by stage, what     *)
(* the passes so far have made of the source.                              *)
(***************************************************************************)
EXTENDS Lowering, MemoryProofs

Routing == [ops : Seq(LoweredOp), sram : SUBSET DOMAIN ConstSize]

-----------------------------------------------------------------------------
(* Names. *)

LEMMA TensorsAreNames == Tensor \subseteq Name
<1>1. STRING \subseteq Word
  BY DEF Word
<1> QED
  BY <1>1, SeqMonotonic DEF Tensor, Name

LEMMA SramIsName ==
  ASSUME NEW c \in Name
  PROVE  /\ Sram(c) \in Name
         /\ Len(Sram(c)) = Len(c) + 1
         /\ \A k \in 1 .. Len(c) : Sram(c)[k + 1] = c[k]
<1>1. "sram" \in Word
  BY DEF Word
<1>2. <<"sram">> \in Seq(Word) /\ Len(<<"sram">>) = 1
  BY <1>1
<1>3. c \in Seq(Word) /\ Len(c) \in Nat
  BY DEF Name
<1>4. /\ Sram(c) \in Seq(Word)
      /\ Len(Sram(c)) = 1 + Len(c)
      /\ \A i \in 1 .. 1 + Len(c) : Sram(c)[i] = IF i <= 1 THEN <<"sram">>[i] ELSE c[i - 1]
  BY <1>2, <1>3, ConcatProperties DEF Sram
<1>5. \A k \in 1 .. Len(c) : k + 1 \in 1 .. 1 + Len(c) /\ ~(k + 1 <= 1) /\ (k + 1) - 1 = k
  BY <1>3
<1>6. \A k \in 1 .. Len(c) : Sram(c)[k + 1] = c[k]
  BY <1>4, <1>5
<1> QED
  BY <1>3, <1>4, <1>6 DEF Name

\* Each constant has a staging buffer of its own.
LEMMA SramIsInjective ==
  ASSUME NEW c \in Name, NEW d \in Name, Sram(c) = Sram(d)
  PROVE  c = d
<1>1. Len(c) = Len(d) /\ Len(c) \in Nat /\ Len(d) \in Nat
  BY SramIsName DEF Name
<1>2. \A k \in 1 .. Len(c) : c[k] = d[k]
  BY <1>1, SramIsName
<1>3. c = [k \in 1 .. Len(c) |-> c[k]] /\ d = [k \in 1 .. Len(d) |-> d[k]]
  BY DEF Name
<1> QED
  BY <1>1, <1>2, <1>3

-----------------------------------------------------------------------------
(* The rewrite, one operator after the other. *)

LEMMA StageTyped ==
  ASSUME NEW acc \in Routing, NEW t \in Name
  PROVE  Stage(acc, t) \in Routing
<1>1. CASE IsStaged(t) /\ t \notin acc.sram
  <2>1. LoadRow(t) \in LoweredOp
    <3>1. <<t>> \in Seq(Name) /\ <<Sram(t)>> \in Seq(Name)
      BY SramIsName
    <3>2. "DMA" \in Device
      BY DEF Device
    <3>3. "DMA_LOAD" \in Word
      BY DEF Word
    <3> QED
      BY <3>1, <3>2, <3>3 DEF LoadRow, LoweredOp
  <2>2. t \in DOMAIN ConstSize
    BY <1>1 DEF IsStaged
  <2>3. Append(acc.ops, LoadRow(t)) \in Seq(LoweredOp)
    BY <2>1 DEF Routing
  <2> QED
    BY <1>1, <2>2, <2>3 DEF Stage, Routing
<1>2. CASE ~(IsStaged(t) /\ t \notin acc.sram)
  BY <1>2 DEF Stage
<1> QED
  BY <1>1, <1>2

LEMMA StageInputsUnfolds ==
  ASSUME NEW acc \in Routing, NEW op \in SourceOp
  PROVE  \E after \in [0 .. Len(op.ins) -> Routing] :
           /\ after[0] = acc
           /\ \A k \in 1 .. Len(op.ins) : after[k] = Stage(after[k - 1], op.ins[k])
           /\ StageInputs(acc, op) = after[Len(op.ins)]
<1> DEFINE n == Len(op.ins)
           st == [p \in (1 .. n) \X Routing |-> Stage(p[2], op.ins[p[1]])]
           f == CHOOSE h : h = [k \in 0 .. n |->
                                  IF k = 0 THEN acc ELSE Stage(h[k - 1], op.ins[k])]
<1>1. n \in Nat /\ \A k \in 1 .. n : op.ins[k] \in Name
  BY TensorsAreNames DEF SourceOp
<1>2. st \in [(1 .. n) \X Routing -> Routing]
  BY <1>1, StageTyped
<1>3. PICK h \in [0 .. n -> Routing] : Recurs(n, acc, st, h)
  <2> HIDE DEF st, f, n
  <2>1. n \in Nat /\ acc \in Routing
    BY <1>1
  <2> QED
    BY <2>1, <1>2, RecursionExists
<1>4. ASSUME NEW k \in 0 .. n
      PROVE  h[k] = IF k = 0 THEN acc ELSE Stage(h[k - 1], op.ins[k])
  <2>1. CASE k = 0
    BY <1>3, <2>1 DEF Recurs
  <2>2. CASE k # 0
    <3>1. k \in 1 .. n /\ k - 1 \in 0 .. n
      BY <1>1, <2>2
    <3>2. <<k, h[k - 1]>> \in (1 .. n) \X Routing
      BY <3>1
    <3> QED
      BY <1>3, <2>2, <3>2 DEF Recurs
  <2> QED
    BY <2>1, <2>2
<1>5. h = [k \in 0 .. n |-> IF k = 0 THEN acc ELSE Stage(h[k - 1], op.ins[k])]
  BY <1>4
<1>6. f = [k \in 0 .. n |-> IF k = 0 THEN acc ELSE Stage(f[k - 1], op.ins[k])]
  BY <1>5
<1>7. StageInputs(acc, op) = f[n]
  BY DEF StageInputs
<1> HIDE DEF f, st
<1>8. f[0] = acc /\ \A k \in 1 .. n : f[k] = Stage(f[k - 1], op.ins[k])
  <2>1. \A k \in 0 .. n : f[k] = IF k = 0 THEN acc ELSE Stage(f[k - 1], op.ins[k])
    BY <1>6
  <2>2. 0 \in 0 .. n /\ \A k \in 1 .. n : k \in 0 .. n /\ k # 0
    BY <1>1
  <2> HIDE DEF n
  <2> QED
    BY <2>1, <2>2
<1>9. f \in [0 .. n -> Routing]
  <2> DEFINE G == {m \in Nat : m <= n => f[m] \in Routing}
  <2>1. 0 \in G
    BY <1>8
  <2>2. ASSUME NEW m \in Nat, m \in G PROVE m + 1 \in G
    <3>1. SUFFICES ASSUME m + 1 <= n PROVE f[m + 1] \in Routing
      OBVIOUS
    <3> HIDE DEF n
    <3>2. m + 1 \in 1 .. n /\ (m + 1) - 1 = m /\ m <= n
      BY <1>1, <3>1
    <3>3. f[m + 1] = Stage(f[(m + 1) - 1], op.ins[m + 1])
      BY <1>8, <3>2
    <3>4. f[m] \in Routing
      BY <2>2, <3>2
    <3> QED
      BY <1>1, <3>2, <3>3, <3>4, StageTyped DEF n
  <2> HIDE DEF G
  <2>3. \A m \in 0 .. n : m \in G
    BY <1>1, <2>1, <2>2, NatInductive
  <2>4. \A m \in 0 .. n : f[m] \in Routing
    BY <1>1, <2>3 DEF G
  <2> QED
    BY <1>6, <2>4
<1> QED
  BY <1>7, <1>8, <1>9

LEMMA PlacedTyped ==
  ASSUME NEW op \in SourceOp
  PROVE  /\ OnNpu(op) \in LoweredOp /\ OnCpu(op) \in LoweredOp
         /\ DOMAIN OnNpu(op).ins = DOMAIN op.ins
         /\ \A k \in DOMAIN op.ins :
              OnNpu(op).ins[k] = IF IsStaged(op.ins[k]) THEN Sram(op.ins[k]) ELSE op.ins[k]
<1> DEFINE n == Len(op.ins)
           ins == [k \in DOMAIN op.ins |->
                     IF IsStaged(op.ins[k]) THEN Sram(op.ins[k]) ELSE op.ins[k]]
<1>1. op.type \in STRING /\ op.ins \in Seq(Tensor) /\ op.outs \in Seq(Tensor)
  BY DEF SourceOp
<1>2. op.type \in Word /\ op.ins \in Seq(Name) /\ op.outs \in Seq(Name)
  BY <1>1, TensorsAreNames, SeqMonotonic DEF Word
<1>3. n \in Nat /\ DOMAIN op.ins = 1 .. n /\ \A k \in 1 .. n : op.ins[k] \in Name
  BY <1>2
<1>4. \A k \in 1 .. n : ins[k] \in Name
  BY <1>3, SramIsName
<1>5. ins \in Seq(Name)
  <2>1. ins \in [1 .. n -> Name]
    BY <1>3, <1>4
  <2> QED
    BY <1>3, <2>1
<1>6. {"CPU", "NPU"} \subseteq Device
  BY DEF Device
<1> QED
  BY <1>2, <1>5, <1>6 DEF LoweredOp, OnNpu, OnCpu

LEMMA AssignOpTyped ==
  ASSUME NEW acc \in Routing, NEW op \in SourceOp
  PROVE  /\ StageInputs(acc, op) \in Routing
         /\ AssignOp(acc, op) \in Routing
<1>1. StageInputs(acc, op) \in Routing
  <2>1. Len(op.ins) \in 0 .. Len(op.ins)
    BY DEF SourceOp
  <2> QED
    BY <2>1, StageInputsUnfolds
<1>2. ASSUME NEW a \in Routing, NEW row \in LoweredOp
      PROVE  [a EXCEPT !.ops = Append(@, row)] \in Routing
  <2>1. Append(a.ops, row) \in Seq(LoweredOp)
    BY DEF Routing
  <2> QED
    BY <2>1 DEF Routing
<1> QED
  BY <1>1, <1>2, PlacedTyped DEF AssignOp

LEMMA AssignDevicesUnfolds ==
  ASSUME NEW ops \in Seq(SourceOp)
  PROVE  \E after \in [0 .. Len(ops) -> Routing] :
           /\ after[0] = [ops |-> << >>, sram |-> {}]
           /\ \A k \in 1 .. Len(ops) : after[k] = AssignOp(after[k - 1], ops[k])
           /\ AssignDevices(ops) = after[Len(ops)].ops
<1> DEFINE n == Len(ops)
           base == [ops |-> << >>, sram |-> {}]
           st == [p \in (1 .. n) \X Routing |-> AssignOp(p[2], ops[p[1]])]
           f == CHOOSE h : h = [k \in 0 .. n |->
                                  IF k = 0 THEN base ELSE AssignOp(h[k - 1], ops[k])]
<1>1. n \in Nat /\ \A k \in 1 .. n : ops[k] \in SourceOp
  OBVIOUS
<1>2. st \in [(1 .. n) \X Routing -> Routing]
  BY <1>1, AssignOpTyped
<1>3. base \in Routing
  BY DEF Routing
<1>4. PICK h \in [0 .. n -> Routing] : Recurs(n, base, st, h)
  <2> HIDE DEF base, st, f, n
  <2> QED
    BY <1>1, <1>2, <1>3, RecursionExists
<1>5. ASSUME NEW k \in 0 .. n
      PROVE  h[k] = IF k = 0 THEN base ELSE AssignOp(h[k - 1], ops[k])
  <2>1. CASE k = 0
    BY <1>4, <2>1 DEF Recurs
  <2>2. CASE k # 0
    <3>1. k \in 1 .. n /\ k - 1 \in 0 .. n
      BY <1>1, <2>2
    <3>2. <<k, h[k - 1]>> \in (1 .. n) \X Routing
      BY <3>1
    <3> QED
      BY <1>4, <2>2, <3>2 DEF Recurs
  <2> QED
    BY <2>1, <2>2
<1>6. h = [k \in 0 .. n |-> IF k = 0 THEN base ELSE AssignOp(h[k - 1], ops[k])]
  BY <1>5
<1>7. f = [k \in 0 .. n |-> IF k = 0 THEN base ELSE AssignOp(f[k - 1], ops[k])]
  BY <1>6
<1>8. AssignDevices(ops) = f[n].ops
  BY DEF AssignDevices
<1> HIDE DEF f, st, base
<1>9. f[0] = base /\ \A k \in 1 .. n : f[k] = AssignOp(f[k - 1], ops[k])
  <2>1. \A k \in 0 .. n : f[k] = IF k = 0 THEN base ELSE AssignOp(f[k - 1], ops[k])
    BY <1>7
  <2>2. 0 \in 0 .. n /\ \A k \in 1 .. n : k \in 0 .. n /\ k # 0
    BY <1>1
  <2> HIDE DEF n
  <2> QED
    BY <2>1, <2>2
<1>10. f \in [0 .. n -> Routing]
  <2> DEFINE G == {m \in Nat : m <= n => f[m] \in Routing}
  <2>1. 0 \in G
    BY <1>3, <1>9
  <2>2. ASSUME NEW m \in Nat, m \in G PROVE m + 1 \in G
    <3>1. SUFFICES ASSUME m + 1 <= n PROVE f[m + 1] \in Routing
      OBVIOUS
    <3>2. f[m + 1] = AssignOp(f[(m + 1) - 1], ops[m + 1]) /\ m + 1 \in 1 .. n
      BY <1>1, <1>9, <3>1
    <3>3. f[m] \in Routing /\ (m + 1) - 1 = m
      BY <1>1, <2>2, <3>1
    <3> QED
      BY <1>1, <3>2, <3>3, AssignOpTyped
  <2> HIDE DEF G
  <2>3. \A m \in 0 .. n : m \in G
    BY <1>1, <2>1, <2>2, NatInductive
  <2>4. \A m \in 0 .. n : f[m] \in Routing
    BY <1>1, <2>3 DEF G
  <2> QED
    BY <1>7, <2>4
<1> QED
  BY <1>8, <1>9, <1>10 DEF base

-----------------------------------------------------------------------------
(* What holds of the rows so far.  Rows count from 1 here. *)

Computing(list) == {i \in 1 .. Len(list) : list[i].device # "DMA"}

Upto(list, i) == {j \in Computing(list) : j <= i}

\* The number of the operator that became compute row i.
Number(list, i) == Cardinality(Upto(list, i))

Placed(op) == IF op.type \in NpuOps THEN OnNpu(op) ELSE OnCpu(op)

\* The compute rows are the first k operators, in order.
InOrder(list, ops, k) ==
  /\ Cardinality(Computing(list)) = k
  /\ \A i \in Computing(list) :
       Number(list, i) \in 1 .. k /\ list[i] = Placed(ops[Number(list, i)])

\* The other rows load the staged constants, each of them once.
LoadsOnce(list, sram) ==
  /\ \A c \in sram : IsStaged(c) /\ \E i \in 1 .. Len(list) : list[i] = LoadRow(c)
  /\ \A i \in 1 .. Len(list) :
       list[i].device = "DMA" => \E c \in sram : list[i] = LoadRow(c)
  /\ \A i, j \in 1 .. Len(list) :
       list[i].device = "DMA" /\ list[j] = list[i] => i = j

\* Each staged constant that a row reads has been loaded before.
LoadedBefore(list) ==
  \A i \in 1 .. Len(list) : list[i].device = "NPU" =>
    \A c \in DOMAIN ConstSize : Sram(c) \in ToSet(list[i].ins) =>
      \E j \in 1 .. i - 1 : list[j] = LoadRow(c)

\* Each load is for a later row, or for the operator that is being placed.
UsedAfter(list, open) ==
  \A i \in 1 .. Len(list) : \A c \in DOMAIN ConstSize :
    list[i] = LoadRow(c) =>
      \/ c \in open
      \/ \E j \in i + 1 .. Len(list) :
           list[j].device = "NPU" /\ Sram(c) \in ToSet(list[j].ins)

Partial(acc, ops, k, open) ==
  /\ acc \in Routing
  /\ InOrder(acc.ops, ops, k)
  /\ LoadsOnce(acc.ops, acc.sram)
  /\ LoadedBefore(acc.ops)
  /\ UsedAfter(acc.ops, open)

LEMMA ComputingIsFinite ==
  ASSUME NEW list \in Seq(LoweredOp)
  PROVE  /\ IsFiniteSet(Computing(list)) /\ Cardinality(Computing(list)) \in Nat
         /\ \A i \in Int : IsFiniteSet(Upto(list, i)) /\ Number(list, i) \in Nat
<1>1. IsFiniteSet(1 .. Len(list))
  BY FS_Interval
<1>2. Computing(list) \subseteq 1 .. Len(list) /\ \A i \in Int : Upto(list, i) \subseteq 1 .. Len(list)
  BY DEF Computing, Upto
<1> QED
  BY <1>1, <1>2, FS_Subset, FS_CardinalityType DEF Number

\* Earlier compute rows have lower ranks, and the last rank is their number.
LEMMA NumberGrows ==
  ASSUME NEW list \in Seq(LoweredOp)
  PROVE  \A i, j \in Computing(list) : i < j => Number(list, i) < Number(list, j)
<1> SUFFICES ASSUME NEW i \in Computing(list), NEW j \in Computing(list), i < j
             PROVE  Number(list, i) < Number(list, j)
  OBVIOUS
<1>1. i \in Int /\ j \in Int
  BY DEF Computing
<1>2. Upto(list, i) \subseteq Upto(list, j) /\ j \in Upto(list, j) /\ j \notin Upto(list, i)
  BY <1>1 DEF Upto, Computing
<1>3. IsFiniteSet(Upto(list, j))
  BY <1>1, ComputingIsFinite
<1> QED
  BY <1>2, <1>3, FS_Subset, FS_CardinalityType DEF Number

LEMMA AppendRow ==
  ASSUME NEW list \in Seq(LoweredOp), NEW row \in LoweredOp
  PROVE  /\ Append(list, row) \in Seq(LoweredOp) /\ Len(Append(list, row)) = Len(list) + 1
         /\ Append(list, row)[Len(list) + 1] = row
         /\ \A i \in 1 .. Len(list) : Append(list, row)[i] = list[i]
         /\ row.device = "DMA" => Computing(Append(list, row)) = Computing(list)
         /\ row.device # "DMA" =>
              Computing(Append(list, row)) = Computing(list) \cup {Len(list) + 1}
         /\ \A i \in Computing(list) : Number(Append(list, row), i) = Number(list, i)
         /\ row.device # "DMA" =>
              Number(Append(list, row), Len(list) + 1) = Cardinality(Computing(list)) + 1
<1> DEFINE longer == Append(list, row)
           n == Len(list) + 1
<1>1. /\ longer \in Seq(LoweredOp) /\ Len(longer) = n /\ n \in Nat
      /\ longer[n] = row /\ \A i \in 1 .. Len(list) : longer[i] = list[i]
  OBVIOUS
<1>2. 1 .. n = (1 .. Len(list)) \cup {n} /\ n \notin 1 .. Len(list)
  OBVIOUS
<1>3. Computing(longer) = Computing(list) \cup IF row.device = "DMA" THEN {} ELSE {n}
  <2> HIDE DEF longer, n
  <2> QED
    BY <1>1, <1>2 DEF Computing
<1>4. \A i \in Computing(list) : Number(longer, i) = Number(list, i)
  <2> SUFFICES ASSUME NEW i \in Computing(list) PROVE Upto(longer, i) = Upto(list, i)
    BY DEF Number
  <2>1. i \in 1 .. Len(list) /\ ~(n <= i)
    BY DEF Computing
  <2> HIDE DEF longer, n
  <2> QED
    BY <1>3, <2>1 DEF Upto
<1>5. ASSUME row.device # "DMA" PROVE Number(longer, n) = Cardinality(Computing(list)) + 1
  <2>1. \A j \in Computing(list) : j <= n
    BY DEF Computing
  <2>2. n \notin Computing(list)
    BY DEF Computing
  <2>3. Upto(longer, n) = Computing(list) \cup {n}
    <3> HIDE DEF longer
    <3> QED
      BY <1>3, <1>5, <2>1 DEF Upto
  <2>4. IsFiniteSet(Computing(list))
    BY ComputingIsFinite
  <2> HIDE DEF longer, n
  <2> QED
    BY <2>2, <2>3, <2>4, FS_AddElement DEF Number
<1> QED
  BY <1>1, <1>3, <1>4, <1>5

LEMMA LoadRowFacts ==
  /\ \A c : LoadRow(c).device = "DMA" /\ LoadRow(c).ins = <<c>> /\ LoadRow(c).outs = <<Sram(c)>>
  /\ \A c, d : LoadRow(c) = LoadRow(d) => c = d
<1>1. \A c : LoadRow(c).device = "DMA" /\ LoadRow(c).ins = <<c>> /\ LoadRow(c).outs = <<Sram(c)>>
  BY DEF LoadRow
<1>2. \A c, d : <<c>> = <<d>> => c = d
  OBVIOUS
<1> QED
  BY <1>1, <1>2

\* A load row, if it is needed, keeps what holds.
LEMMA StageKeeps ==
  ASSUME NEW acc, NEW ops, NEW k, NEW open, Partial(acc, ops, k, open), NEW t \in Name
  PROVE  /\ Partial(Stage(acc, t), ops, k, open \cup {t})
         /\ acc.sram \subseteq Stage(acc, t).sram
         /\ IsStaged(t) => t \in Stage(acc, t).sram
<1> DEFINE list == acc.ops
           n == Len(list) + 1
           longer == Append(list, LoadRow(t))
<1>1. CASE ~(IsStaged(t) /\ t \notin acc.sram)
  <2>1. Stage(acc, t) = acc
    BY <1>1 DEF Stage
  <2>2. UsedAfter(acc.ops, open \cup {t})
    BY DEF Partial, UsedAfter
  <2> QED
    BY <1>1, <2>1, <2>2 DEF Partial
<1>2. CASE IsStaged(t) /\ t \notin acc.sram
  <2>1. Stage(acc, t) = [ops |-> longer, sram |-> acc.sram \cup {t}]
    BY <1>2 DEF Stage
  <2>2. Stage(acc, t) \in Routing /\ list \in Seq(LoweredOp) /\ longer \in Seq(LoweredOp)
    <3>1. Stage(acc, t) \in Routing /\ acc \in Routing
      BY StageTyped DEF Partial
    <3> HIDE DEF longer
    <3> QED
      BY <2>1, <3>1 DEF Routing
  <2>3. LoadRow(t) \in LoweredOp
    <3>1. Len(longer) = n /\ longer[n] = LoadRow(t) /\ n \in 1 .. n
      BY <2>2
    <3> HIDE DEF longer, n
    <3> QED
      BY <2>2, <3>1, ElementOfSeq
  <2>4. /\ Len(longer) = n /\ n \in Nat
        /\ longer[n] = LoadRow(t) /\ \A i \in 1 .. Len(list) : longer[i] = list[i]
        /\ Computing(longer) = Computing(list)
        /\ \A i \in Computing(list) : Number(longer, i) = Number(list, i)
    <3>1. LoadRow(t).device = "DMA"
      BY LoadRowFacts
    <3> DEFINE row == LoadRow(t)
    <3>2. row \in LoweredOp /\ row.device = "DMA" /\ list \in Seq(LoweredOp)
      BY <2>2, <2>3, <3>1
    <3> HIDE DEF row, list
    <3>3. /\ Len(Append(list, row)) = Len(list) + 1
          /\ Append(list, row)[Len(list) + 1] = row
          /\ \A i \in 1 .. Len(list) : Append(list, row)[i] = list[i]
          /\ Computing(Append(list, row)) = Computing(list)
          /\ \A i \in Computing(list) : Number(Append(list, row), i) = Number(list, i)
      BY <3>2, AppendRow
    <3> QED
      BY <3>2, <3>3 DEF row
  <2>5. /\ 1 .. n = (1 .. Len(list)) \cup {n} /\ n \notin 1 .. Len(list)
        /\ \A i \in 1 .. Len(list) : i \in Nat /\ i < n
    BY <2>2
  <2> HIDE DEF longer, n
  <2>6. InOrder(longer, ops, k)
    <3>1. \A i \in Computing(list) : longer[i] = list[i]
      BY <2>4 DEF Computing
    <3> QED
      BY <2>4, <3>1 DEF Partial, InOrder
  <2>7. LoadsOnce(longer, acc.sram \cup {t})
    <3>1. LoadsOnce(list, acc.sram)
      BY DEF Partial
    <3>2. ASSUME NEW c \in acc.sram \cup {t}
          PROVE  IsStaged(c) /\ \E i \in 1 .. n : longer[i] = LoadRow(c)
      <4>1. CASE c = t
        BY <1>2, <2>4, <2>5, <4>1
      <4>2. CASE c # t
        <5>1. c \in acc.sram
          BY <4>2
        <5> QED
          BY <2>4, <2>5, <3>1, <5>1 DEF LoadsOnce
      <4> QED
        BY <4>1, <4>2
    <3>3. ASSUME NEW i \in 1 .. n, longer[i].device = "DMA"
          PROVE  \E c \in acc.sram \cup {t} : longer[i] = LoadRow(c)
      <4>1. CASE i = n
        BY <2>4, <4>1
      <4>2. CASE i # n
        BY <2>4, <2>5, <3>1, <3>3, <4>2 DEF LoadsOnce
      <4> QED
        BY <4>1, <4>2
    <3>4. ASSUME NEW i \in 1 .. Len(list) PROVE list[i] # LoadRow(t)
      <4>1. SUFFICES ASSUME list[i] = LoadRow(t) PROVE FALSE
        OBVIOUS
      <4>2. PICK c \in acc.sram : list[i] = LoadRow(c)
        BY <3>1, <4>1, LoadRowFacts DEF LoadsOnce
      <4> QED
        BY <1>2, <4>1, <4>2, LoadRowFacts
    <3>5. ASSUME NEW i \in 1 .. n, NEW j \in 1 .. n, longer[i].device = "DMA",
                 longer[j] = longer[i]
          PROVE  i = j
      <4>1. CASE i \in 1 .. Len(list) /\ j \in 1 .. Len(list)
        BY <2>4, <3>1, <3>5, <4>1 DEF LoadsOnce
      <4>2. CASE ~(i \in 1 .. Len(list) /\ j \in 1 .. Len(list))
        BY <2>4, <2>5, <3>4, <3>5, <4>2
      <4> QED
        BY <4>1, <4>2
    <3> QED
      BY <2>4, <3>2, <3>3, <3>5 DEF LoadsOnce
  <2>8. LoadedBefore(longer)
    <3> SUFFICES ASSUME NEW i \in 1 .. n, longer[i].device = "NPU",
                        NEW c \in DOMAIN ConstSize, Sram(c) \in ToSet(longer[i].ins)
                 PROVE  \E j \in 1 .. i - 1 : longer[j] = LoadRow(c)
      BY <2>4 DEF LoadedBefore
    <3>1. i \in 1 .. Len(list) /\ longer[i] = list[i]
      BY <2>4, <2>5, LoadRowFacts
    <3>2. PICK j \in 1 .. i - 1 : list[j] = LoadRow(c)
      BY <3>1 DEF Partial, LoadedBefore
    <3>3. j \in 1 .. Len(list)
      BY <2>2, <3>1
    <3> QED
      BY <2>4, <3>2, <3>3
  <2>9. UsedAfter(longer, open \cup {t})
    <3> SUFFICES ASSUME NEW i \in 1 .. n, NEW c \in DOMAIN ConstSize, longer[i] = LoadRow(c),
                        c \notin open \cup {t}
                 PROVE  \E j \in i + 1 .. n :
                          longer[j].device = "NPU" /\ Sram(c) \in ToSet(longer[j].ins)
      BY <2>4 DEF UsedAfter
    <3>1. i \in 1 .. Len(list) /\ longer[i] = list[i]
      BY <2>4, <2>5, LoadRowFacts
    <3>2. PICK j \in i + 1 .. Len(list) :
            list[j].device = "NPU" /\ Sram(c) \in ToSet(list[j].ins)
      BY <3>1 DEF Partial, UsedAfter
    <3>3. j \in 1 .. Len(list) /\ j \in i + 1 .. n
      BY <2>2, <2>5, <3>1
    <3> QED
      BY <2>4, <3>2, <3>3
  <2> QED
    BY <1>2, <2>1, <2>2, <2>6, <2>7, <2>8, <2>9 DEF Partial
<1> QED
  BY <1>1, <1>2

\* Then every staged constant the operator reads has been loaded.
LEMMA StageInputsKeep ==
  ASSUME NEW acc, NEW ops, NEW k, Partial(acc, ops, k, {}), NEW op \in SourceOp
  PROVE  LET staged == StageInputs(acc, op)
         IN  /\ Partial(staged, ops, k, ToSet(op.ins))
             /\ \A t \in ToSet(op.ins) : IsStaged(t) => t \in staged.sram
<1> DEFINE n == Len(op.ins)
           staged == StageInputs(acc, op)
           Read(m) == {op.ins[j] : j \in 1 .. m}
<1>1. n \in Nat /\ DOMAIN op.ins = 1 .. n /\ \A m \in 1 .. n : op.ins[m] \in Name
  BY TensorsAreNames DEF SourceOp
<1>2. PICK after \in [0 .. n -> Routing] :
        /\ after[0] = acc
        /\ \A m \in 1 .. n : after[m] = Stage(after[m - 1], op.ins[m])
        /\ staged = after[n]
  BY StageInputsUnfolds DEF Partial
<1> DEFINE Good(m) == /\ Partial(after[m], ops, k, Read(m))
                      /\ \A t \in Read(m) : IsStaged(t) => t \in after[m].sram
           G == {m \in Nat : m <= n => Good(m)}
<1> HIDE DEF staged
<1>3. 0 \in G
  <2>1. Read(0) = {}
    OBVIOUS
  <2> QED
    BY <1>2, <2>1
<1>4. ASSUME NEW m \in Nat, m \in G PROVE m + 1 \in G
  <2> SUFFICES ASSUME m + 1 <= n PROVE Good(m + 1)
    OBVIOUS
  <2>1. m + 1 \in 1 .. n /\ (m + 1) - 1 = m /\ m <= n
    BY <1>1
  <2> DEFINE t == op.ins[m + 1]
  <2>2. t \in Name /\ after[m + 1] = Stage(after[m], t)
    BY <1>1, <1>2, <2>1
  <2>3. Read(m + 1) = Read(m) \cup {t}
    <3>1. 1 .. m + 1 = (1 .. m) \cup {m + 1}
      OBVIOUS
    <3> QED
      BY <3>1
  <2>4. Good(m)
    BY <1>4, <2>1
  <2> HIDE DEF t, Read
  <2>5. /\ Partial(Stage(after[m], t), ops, k, Read(m) \cup {t})
        /\ after[m].sram \subseteq Stage(after[m], t).sram
        /\ IsStaged(t) => t \in Stage(after[m], t).sram
    BY <2>2, <2>4, StageKeeps
  <2> QED
    BY <2>2, <2>3, <2>4, <2>5
<1> HIDE DEF G
<1>5. n \in G
  BY <1>1, <1>3, <1>4, NatInductive
<1>6. Read(n) = ToSet(op.ins)
  BY <1>1 DEF ToSet
<1> HIDE DEF Read
<1>7. Good(n)
  BY <1>1, <1>5 DEF G
<1> QED
  BY <1>2, <1>6, <1>7 DEF staged

\* No operator reads a staging buffer yet.
Unstaging(op) == \A c \in DOMAIN ConstSize : Sram(c) \notin ToSet(op.ins)

\* What an operator placed on the NPU reads.
LEMMA NpuReads ==
  ASSUME NEW op \in SourceOp, Unstaging(op)
  PROVE  /\ \A c \in DOMAIN ConstSize :
              Sram(c) \in ToSet(OnNpu(op).ins) <=> c \in ToSet(op.ins) /\ IsStaged(c)
         /\ \A t \in ToSet(OnNpu(op).ins) :
              \/ t \in ToSet(op.ins) /\ ~IsStaged(t)
              \/ \E c \in ToSet(op.ins) : IsStaged(c) /\ t = Sram(c)
<1> DEFINE n == Len(op.ins)
           ins == OnNpu(op).ins
<1>1. n \in Nat /\ DOMAIN op.ins = 1 .. n /\ \A m \in 1 .. n : op.ins[m] \in Name
  BY TensorsAreNames DEF SourceOp
<1>2. DOMAIN ins = 1 .. n /\ \A m \in 1 .. n :
        ins[m] = IF IsStaged(op.ins[m]) THEN Sram(op.ins[m]) ELSE op.ins[m]
  BY <1>1, PlacedTyped
<1> HIDE DEF ins, n
<1>3. DOMAIN ConstSize \subseteq Name
  BY AssignmentAssumption, TensorsAreNames
<1>4. ASSUME NEW c \in DOMAIN ConstSize
      PROVE  Sram(c) \in ToSet(ins) <=> c \in ToSet(op.ins) /\ IsStaged(c)
  <2>1. ASSUME Sram(c) \in ToSet(ins) PROVE c \in ToSet(op.ins) /\ IsStaged(c)
    <3>1. PICK m \in 1 .. n : Sram(c) = ins[m]
      BY <1>2, <2>1 DEF ToSet
    <3>2. IsStaged(op.ins[m])
      BY <1>1, <1>2, <3>1 DEF ToSet, Unstaging
    <3>3. c = op.ins[m]
      BY <1>1, <1>2, <1>3, <3>1, <3>2, SramIsInjective
    <3> QED
      BY <1>1, <3>2, <3>3 DEF ToSet
  <2>2. ASSUME c \in ToSet(op.ins), IsStaged(c) PROVE Sram(c) \in ToSet(ins)
    <3>1. PICK m \in 1 .. n : c = op.ins[m]
      BY <1>1, <2>2 DEF ToSet
    <3>2. ins[m] = Sram(c)
      BY <1>2, <2>2, <3>1
    <3> QED
      BY <1>2, <3>2 DEF ToSet
  <2> QED
    BY <2>1, <2>2
<1>5. ASSUME NEW t \in ToSet(ins)
      PROVE  \/ t \in ToSet(op.ins) /\ ~IsStaged(t)
             \/ \E c \in ToSet(op.ins) : IsStaged(c) /\ t = Sram(c)
  <2>1. PICK m \in 1 .. n : t = ins[m]
    BY <1>2 DEF ToSet
  <2>2. op.ins[m] \in ToSet(op.ins)
    BY <1>1 DEF ToSet
  <2> QED
    BY <1>2, <2>1, <2>2
<1> QED
  BY <1>4, <1>5 DEF ins

\* The row of the operator itself comes after its loads.
LEMMA PlaceKeeps ==
  ASSUME NEW acc, NEW ops, NEW k \in Nat, NEW open, Partial(acc, ops, k, open),
         NEW op \in SourceOp, op = ops[k + 1], Unstaging(op),
         op.type \in NpuOps =>
           open = ToSet(op.ins) /\ \A t \in open : IsStaged(t) => t \in acc.sram,
         op.type \notin NpuOps => open = {}
  PROVE  Partial([acc EXCEPT !.ops = Append(@, Placed(op))], ops, k + 1, {})
<1> DEFINE list == acc.ops
           n == Len(list) + 1
           row == Placed(op)
           longer == Append(list, row)
           next == [acc EXCEPT !.ops = longer]
<1>1. list \in Seq(LoweredOp) /\ acc.sram \subseteq DOMAIN ConstSize /\ acc \in Routing
  BY DEF Partial, Routing
<1>2. /\ row \in LoweredOp /\ row.device # "DMA"
      /\ row.device = "NPU" => op.type \in NpuOps
      /\ op.type \in NpuOps => row = OnNpu(op) /\ row.device = "NPU"
  BY PlacedTyped DEF Placed, OnNpu, OnCpu
<1> HIDE DEF row
<1>3. /\ longer \in Seq(LoweredOp) /\ Len(longer) = n /\ n \in Nat
      /\ longer[n] = row /\ \A i \in 1 .. Len(list) : longer[i] = list[i]
      /\ Computing(longer) = Computing(list) \cup {n}
      /\ \A i \in Computing(list) : Number(longer, i) = Number(list, i)
      /\ Number(longer, n) = Cardinality(Computing(list)) + 1
  <2>1. list \in Seq(LoweredOp) /\ row \in LoweredOp /\ row.device # "DMA"
    BY <1>1, <1>2
  <2>2. Len(list) + 1 \in Nat
    BY <1>1
  <2> HIDE DEF list
  <2> QED
    BY <2>1, <2>2, AppendRow
<1>4. /\ 1 .. n = (1 .. Len(list)) \cup {n} /\ n \notin 1 .. Len(list)
      /\ \A i \in 1 .. Len(list) : i \in Nat /\ i < n
  BY <1>1
<1>5. next \in Routing /\ next.ops = longer /\ next.sram = acc.sram
  BY <1>1, <1>3 DEF Routing
<1> HIDE DEF longer, n, next
<1>5a. \A i \in 1 .. n : longer[i].device = "DMA" => i \in 1 .. Len(list)
  <2> SUFFICES ASSUME NEW i \in 1 .. n, i = n PROVE longer[i].device # "DMA"
    BY <1>4
  <2> QED
    BY <1>2, <1>3
<1>6. InOrder(longer, ops, k + 1)
  <2>1. InOrder(list, ops, k)
    BY DEF Partial
  <2>2. n \notin Computing(list) /\ IsFiniteSet(Computing(list))
    BY <1>1, <1>4, ComputingIsFinite DEF Computing
  <2>3. Cardinality(Computing(longer)) = k + 1
    BY <1>3, <2>1, <2>2, FS_AddElement DEF InOrder
  <2>4. ASSUME NEW i \in Computing(longer)
        PROVE  Number(longer, i) \in 1 .. k + 1 /\ longer[i] = Placed(ops[Number(longer, i)])
    <3>1. CASE i = n
      <4>1. Number(longer, i) = k + 1
        BY <1>3, <2>1, <3>1 DEF InOrder
      <4> QED
        BY <1>3, <3>1, <4>1 DEF row
    <3>2. CASE i # n
      <4>1. i \in Computing(list) /\ longer[i] = list[i]
        BY <1>3, <3>2 DEF Computing
      <4> QED
        BY <1>3, <2>1, <4>1 DEF InOrder
    <3> QED
      BY <3>1, <3>2
  <2> QED
    BY <2>3, <2>4 DEF InOrder
<1>7. LoadsOnce(longer, acc.sram)
  <2>1. LoadsOnce(list, acc.sram)
    BY DEF Partial
  <2>2. ASSUME NEW c \in acc.sram
        PROVE  IsStaged(c) /\ \E i \in 1 .. n : longer[i] = LoadRow(c)
    BY <1>3, <1>4, <2>1 DEF LoadsOnce
  <2>3. ASSUME NEW i \in 1 .. n, longer[i].device = "DMA" PROVE i \in 1 .. Len(list)
    BY <1>5a, <2>3
  <2>4. ASSUME NEW i \in 1 .. n, longer[i].device = "DMA"
        PROVE  \E c \in acc.sram : longer[i] = LoadRow(c)
    BY <1>3, <2>1, <2>3, <2>4 DEF LoadsOnce
  <2>5. ASSUME NEW i \in 1 .. n, NEW j \in 1 .. n, longer[i].device = "DMA",
               longer[j] = longer[i]
        PROVE  i = j
    BY <1>3, <2>1, <2>3, <2>5 DEF LoadsOnce
  <2> QED
    BY <1>3, <2>2, <2>4, <2>5 DEF LoadsOnce
<1>8. LoadedBefore(longer)
  <2> SUFFICES ASSUME NEW i \in 1 .. n, longer[i].device = "NPU",
                      NEW c \in DOMAIN ConstSize, Sram(c) \in ToSet(longer[i].ins)
               PROVE  \E j \in 1 .. i - 1 : longer[j] = LoadRow(c)
    BY <1>3 DEF LoadedBefore
  <2>1. CASE i = n
    <3>1. op.type \in NpuOps /\ row = OnNpu(op)
      BY <1>2, <1>3, <2>1
    <3>2. c \in ToSet(op.ins) /\ IsStaged(c)
      BY <1>3, <2>1, <3>1, NpuReads
    <3>3. PICK j \in 1 .. Len(list) : list[j] = LoadRow(c)
      BY <3>1, <3>2 DEF Partial, LoadsOnce
    <3>4. j \in 1 .. i - 1
      BY <1>1, <2>1 DEF n
    <3> QED
      BY <1>3, <3>3, <3>4
  <2>2. CASE i # n
    <3>1. i \in 1 .. Len(list) /\ longer[i] = list[i]
      BY <1>3, <1>4, <2>2
    <3>2. PICK j \in 1 .. i - 1 : list[j] = LoadRow(c)
      BY <3>1 DEF Partial, LoadedBefore
    <3>3. j \in 1 .. Len(list)
      BY <1>1, <3>1
    <3> QED
      BY <1>3, <3>2, <3>3
  <2> QED
    BY <2>1, <2>2
<1>9. UsedAfter(longer, {})
  <2> SUFFICES ASSUME NEW i \in 1 .. n, NEW c \in DOMAIN ConstSize, longer[i] = LoadRow(c)
               PROVE  \E j \in i + 1 .. n :
                        longer[j].device = "NPU" /\ Sram(c) \in ToSet(longer[j].ins)
    BY <1>3 DEF UsedAfter
  <2>1. i \in 1 .. Len(list) /\ longer[i] = list[i]
    BY <1>3, <1>5a, LoadRowFacts
  <2>2. CASE c \in open
    <3>1. op.type \in NpuOps /\ c \in ToSet(op.ins)
      BY <2>2
    <3>2. IsStaged(c)
      <4>1. PICK d \in acc.sram : list[i] = LoadRow(d)
        BY <2>1, LoadRowFacts DEF Partial, LoadsOnce
      <4>2. d = c
        BY <2>1, <4>1, LoadRowFacts
      <4> QED
        BY <4>1, <4>2 DEF Partial, LoadsOnce
    <3>3. Sram(c) \in ToSet(longer[n].ins) /\ longer[n].device = "NPU"
      BY <1>2, <1>3, <3>1, <3>2, NpuReads
    <3>4. n \in i + 1 .. n
      BY <1>1, <2>1 DEF n
    <3> QED
      BY <3>3, <3>4
  <2>3. CASE c \notin open
    <3>1. PICK j \in i + 1 .. Len(list) :
            list[j].device = "NPU" /\ Sram(c) \in ToSet(list[j].ins)
      BY <2>1, <2>3 DEF Partial, UsedAfter
    <3>2. j \in 1 .. Len(list) /\ j \in i + 1 .. n
      BY <1>1, <1>4, <2>1
    <3> QED
      BY <1>3, <3>1, <3>2
  <2> QED
    BY <2>2, <2>3
<1>10. Partial(next, ops, k + 1, {})
  BY <1>5, <1>6, <1>7, <1>8, <1>9 DEF Partial
<1> QED
  BY <1>10 DEF next, longer, row

\* What holds of the routed list of any operators that name no staging buffer.
LEMMA RoutedRows ==
  ASSUME NEW ops \in Seq(SourceOp), \A k \in 1 .. Len(ops) : Unstaging(ops[k])
  PROVE  LET list == AssignDevices(ops)
         IN  /\ list \in Seq(LoweredOp)
             /\ InOrder(list, ops, Len(ops))
             /\ \E sram \in SUBSET DOMAIN ConstSize : LoadsOnce(list, sram)
             /\ LoadedBefore(list)
             /\ UsedAfter(list, {})
<1> DEFINE n == Len(ops)
           base == [ops |-> << >>, sram |-> {}]
<1>1. n \in Nat /\ \A k \in 1 .. n : ops[k] \in SourceOp
  OBVIOUS
<1>2. PICK after \in [0 .. n -> Routing] :
        /\ after[0] = base
        /\ \A k \in 1 .. n : after[k] = AssignOp(after[k - 1], ops[k])
        /\ AssignDevices(ops) = after[n].ops
  BY AssignDevicesUnfolds
<1>3. Partial(base, ops, 0, {})
  <2>1. base \in Routing
    BY DEF Routing
  <2>2. Len(<< >>) = 0 /\ 1 .. 0 = {}
    OBVIOUS
  <2>3. Computing(<< >>) = {}
    BY <2>2 DEF Computing
  <2>4. InOrder(<< >>, ops, 0)
    BY <2>3, FS_EmptySet DEF InOrder
  <2>5. LoadsOnce(<< >>, {}) /\ LoadedBefore(<< >>) /\ UsedAfter(<< >>, {})
    BY <2>2 DEF LoadsOnce, LoadedBefore, UsedAfter
  <2> QED
    BY <2>1, <2>4, <2>5 DEF Partial
<1> HIDE DEF base
<1> DEFINE G == {k \in Nat : k <= n => Partial(after[k], ops, k, {})}
<1>4. 0 \in G
  BY <1>2, <1>3
<1>5. ASSUME NEW k \in Nat, k \in G PROVE k + 1 \in G
  <2> SUFFICES ASSUME k + 1 <= n PROVE Partial(after[k + 1], ops, k + 1, {})
    OBVIOUS
  <2>1. k + 1 \in 1 .. n /\ (k + 1) - 1 = k /\ k <= n
    BY <1>1
  <2> DEFINE op == ops[k + 1]
             acc == after[k]
  <2>2. op \in SourceOp /\ Unstaging(op) /\ after[k + 1] = AssignOp(acc, op)
    BY <1>1, <1>2, <2>1
  <2>3. Partial(acc, ops, k, {})
    BY <1>5, <2>1
  <2>4. op = ops[k + 1]
    OBVIOUS
  <2> HIDE DEF op, acc
  <2>5. CASE op.type \in NpuOps
    <3> DEFINE staged == StageInputs(acc, op)
    <3>1. /\ Partial(staged, ops, k, ToSet(op.ins))
          /\ \A t \in ToSet(op.ins) : IsStaged(t) => t \in staged.sram
      BY <2>2, <2>3, StageInputsKeep
    <3>2. AssignOp(acc, op) = [staged EXCEPT !.ops = Append(@, Placed(op))]
      BY <2>5 DEF AssignOp, Placed
    <3> HIDE DEF staged
    <3>3. Partial([staged EXCEPT !.ops = Append(@, Placed(op))], ops, k + 1, {})
      BY <2>2, <2>4, <2>5, <3>1, PlaceKeeps
    <3> QED
      BY <2>2, <3>2, <3>3
  <2>6. CASE op.type \notin NpuOps
    <3>1. AssignOp(acc, op) = [acc EXCEPT !.ops = Append(@, Placed(op))]
      BY <2>6 DEF AssignOp, Placed
    <3>2. Partial([acc EXCEPT !.ops = Append(@, Placed(op))], ops, k + 1, {})
      BY <2>2, <2>3, <2>4, <2>6, PlaceKeeps
    <3> QED
      BY <2>2, <3>1, <3>2
  <2> QED
    BY <2>5, <2>6
<1> HIDE DEF G
<1>6. n \in G
  BY <1>1, <1>4, <1>5, NatInductive
<1>7. Partial(after[n], ops, n, {})
  BY <1>1, <1>6 DEF G
<1>8. after[n].ops \in Seq(LoweredOp) /\ after[n].sram \in SUBSET DOMAIN ConstSize
  BY <1>7 DEF Partial, Routing
<1> QED
  BY <1>2, <1>7, <1>8 DEF Partial

-----------------------------------------------------------------------------
(* Order and single assignment, for any list of operators. *)

\* With one writer, it is the producer.
LEMMA OneProducer ==
  ASSUME NEW ops, SingleWriters(ops), NEW t, NEW i \in Writers(ops, t)
  PROVE  Producers(ops, t) = {i}
<1>1. \A j \in Writers(ops, t) : j = i
  BY DEF SingleWriters, Writers
<1>2. i \in Int
  BY DEF Writers, Rows
<1>3. i \in Producers(ops, t)
  <2>1. \A v \in Writers(ops, t) : v <= i
    BY <1>1, <1>2
  <2> QED
    BY <2>1 DEF Producers
<1> QED
  BY <1>1, <1>3 DEF Producers

\* validate_topological, without the tables of the generator.
LEMMA ValidMeansOrdered ==
  ASSUME NEW graph
  PROVE  IsValid(graph) <=> SingleWriters(graph.ops) /\ Ordered(graph.ops)
<1> DEFINE ops == graph.ops
<1>1. \A i \in Rows(ops) : i \in Int
  BY DEF Rows
<1>2. ASSUME IsValid(graph) PROVE SingleWriters(ops) /\ Ordered(ops)
  <2>1. SingleWriters(ops)
    BY <1>2 DEF IsValid, SingleWriters
  <2>2. ASSUME NEW i \in Rows(ops), NEW j \in Rows(ops), NEW t,
               t \in ToSet(Row(ops, i).outs), t \in InputsOf(ops, j)
        PROVE  i < j
    <3>1. i # j
      BY <1>2, <2>2 DEF IsValid
    <3>2. Producers(ops, t) = {i}
      BY <2>1, <2>2, OneProducer DEF Writers
    <3>3. i \in PredsOf(ops, j)
      BY <2>2, <3>1, <3>2 DEF PredsOf
    <3> QED
      BY <1>1, <1>2, <3>3 DEF IsValid, Rejected
  <2>3. Ordered(ops)
    BY <2>2 DEF Ordered
  <2> QED
    BY <2>1, <2>3
<1>3. ASSUME SingleWriters(ops), Ordered(ops) PROVE IsValid(graph)
  <2>1. ASSUME NEW i \in Rows(ops), NEW p \in PredsOf(ops, i) PROVE p < i /\ p \in Rows(ops)
    <3>1. PICK t \in InputsOf(ops, i) : p \in Producers(ops, t)
      BY DEF PredsOf
    <3>2. p \in Rows(ops) /\ t \in ToSet(Row(ops, p).outs)
      BY <3>1 DEF Producers, Writers
    <3> QED
      BY <1>3, <3>1, <3>2 DEF Ordered
  <2>2. ~Rejected(ops)
    BY <1>1, <2>1 DEF Rejected
  <2>3. \A i \in Rows(ops) : ToSet(Row(ops, i).outs) \cap InputsOf(ops, i) = {}
    BY <1>1, <1>3 DEF Ordered
  <2> QED
    BY <1>3, <2>2, <2>3 DEF IsValid, SingleWriters
<1> QED
  BY <1>2, <1>3

-----------------------------------------------------------------------------
(* The routed list is in order, too. *)

\* Operators the rewrite is right for: constants are not written, and staging
\* buffers have no name yet.
Stageable(ops) ==
  /\ ops \in Seq(SourceOp)
  /\ SingleWriters(ops) /\ Ordered(ops)
  /\ \A c \in DOMAIN ConstSize :
       /\ Sram(c) \notin DOMAIN ConstSize
       /\ \A k \in 1 .. Len(ops) :
            /\ c \notin ToSet(ops[k].outs)
            /\ Sram(c) \notin ToSet(ops[k].outs) \cup ToSet(ops[k].ins)

\* Each row is a load or one of the operators.
Loads(list, i, c) == IsStaged(c) /\ Row(list, i) = LoadRow(c)

Places(ops, list, i, k) ==
  /\ k \in 1 .. Len(ops)
  /\ i + 1 \in Computing(list) /\ k = Number(list, i + 1)
  /\ Row(list, i) = Placed(ops[k])

LEMMA EachRow ==
  ASSUME NEW ops, Stageable(ops), NEW i \in Rows(AssignDevices(ops))
  PROVE  LET list == AssignDevices(ops)
         IN  \/ \E c \in DOMAIN ConstSize : Loads(list, i, c)
             \/ \E k \in 1 .. Len(ops) : Places(ops, list, i, k)
<1> DEFINE list == AssignDevices(ops)
<1>1. /\ list \in Seq(LoweredOp) /\ InOrder(list, ops, Len(ops))
      /\ \E sram \in SUBSET DOMAIN ConstSize : LoadsOnce(list, sram)
  BY RoutedRows DEF Stageable, Unstaging
<1> HIDE DEF list
<1>2. i + 1 \in 1 .. Len(list)
  BY <1>1 DEF Rows, list
<1>3. CASE list[i + 1].device = "DMA"
  <2>1. \E c \in DOMAIN ConstSize : IsStaged(c) /\ list[i + 1] = LoadRow(c)
    BY <1>1, <1>2, <1>3 DEF LoadsOnce
  <2> QED
    BY <2>1 DEF Loads, Row, list
<1>4. CASE list[i + 1].device # "DMA"
  <2>1. i + 1 \in Computing(list)
    BY <1>2, <1>4 DEF Computing
  <2>2. Places(ops, list, i, Number(list, i + 1))
    BY <1>1, <2>1 DEF InOrder, Places, Row
  <2> QED
    BY <2>2 DEF Places, list
<1> QED
  BY <1>3, <1>4

\* What rows write and read, and that they follow the operators' order.
LoadsMean(list) ==
  /\ \A i \in Rows(list) : \A c :
       Loads(list, i, c) => /\ ToSet(Row(list, i).outs) = {Sram(c)}
                            /\ InputsOf(list, i) = {c}
                            /\ Row(list, i).device = "DMA"
  /\ \A i, j \in Rows(list) : \A c : Loads(list, i, c) /\ Loads(list, j, c) => i = j

IsBuffer(list, i, t) ==
  \E c \in DOMAIN ConstSize : \E j \in Rows(list) :
    t = Sram(c) /\ Loads(list, j, c) /\ j < i

PlacesMean(ops, list) ==
  \A i \in Rows(list) : \A k : Places(ops, list, i, k) =>
    /\ ToSet(Row(list, i).outs) = ToSet(ops[k].outs)
    /\ Row(list, i).device # "DMA"
    /\ \A t \in InputsOf(list, i) :
         \/ t \in ToSet(ops[k].ins) /\ (Row(list, i).device = "NPU" => ~IsStaged(t))
         \/ Row(list, i).device = "NPU" /\ IsBuffer(list, i, t)

PlacesInOrder(ops, list) ==
  \A i, j \in Rows(list) : \A k, m :
    Places(ops, list, i, k) /\ Places(ops, list, j, m) =>
      (k < m => i < j) /\ (k = m => i = j)

LEMMA RowsFollow ==
  ASSUME NEW ops, Stageable(ops)
  PROVE  /\ LoadsMean(AssignDevices(ops))
         /\ PlacesMean(ops, AssignDevices(ops))
         /\ PlacesInOrder(ops, AssignDevices(ops))
<1> DEFINE list == AssignDevices(ops)
<1>1. /\ list \in Seq(LoweredOp) /\ InOrder(list, ops, Len(ops))
      /\ \E sram \in SUBSET DOMAIN ConstSize : LoadsOnce(list, sram)
      /\ LoadedBefore(list)
  BY RoutedRows DEF Stageable, Unstaging
<1> HIDE DEF list
<1>2. \A i \in Rows(list) : i \in Nat /\ i + 1 \in 1 .. Len(list) /\ Row(list, i) = list[i + 1]
  BY <1>1 DEF Rows, Row
<1>3. ASSUME NEW i \in Rows(list), NEW c, Loads(list, i, c)
      PROVE  /\ ToSet(Row(list, i).outs) = {Sram(c)}
             /\ InputsOf(list, i) = {c}
             /\ Row(list, i).device = "DMA"
  <2>1. \A t : ToSet(<<t>>) = {t}
    BY DEF ToSet
  <2> QED
    BY <1>3, <2>1, LoadRowFacts DEF Loads, InputsOf
<1>4. ASSUME NEW i \in Rows(list), NEW j \in Rows(list), NEW c,
             Loads(list, i, c), Loads(list, j, c)
      PROVE  i = j
  <2>1. i + 1 \in 1 .. Len(list) /\ j + 1 \in 1 .. Len(list) /\ i \in Nat /\ j \in Nat
    BY <1>2
  <2>2. list[i + 1] = list[j + 1] /\ list[i + 1].device = "DMA"
    BY <1>4, LoadRowFacts DEF Loads, Row
  <2>3. i + 1 = j + 1
    BY <1>1, <2>1, <2>2 DEF LoadsOnce
  <2> QED
    BY <2>1, <2>3
<1>5. ASSUME NEW i \in Rows(list), NEW k, Places(ops, list, i, k)
      PROVE  /\ ToSet(Row(list, i).outs) = ToSet(ops[k].outs)
             /\ Row(list, i).device # "DMA"
             /\ \A t \in InputsOf(list, i) :
                  \/ t \in ToSet(ops[k].ins) /\ (Row(list, i).device = "NPU" => ~IsStaged(t))
                  \/ Row(list, i).device = "NPU" /\ IsBuffer(list, i, t)
  <2> DEFINE op == ops[k]
  <2>1. op \in SourceOp /\ Row(list, i) = Placed(op) /\ Unstaging(op)
    BY <1>5 DEF Places, Stageable, Unstaging
  <2>2. ToSet(Row(list, i).outs) = ToSet(op.outs) /\ Row(list, i).device # "DMA"
    BY <2>1 DEF Placed, OnNpu, OnCpu
  <2> HIDE DEF op
  <2>3. CASE op.type \notin NpuOps
    <3>1. InputsOf(list, i) = ToSet(op.ins) /\ Row(list, i).device # "NPU"
      BY <2>1, <2>3 DEF Placed, OnCpu, InputsOf
    <3> QED
      BY <2>2, <3>1 DEF op
  <2>4. CASE op.type \in NpuOps
    <3>1. Row(list, i) = OnNpu(op) /\ Row(list, i).device = "NPU"
      BY <2>1, <2>4 DEF Placed, OnNpu
    <3>2. ASSUME NEW t \in InputsOf(list, i)
          PROVE  \/ t \in ToSet(op.ins) /\ ~IsStaged(t)
                 \/ IsBuffer(list, i, t)
      <4>1. t \in ToSet(OnNpu(op).ins)
        BY <3>1 DEF InputsOf
      <4>2. CASE t \in ToSet(op.ins) /\ ~IsStaged(t)
        BY <4>2
      <4>3. CASE \E c \in ToSet(op.ins) : IsStaged(c) /\ t = Sram(c)
        <5>1. PICK c \in DOMAIN ConstSize : IsStaged(c) /\ t = Sram(c)
          BY <4>3 DEF IsStaged
        <5>2. PICK j \in 1 .. (i + 1) - 1 : list[j] = LoadRow(c)
          BY <1>1, <1>2, <3>1, <4>1, <5>1 DEF LoadedBefore
        <5>3. j - 1 \in Rows(list) /\ j - 1 < i /\ (j - 1) + 1 = j
          BY <1>1, <1>2 DEF Rows
        <5>4. Loads(list, j - 1, c)
          BY <5>1, <5>2, <5>3 DEF Loads, Row
        <5> QED
          BY <5>1, <5>3, <5>4 DEF IsBuffer
      <4> QED
        BY <2>1, <4>1, <4>2, <4>3, NpuReads
    <3> QED
      BY <2>2, <3>1, <3>2 DEF op
  <2> QED
    BY <2>3, <2>4
<1>6. ASSUME NEW i \in Rows(list), NEW j \in Rows(list), NEW k, NEW m,
             Places(ops, list, i, k), Places(ops, list, j, m)
      PROVE  (k < m => i < j) /\ (k = m => i = j)
  <2>1. i \in Nat /\ j \in Nat /\ k \in Nat /\ m \in Nat
    BY <1>2, <1>6 DEF Places
  <2>2. j < i => m < k
    BY <1>1, <1>6, <2>1, NumberGrows DEF Places
  <2>3. i < j => k < m
    BY <1>1, <1>6, <2>1, NumberGrows DEF Places
  <2>4. i = j => k = m
    BY <1>6 DEF Places
  <2> QED
    BY <2>1, <2>2, <2>3, <2>4
<1>7. LoadsMean(list)
  BY <1>3, <1>4 DEF LoadsMean
<1>8. PlacesMean(ops, list)
  BY <1>5 DEF PlacesMean
<1>9. PlacesInOrder(ops, list)
  BY <1>6 DEF PlacesInOrder
<1> QED
  BY <1>7, <1>8, <1>9 DEF list

\* Staging keeps single assignment and topological order.
LEMMA RoutedInOrder ==
  ASSUME NEW ops, Stageable(ops)
  PROVE  SingleWriters(AssignDevices(ops)) /\ Ordered(AssignDevices(ops))
<1> DEFINE list == AssignDevices(ops)
<1>1. \A i \in Rows(list) : \/ \E c \in DOMAIN ConstSize : Loads(list, i, c)
                            \/ \E k \in 1 .. Len(ops) : Places(ops, list, i, k)
  BY EachRow
<1>2. LoadsMean(list) /\ PlacesMean(ops, list) /\ PlacesInOrder(ops, list)
  BY RowsFollow
<1> HIDE DEF list
<1>3. DOMAIN ConstSize \subseteq Name
  BY AssignmentAssumption, TensorsAreNames
<1>4. \A c, d \in DOMAIN ConstSize : Sram(c) = Sram(d) => c = d
  BY <1>3, SramIsInjective
<1>5. \A c \in DOMAIN ConstSize :
        /\ Sram(c) \notin DOMAIN ConstSize
        /\ \A k \in 1 .. Len(ops) :
             /\ c \notin ToSet(ops[k].outs)
             /\ Sram(c) \notin ToSet(ops[k].outs) /\ Sram(c) \notin ToSet(ops[k].ins)
  BY DEF Stageable
<1>6. \A k, m \in 1 .. Len(ops) : \A t :
        t \in ToSet(ops[k].outs) => /\ t \in ToSet(ops[m].outs) => k = m
                                    /\ t \in ToSet(ops[m].ins) => k < m
  <2> SUFFICES ASSUME NEW k \in 1 .. Len(ops), NEW m \in 1 .. Len(ops), NEW t,
                      t \in ToSet(ops[k].outs)
               PROVE  /\ t \in ToSet(ops[m].outs) => k = m
                      /\ t \in ToSet(ops[m].ins) => k < m
    OBVIOUS
  <2>1. /\ k - 1 \in Rows(ops) /\ m - 1 \in Rows(ops) /\ k \in Nat /\ m \in Nat
        /\ (k - 1) + 1 = k /\ (m - 1) + 1 = m
    BY DEF Rows, Stageable
  <2>2. /\ t \in ToSet(ops[m].outs) => k - 1 = m - 1
        /\ t \in ToSet(ops[m].ins) => k - 1 < m - 1
    BY <2>1 DEF Stageable, SingleWriters, Ordered, Row, InputsOf
  <2> QED
    BY <2>1, <2>2
<1>7. ASSUME NEW i \in Rows(list), NEW j \in Rows(list), NEW t,
             t \in ToSet(Row(list, i).outs), t \in ToSet(Row(list, j).outs)
      PROVE  i = j
  <2>1. ASSUME NEW c \in DOMAIN ConstSize, Loads(list, i, c),
               NEW d \in DOMAIN ConstSize, Loads(list, j, d)
        PROVE  i = j
    <3>1. t = Sram(c) /\ t = Sram(d)
      BY <1>2, <1>7, <2>1 DEF LoadsMean
    <3>2. c = d
      BY <1>4, <3>1
    <3> QED
      BY <1>2, <2>1, <3>2 DEF LoadsMean
  <2>2. ASSUME NEW k \in 1 .. Len(ops), Places(ops, list, i, k),
               NEW m \in 1 .. Len(ops), Places(ops, list, j, m)
        PROVE  i = j
    <3>1. t \in ToSet(ops[k].outs) /\ t \in ToSet(ops[m].outs)
      BY <1>2, <1>7, <2>2 DEF PlacesMean
    <3>2. k = m
      BY <1>6, <3>1
    <3> QED
      BY <1>2, <2>2, <3>2 DEF PlacesInOrder
  <2>3. ASSUME NEW r \in Rows(list), NEW c \in DOMAIN ConstSize, Loads(list, r, c),
               NEW l \in Rows(list), NEW k \in 1 .. Len(ops), Places(ops, list, l, k),
               t \in ToSet(Row(list, r).outs), t \in ToSet(Row(list, l).outs)
        PROVE  FALSE
    <3>1. t = Sram(c) /\ t \in ToSet(ops[k].outs)
      BY <1>2, <2>3 DEF LoadsMean, PlacesMean
    <3> QED
      BY <1>5, <3>1
  <2> QED
    BY <1>1, <1>7, <2>1, <2>2, <2>3
<1>8. ASSUME NEW i \in Rows(list), NEW j \in Rows(list), NEW t,
             t \in ToSet(Row(list, i).outs), t \in InputsOf(list, j)
      PROVE  i < j
  <2>1. CASE \E c \in DOMAIN ConstSize : Loads(list, j, c)
    <3>1. t \in DOMAIN ConstSize
      BY <1>2, <1>8, <2>1 DEF LoadsMean
    <3>2. ASSUME NEW c \in DOMAIN ConstSize, Loads(list, i, c) PROVE FALSE
      <4>1. t = Sram(c)
        BY <1>2, <1>8, <3>2 DEF LoadsMean
      <4> QED
        BY <1>5, <3>1, <4>1
    <3>3. ASSUME NEW k \in 1 .. Len(ops), Places(ops, list, i, k) PROVE FALSE
      <4>1. t \in ToSet(ops[k].outs)
        BY <1>2, <1>8, <3>3 DEF PlacesMean
      <4> QED
        BY <1>5, <3>1, <4>1
    <3> QED
      BY <1>1, <3>2, <3>3
  <2>2. CASE \E m \in 1 .. Len(ops) : Places(ops, list, j, m)
    <3>1. PICK m \in 1 .. Len(ops) : Places(ops, list, j, m)
      BY <2>2
    <3>2. CASE t \in ToSet(ops[m].ins)
      <4>1. ASSUME NEW c \in DOMAIN ConstSize, Loads(list, i, c) PROVE FALSE
        <5>1. t = Sram(c)
          BY <1>2, <1>8, <4>1 DEF LoadsMean
        <5> QED
          BY <1>5, <3>2, <5>1
      <4>2. PICK k \in 1 .. Len(ops) : Places(ops, list, i, k)
        BY <1>1, <4>1
      <4>3. t \in ToSet(ops[k].outs)
        BY <1>2, <1>8, <4>2 DEF PlacesMean
      <4>4. k < m
        BY <1>6, <3>2, <4>3
      <4> QED
        BY <1>2, <3>1, <4>2, <4>4 DEF PlacesInOrder
    <3>3. CASE IsBuffer(list, j, t)
      <4>1. PICK c \in DOMAIN ConstSize, l \in Rows(list) :
              t = Sram(c) /\ Loads(list, l, c) /\ l < j
        BY <3>3 DEF IsBuffer
      <4>2. t \in ToSet(Row(list, l).outs)
        BY <1>2, <4>1 DEF LoadsMean
      <4> QED
        BY <1>7, <1>8, <4>1, <4>2
    <3> QED
      BY <1>2, <1>8, <3>1, <3>2, <3>3 DEF PlacesMean
  <2> QED
    BY <1>1, <2>1, <2>2
<1>9. SingleWriters(list)
  BY <1>7 DEF SingleWriters
<1>10. Ordered(list)
  BY <1>8 DEF Ordered
<1> QED
  BY <1>9, <1>10 DEF list

-----------------------------------------------------------------------------
(* The image. *)

\* A window spans the rows of its device.
LEMMA WindowSpans ==
  ASSUME NEW ops \in Seq(LoweredOp), NEW d \in Device, UsersOf(ops, d) # {}
  PROVE  /\ Window(ops, d).domain = d
         /\ Window(ops, d).first \in UsersOf(ops, d)
         /\ Window(ops, d).last \in UsersOf(ops, d)
         /\ \A i \in UsersOf(ops, d) : Window(ops, d).first <= i /\ i <= Window(ops, d).last
         /\ Window(ops, d).alwaysOn = (d = "CPU")
<1> DEFINE U == UsersOf(ops, d)
           id == [i \in U |-> i]
<1>1. U \subseteq 0 .. Len(ops) - 1 /\ U \subseteq Nat /\ U # {}
  BY DEF UsersOf, Rows
<1>2. IsFiniteSet(U)
  <2>1. IsFiniteSet(0 .. Len(ops) - 1)
    BY FS_Interval
  <2> QED
    BY <1>1, <2>1, FS_Subset
<1>3. \E i \in U : \A j \in U : i <= j
  BY <1>1, LeastElement
<1>4. \E i \in U : \A j \in U : j <= i
  <2>1. \A i \in U : id[i] = i /\ id[i] \in Int
    BY <1>1
  <2> HIDE DEF id, U
  <2>2. \E i \in U : \A j \in U : id[j] <= id[i]
    BY <1>1, <1>2, <2>1, GreatestElement
  <2> QED
    BY <2>1, <2>2
<1> QED
  BY <1>3, <1>4 DEF Window

\* The plan the analysis makes covers every row, and no more.
LEMMA PlanIsComplete ==
  ASSUME NEW ops \in Seq(LoweredOp)
  PROVE  /\ \A e \in PowerPlan(ops) : e \in PlanEntry
         /\ PlanCovers(ImageOf(ops))
<1> DEFINE plan == PowerPlan(ops)
           im == ImageOf(ops)
<1>1. /\ Len(ops) \in Nat /\ Rows(ops) \subseteq Nat
      /\ \A i \in Rows(ops) : Row(ops, i).device \in Device
  <2>1. \A i \in Rows(ops) : i + 1 \in 1 .. Len(ops)
    BY DEF Rows
  <2>2. \A i \in Rows(ops) : Row(ops, i) \in LoweredOp
    BY <2>1 DEF Row
  <2> HIDE DEF im, plan
  <2>3. \A i \in Rows(ops) : Row(ops, i).device \in Device
    BY <2>2 DEF LoweredOp
  <2> QED
    BY <2>3 DEF Rows
<1>2. /\ RowsOf(im) = Rows(ops) /\ im.plan = plan
      /\ \A i \in Rows(ops) : im.device[i] = Row(ops, i).device
  BY DEF ImageOf, RowsOf, Rows
<1>3. \A d \in Device : UsersOf(ops, d) \subseteq Rows(ops)
        /\ \A i \in UsersOf(ops, d) : Row(ops, i).device = d
  BY DEF UsersOf
<1> HIDE DEF im, plan
<1>4. \A e \in plan :
        \/ \E d \in Device : UsersOf(ops, d) # {} /\ e = Window(ops, d)
        \/ UsersOf(ops, "CPU") = {} /\ e = IdleCpuWindow(ops)
  BY DEF plan, PowerPlan
<1>5. \A d \in Device : UsersOf(ops, d) # {} => Window(ops, d) \in plan
  BY DEF plan, PowerPlan
<1>6. UsersOf(ops, "CPU") = {} => IdleCpuWindow(ops) \in plan
  BY DEF plan, PowerPlan
<1>7. /\ IdleCpuWindow(ops).domain = "CPU" /\ IdleCpuWindow(ops).alwaysOn = TRUE
      /\ IdleCpuWindow(ops) \in PlanEntry /\ "CPU" \in Device
  BY <1>1 DEF IdleCpuWindow, PlanEntry, Device
<1>8. ASSUME NEW d \in Device, UsersOf(ops, d) # {} PROVE Window(ops, d) \in PlanEntry
  <2>1. Window(ops, d).first \in Nat /\ Window(ops, d).last \in Nat
    BY <1>1, <1>3, <1>8, WindowSpans
  <2> QED
    BY <2>1 DEF Window, PlanEntry
<1>9. \A e \in plan : e \in PlanEntry
  BY <1>4, <1>7, <1>8
<1>8a. \A d \in Device : Window(ops, d).domain = d /\ Window(ops, d).alwaysOn = (d = "CPU")
  BY DEF Window
<1>10. \A e, f \in plan : e.domain = f.domain => e = f
  BY <1>4, <1>7, <1>8a
<1>11. ASSUME NEW e \in plan PROVE e.alwaysOn <=> e.domain = "CPU"
  <2>1. CASE \E d \in Device : e = Window(ops, d)
    <3>1. PICK d \in Device : e = Window(ops, d)
      BY <2>1
    <3>2. e.domain = d /\ e.alwaysOn = (d = "CPU")
      BY <1>8a, <3>1
    <3> QED
      BY <3>2
  <2>2. CASE e = IdleCpuWindow(ops)
    BY <1>7, <2>2
  <2> QED
    BY <1>4, <2>1, <2>2
<1>12. \E e \in plan : e.domain = "CPU"
  BY <1>5, <1>6, <1>7, WindowSpans
<1>13. ASSUME NEW i \in Rows(ops)
       PROVE  \E e \in plan : e.domain = im.device[i] /\ e.first <= i /\ i <= e.last
  <2> DEFINE d == Row(ops, i).device
  <2>1. d \in Device /\ i \in UsersOf(ops, d)
    BY <1>1 DEF UsersOf
  <2> HIDE DEF d
  <2>2. Window(ops, d) \in plan
    BY <1>5, <2>1
  <2> QED
    BY <1>2, <2>1, <2>2, WindowSpans DEF d
<1>14. ASSUME NEW e \in plan, ~e.alwaysOn
       PROVE  /\ e.first \in Rows(ops) /\ im.device[e.first] = e.domain
              /\ e.last \in Rows(ops) /\ im.device[e.last] = e.domain
  <2>1. PICK d \in Device : UsersOf(ops, d) # {} /\ e = Window(ops, d)
    BY <1>4, <1>7, <1>14
  <2> QED
    BY <1>2, <1>3, <2>1, WindowSpans
<1> QED
  BY <1>2, <1>9, <1>10, <1>11, <1>12, <1>13, <1>14 DEF PlanCovers, im, plan

\* A row that reads a staging buffer depends on its load, and on no other load.
LEMMA AwaitsLoads ==
  ASSUME NEW ops, Stageable(ops), NEW i \in Rows(AssignDevices(ops)),
         NEW c \in DOMAIN ConstSize, NEW k \in Rows(AssignDevices(ops)),
         Loads(AssignDevices(ops), k, c),
         Row(AssignDevices(ops), i).device = "NPU"
  PROVE  Sram(c) \in InputsOf(AssignDevices(ops), i) <=> k \in PredsOf(AssignDevices(ops), i)
<1> DEFINE list == AssignDevices(ops)
<1>1. SingleWriters(list) /\ LoadsMean(list)
  BY RoutedInOrder, RowsFollow
<1> HIDE DEF list
<1>2. ToSet(Row(list, k).outs) = {Sram(c)} /\ Row(list, k).device = "DMA"
  BY <1>1 DEF LoadsMean, list
<1>3. i # k
  BY <1>2 DEF list
<1>4. ASSUME Sram(c) \in InputsOf(list, i) PROVE k \in PredsOf(list, i)
  <2>1. k \in Writers(list, Sram(c))
    BY <1>2 DEF Writers, list
  <2>2. Producers(list, Sram(c)) = {k}
    BY <1>1, <2>1, OneProducer
  <2> QED
    BY <1>3, <1>4, <2>2 DEF PredsOf
<1>5. ASSUME k \in PredsOf(list, i) PROVE Sram(c) \in InputsOf(list, i)
  <2>1. PICK t \in InputsOf(list, i) : k \in Producers(list, t)
    BY <1>5 DEF PredsOf
  <2>2. t \in ToSet(Row(list, k).outs)
    BY <2>1 DEF Producers, Writers
  <2> QED
    BY <1>2, <2>1, <2>2
<1> QED
  BY <1>4, <1>5 DEF list

\* The image of the routed list is well formed, and the generator writes it.
LEMMA RoutedImage ==
  ASSUME NEW ops, Stageable(ops)
  PROVE  /\ ~Rejected(AssignDevices(ops))
         /\ WellFormed(ImageOf(AssignDevices(ops)))
<1> DEFINE list == AssignDevices(ops)
           im == ImageOf(list)
<1>1. list \in Seq(LoweredOp) /\ UsedAfter(list, {})
  BY RoutedRows DEF Stageable, Unstaging
<1>2. SingleWriters(list) /\ Ordered(list) /\ LoadsMean(list) /\ PlacesMean(ops, list)
  BY RoutedInOrder, RowsFollow
<1>3. \A i \in Rows(list) : \/ \E c \in DOMAIN ConstSize : Loads(list, i, c)
                            \/ \E k \in 1 .. Len(ops) : Places(ops, list, i, k)
  BY EachRow
<1>4. ASSUME NEW i \in Rows(list), NEW c \in DOMAIN ConstSize, NEW k \in Rows(list),
             Loads(list, k, c), Row(list, i).device = "NPU"
      PROVE  Sram(c) \in InputsOf(list, i) <=> k \in PredsOf(list, i)
  BY <1>4, AwaitsLoads
<1> HIDE DEF list
<1>5. /\ Len(list) \in Nat
      /\ \A i \in Rows(list) : /\ i \in Nat /\ i + 1 \in 1 .. Len(list)
                               /\ Row(list, i) = list[i + 1] /\ Row(list, i) \in LoweredOp
                               /\ Row(list, i).device \in Device
  <2>1. \A i \in Rows(list) : i \in Nat /\ i + 1 \in 1 .. Len(list)
    BY <1>1 DEF Rows
  <2>2. \A i \in Rows(list) : Row(list, i) = list[i + 1] /\ Row(list, i) \in LoweredOp
    BY <1>1, <2>1 DEF Row
  <2> QED
    BY <1>1, <2>1, <2>2 DEF LoweredOp
<1>6. \A i \in Rows(list) : PredsOf(list, i) \subseteq Rows(list) /\ SuccsOf(list, i) \subseteq Rows(list)
  BY DEF PredsOf, SuccsOf, Producers, Writers
<1>7. ASSUME NEW i \in Rows(list), NEW p \in PredsOf(list, i) PROVE p < i
  <2>1. PICK t \in InputsOf(list, i) : p \in Producers(list, t)
    BY DEF PredsOf
  <2>2. p \in Rows(list) /\ t \in ToSet(Row(list, p).outs)
    BY <2>1 DEF Producers, Writers
  <2> QED
    BY <1>2, <2>1, <2>2 DEF Ordered
<1>8. ~Rejected(list)
  <2> SUFFICES ASSUME NEW i \in Rows(list), NEW p \in PredsOf(list, i), p >= i PROVE FALSE
    BY DEF Rejected
  <2> QED
    BY <1>5, <1>6, <1>7
<1>9. /\ RowsOf(im) = Rows(list) /\ im.n = Len(list) /\ im.plan = PowerPlan(list)
      /\ im.device = [i \in Rows(list) |-> Row(list, i).device]
      /\ im.preds = [i \in Rows(list) |-> PredsOf(list, i)]
      /\ im.succs = [i \in Rows(list) |-> SuccsOf(list, i)]
      /\ im.wcet = [i \in Rows(list) |-> Wcet[Row(list, i).device]]
      /\ im.bytes = [i \in Rows(list) |-> ByteSize(Row(list, i).ins[1])]
  BY DEF ImageOf, RowsOf, Rows
<1>10. (\A e \in PowerPlan(list) : e \in PlanEntry) /\ PlanCovers(im)
  BY <1>1, PlanIsComplete
<1> HIDE DEF im
<1>11. WellTyped(im)
  <2>1. \A i \in Rows(list) : Wcet[Row(list, i).device] \in Nat
    BY <1>5, TableAssumption
  <2>2. \A t : ByteSize(t) \in Nat
    BY AssignmentAssumption, TableAssumption DEF ByteSize
  <2>3. im.n \in Nat /\ im.device \in [Rows(list) -> Device]
    BY <1>5, <1>9
  <2>4. /\ im.preds \in [Rows(list) -> SUBSET Rows(list)]
        /\ im.succs \in [Rows(list) -> SUBSET Rows(list)]
    BY <1>6, <1>9
  <2>5. im.wcet \in [Rows(list) -> Nat] /\ im.bytes \in [Rows(list) -> Nat]
    BY <1>9, <2>1, <2>2
  <2> QED
    BY <1>9, <1>10, <2>3, <2>4, <2>5 DEF WellTyped
<1>12. Topological(im)
  BY <1>7, <1>9 DEF Topological
<1>13. ListsAgree(im)
  BY <1>9 DEF ListsAgree, SuccsOf
<1>14. LoadsAreUsed(im)
  <2> SUFFICES ASSUME NEW i \in Rows(list), im.device[i] = "DMA"
               PROVE  \E j \in im.succs[i] : im.device[j] # "DMA"
    BY <1>9 DEF LoadsAreUsed
  <2>1. PICK c \in DOMAIN ConstSize : Loads(list, i, c)
    BY <1>2, <1>3, <1>9 DEF PlacesMean
  <2>2. PICK j \in (i + 1) + 1 .. Len(list) :
          list[j].device = "NPU" /\ Sram(c) \in ToSet(list[j].ins)
    BY <1>1, <1>5, <2>1 DEF UsedAfter, Loads
  <2>3. j - 1 \in Rows(list) /\ (j - 1) + 1 = j
    BY <1>5 DEF Rows
  <2>4. Row(list, j - 1).device = "NPU" /\ Sram(c) \in InputsOf(list, j - 1)
    BY <2>2, <2>3 DEF Row, InputsOf
  <2>5. i \in PredsOf(list, j - 1)
    BY <1>4, <2>1, <2>3, <2>4
  <2>6. j - 1 \in im.succs[i] /\ im.device[j - 1] = "NPU"
    BY <1>9, <2>3, <2>4, <2>5 DEF SuccsOf
  <2> QED
    BY <2>6
<1> QED
  BY <1>8, <1>10, <1>11, <1>12, <1>13, <1>14 DEF WellFormed, im, list

\* Each constant has one load row, and every row that reads it waits for it.
LEMMA RoutedLoads ==
  ASSUME NEW ops, Stageable(ops)
  PROVE  LET list == AssignDevices(ops)
             loads == {i \in Rows(list) : Row(list, i).device = "DMA"}
         IN  /\ \A i, j \in loads : Row(list, i).ins = Row(list, j).ins => i = j
             /\ \A i \in Rows(list) : Row(list, i).device = "NPU" =>
                  /\ \A t \in InputsOf(list, i) :
                       t \in DOMAIN ConstSize => ConstSize[t] < DmaMinBytes
                  /\ \A k \in loads :
                       Sram(Row(list, k).ins[1]) \in InputsOf(list, i)
                         <=> k \in PredsOf(list, i)
<1> DEFINE list == AssignDevices(ops)
           loads == {i \in Rows(list) : Row(list, i).device = "DMA"}
<1>1. LoadsMean(list) /\ PlacesMean(ops, list)
  BY RowsFollow
<1>2. \A i \in Rows(list) : \/ \E c \in DOMAIN ConstSize : Loads(list, i, c)
                            \/ \E k \in 1 .. Len(ops) : Places(ops, list, i, k)
  BY EachRow
<1>3. ASSUME NEW i \in Rows(list), NEW c \in DOMAIN ConstSize, NEW k \in Rows(list),
             Loads(list, k, c), Row(list, i).device = "NPU"
      PROVE  Sram(c) \in InputsOf(list, i) <=> k \in PredsOf(list, i)
  BY <1>3, AwaitsLoads
<1> HIDE DEF list
<1>4. ASSUME NEW i \in loads
      PROVE  \E c \in DOMAIN ConstSize : Loads(list, i, c) /\ Row(list, i).ins = <<c>>
  <2>1. PICK c \in DOMAIN ConstSize : Loads(list, i, c)
    BY <1>1, <1>2 DEF PlacesMean
  <2> QED
    BY <2>1, LoadRowFacts DEF Loads
<1>5. ASSUME NEW i \in loads, NEW j \in loads, Row(list, i).ins = Row(list, j).ins
      PROVE  i = j
  <2>1. PICK c \in DOMAIN ConstSize : Loads(list, i, c) /\ Row(list, i).ins = <<c>>
    BY <1>4
  <2>2. PICK d \in DOMAIN ConstSize : Loads(list, j, d) /\ Row(list, j).ins = <<d>>
    BY <1>4
  <2>3. Row(list, i).ins[1] = c /\ Row(list, j).ins[1] = d
    BY <2>1, <2>2
  <2>4. c = d
    BY <1>5, <2>3
  <2> QED
    BY <1>1, <2>1, <2>2, <2>4 DEF LoadsMean
<1>6. ASSUME NEW i \in Rows(list), Row(list, i).device = "NPU", NEW t \in InputsOf(list, i),
             t \in DOMAIN ConstSize
      PROVE  ConstSize[t] < DmaMinBytes
  <2>1. PICK k \in 1 .. Len(ops) : Places(ops, list, i, k)
    BY <1>1, <1>2, <1>6 DEF LoadsMean
  <2>2. ~IsBuffer(list, i, t)
    BY <1>6 DEF IsBuffer, Stageable
  <2>3. ~IsStaged(t)
    BY <1>1, <1>6, <2>1, <2>2 DEF PlacesMean
  <2> QED
    BY <1>6, <2>3, AssignmentAssumption DEF IsStaged
<1>7. ASSUME NEW i \in Rows(list), Row(list, i).device = "NPU", NEW k \in loads
      PROVE  Sram(Row(list, k).ins[1]) \in InputsOf(list, i) <=> k \in PredsOf(list, i)
  <2>1. PICK c \in DOMAIN ConstSize : Loads(list, k, c) /\ Row(list, k).ins = <<c>>
    BY <1>4
  <2>2. Row(list, k).ins[1] = c
    BY <2>1
  <2> QED
    BY <1>3, <1>7, <2>1, <2>2
<1> QED
  BY <1>5, <1>6, <1>7 DEF list

LEMMA UnstagedFacts ==
  /\ \A c \in DOMAIN ConstSize : Unstaged(Sram(c)) = c
  /\ \A t : (\A c \in DOMAIN ConstSize : t # Sram(c)) => Unstaged(t) = t
<1>1. DOMAIN ConstSize \subseteq Name
  BY AssignmentAssumption, TensorsAreNames
<1>2. \A c, d \in DOMAIN ConstSize : Sram(c) = Sram(d) => c = d
  BY <1>1, SramIsInjective
<1> QED
  BY <1>2 DEF Unstaged

\* An operator's row is the operator, the staging buffers read as constants.
LEMMA PlacedUnstaged ==
  ASSUME NEW op \in SourceOp, Unstaging(op)
  PROVE  op = [type |-> Placed(op).type, outs |-> Placed(op).outs,
               ins |-> [j \in DOMAIN Placed(op).ins |-> Unstaged(Placed(op).ins[j])]]
<1> DEFINE n == Len(op.ins)
           ins == Placed(op).ins
<1>1. n \in Nat /\ DOMAIN op.ins = 1 .. n /\ op.ins = [j \in 1 .. n |-> op.ins[j]]
  BY DEF SourceOp
<1>2. \A j \in 1 .. n : \A c \in DOMAIN ConstSize : op.ins[j] # Sram(c)
  BY <1>1 DEF Unstaging, ToSet
<1>3. Placed(op).type = op.type /\ Placed(op).outs = op.outs
  BY DEF Placed, OnNpu, OnCpu
<1>4. DOMAIN ins = 1 .. n /\ \A j \in 1 .. n : Unstaged(ins[j]) = op.ins[j]
  <2>1. CASE op.type \in NpuOps
    <3>1. /\ DOMAIN ins = 1 .. n
          /\ \A j \in 1 .. n :
               ins[j] = IF IsStaged(op.ins[j]) THEN Sram(op.ins[j]) ELSE op.ins[j]
      BY <1>1, <2>1, PlacedTyped DEF Placed
    <3> HIDE DEF ins, n
    <3> QED
      BY <1>2, <3>1, UnstagedFacts DEF IsStaged
  <2>2. CASE op.type \notin NpuOps
    <3>1. ins = op.ins
      BY <2>2 DEF Placed, OnCpu
    <3> HIDE DEF ins, n
    <3> QED
      BY <1>1, <1>2, <3>1, UnstagedFacts
  <2> QED
    BY <2>1, <2>2
<1> HIDE DEF ins, n
<1>5. [j \in DOMAIN ins |-> Unstaged(ins[j])] = op.ins
  BY <1>1, <1>4
<1>6. op = [type |-> op.type, ins |-> op.ins, outs |-> op.outs]
  BY DEF SourceOp
<1> QED
  BY <1>3, <1>5, <1>6 DEF ins

\* Counting rows from 0 or from 1 is the same.
LEMMA ShiftedCount ==
  ASSUME NEW S \in SUBSET Nat, NEW T, IsFiniteSet(S), T = {i + 1 : i \in S}
  PROVE  Cardinality(T) = Cardinality(S)
<1> DEFINE f == [i \in S |-> i + 1]
<1>1. f \in Bijection(S, T)
  BY DEF Bijection, Injection, Surjection, IsInjective
<1>2. ExistsBijection(S, T)
  BY <1>1 DEF ExistsBijection
<1> QED
  BY <1>2, FS_Bijection

LEMMA RoutedReads ==
  ASSUME NEW ops, Stageable(ops)
  PROVE  LET list == AssignDevices(ops)
             rows == {i \in Rows(list) : Row(list, i).device # "DMA"}
         IN  /\ Cardinality(rows) = Len(ops)
             /\ \A i \in rows :
                  ops[Cardinality({j \in rows : j <= i})] =
                    [type |-> Row(list, i).type, outs |-> Row(list, i).outs,
                     ins |-> [j \in DOMAIN Row(list, i).ins |-> Unstaged(Row(list, i).ins[j])]]
<1> DEFINE list == AssignDevices(ops)
           rows == {i \in Rows(list) : Row(list, i).device # "DMA"}
           Before(i) == {j \in rows : j <= i}
<1>1. list \in Seq(LoweredOp) /\ InOrder(list, ops, Len(ops))
  BY RoutedRows DEF Stageable, Unstaging
<1> HIDE DEF list
<1>2. \A i \in Rows(list) : i \in Nat /\ i + 1 \in 1 .. Len(list) /\ Row(list, i) = list[i + 1]
  BY <1>1 DEF Rows, Row
<1>3. rows \in SUBSET Nat /\ IsFiniteSet(rows)
  <2>1. IsFiniteSet(Rows(list))
    BY <1>1, FS_Interval DEF Rows
  <2> QED
    BY <1>2, <2>1, FS_Subset
<1>4. Computing(list) = {i + 1 : i \in rows}
  <2>1. \A j \in 1 .. Len(list) : j - 1 \in Rows(list) /\ (j - 1) + 1 = j
    BY <1>1 DEF Rows
  <2>2. ASSUME NEW j \in Computing(list) PROVE \E i \in rows : j = i + 1
    BY <1>2, <2>1 DEF Computing
  <2> QED
    BY <1>2, <2>2 DEF Computing
<1>5. Cardinality(rows) = Len(ops)
  BY <1>1, <1>3, <1>4, ShiftedCount DEF InOrder
<1>6. ASSUME NEW i \in rows
      PROVE  ops[Cardinality(Before(i))] =
               [type |-> Row(list, i).type, outs |-> Row(list, i).outs,
                ins |-> [j \in DOMAIN Row(list, i).ins |-> Unstaged(Row(list, i).ins[j])]]
  <2>1. Before(i) \in SUBSET Nat /\ IsFiniteSet(Before(i))
    BY <1>3, FS_Subset
  <2>2. Upto(list, i + 1) = {j + 1 : j \in Before(i)}
    <3>1. \A j \in rows : j <= i <=> j + 1 <= i + 1
      BY <1>3
    <3> HIDE DEF rows
    <3> QED
      BY <1>4, <3>1 DEF Upto
  <2>3. Cardinality(Before(i)) = Number(list, i + 1)
    BY <2>1, <2>2, ShiftedCount DEF Number
  <2>4. i + 1 \in Computing(list)
    BY <1>4
  <2> DEFINE op == ops[Number(list, i + 1)]
  <2>5. Row(list, i) = Placed(op) /\ Number(list, i + 1) \in 1 .. Len(ops)
    BY <1>1, <1>2, <2>4 DEF InOrder
  <2>6. op \in SourceOp /\ Unstaging(op)
    BY <2>5 DEF Stageable, Unstaging
  <2> HIDE DEF op, Before, rows
  <2>7. op = [type |-> Placed(op).type, outs |-> Placed(op).outs,
               ins |-> [j \in DOMAIN Placed(op).ins |-> Unstaged(Placed(op).ins[j])]]
    BY <2>6, PlacedUnstaged
  <2> QED
    BY <2>3, <2>5, <2>7 DEF op
<1> QED
  BY <1>5, <1>6 DEF list

-----------------------------------------------------------------------------
(* Sizes. *)

\* A shape of naturals has a natural number of elements.
LEMMA ElementsNatural ==
  ASSUME NEW shape \in Seq(Nat)
  PROVE  Elements(shape) \in Nat
<1> DEFINE S == DOMAIN shape
           c == [U \in SUBSET S |-> Max(U)]
           st == [p \in S \X Nat |-> p[2] * shape[p[1]]]
           f == CHOOSE h : h = [U \in SUBSET S |->
                  IF U = {} THEN 1 ELSE h[U \ {Max(U)}] * shape[Max(U)]]
<1>1. S = 1 .. Len(shape) /\ Len(shape) \in Nat /\ IsFiniteSet(S) /\ S \subseteq Nat
  BY FS_Interval
<1>2. \A a, b \in Nat : a * b \in Nat
  OBVIOUS
<1>3. st \in [S \X Nat -> Nat]
  BY <1>1, <1>2
<1>4. \A U \in SUBSET S : U # {} => Max(U) \in U
  <2> SUFFICES ASSUME NEW U \in SUBSET S, U # {} PROVE \E x \in U : \A y \in U : x >= y
    BY DEF Max
  <2> DEFINE id == [x \in U |-> x]
  <2>1. IsFiniteSet(U) /\ \A x \in U : id[x] = x /\ id[x] \in Int
    BY <1>1, FS_Subset
  <2> HIDE DEF id
  <2>2. PICK x \in U : \A y \in U : id[y] <= id[x]
    BY <2>1, GreatestElement
  <2> QED
    BY <2>1, <2>2
<1>5. \A U \in SUBSET S : U # {} => c[U] \in U
  BY <1>4
<1>6. PICK h \in [SUBSET S -> Nat] : Folds(S, c, st, 1, h)
  <2> HIDE DEF c, st, S, f
  <2>1. 1 \in Nat
    OBVIOUS
  <2> QED
    BY <1>1, <1>3, <1>5, <2>1, FoldExists
<1>7. \A U \in SUBSET S : h[U] = IF U = {} THEN 1 ELSE h[U \ {Max(U)}] * shape[Max(U)]
  <2>1. ASSUME NEW U \in SUBSET S, U # {}
        PROVE  st[<<c[U], h[U \ {c[U]}]>>] = h[U \ {Max(U)}] * shape[Max(U)]
    <3>1. c[U] = Max(U) /\ Max(U) \in S /\ h[U \ {Max(U)}] \in Nat
      BY <1>4, <2>1
    <3> HIDE DEF c
    <3> QED
      BY <3>1
  <2>2. \A U \in SUBSET S : h[U] = IF U = {} THEN 1 ELSE st[<<c[U], h[U \ {c[U]}]>>]
    BY <1>6 DEF Folds
  <2> QED
    BY <2>1, <2>2
<1>8. h = [U \in SUBSET S |-> IF U = {} THEN 1 ELSE h[U \ {Max(U)}] * shape[Max(U)]]
  BY <1>7
<1>9. f = [U \in SUBSET S |-> IF U = {} THEN 1 ELSE f[U \ {Max(U)}] * shape[Max(U)]]
  BY <1>8
<1>10. Elements(shape) = f[S]
  BY DEF Elements, FoldLeft, MapThenFoldSet
<1> HIDE DEF f
<1> DEFINE G == {U \in SUBSET S : f[U] \in Nat}
<1>11. ASSUME NEW U \in SUBSET S, \A x \in U : U \ {x} \in G PROVE U \in G
  <2>1. f[U] = IF U = {} THEN 1 ELSE f[U \ {Max(U)}] * shape[Max(U)]
    BY <1>9
  <2>2. CASE U = {}
    BY <2>1, <2>2
  <2>3. CASE U # {}
    <3> DEFINE m == Max(U)
    <3>1. m \in U /\ f[U] = f[U \ {m}] * shape[m]
      BY <1>4, <2>1, <2>3
    <3> HIDE DEF m
    <3>2. f[U \ {m}] \in Nat
      BY <1>11, <3>1
    <3>3. shape[m] \in Nat
      BY <3>1
    <3> QED
      BY <1>2, <3>1, <3>2, <3>3
  <2> QED
    BY <2>2, <2>3
<1> HIDE DEF G, S
<1>12. S \in G
  <2>1. IsFiniteSet(S)
    BY <1>1
  <2>2. \A U \in SUBSET S : U \in G
    BY <1>11, <2>1, FiniteInductive
  <2> QED
    BY <2>2
<1> QED
  BY <1>10, <1>12 DEF G

-----------------------------------------------------------------------------
(* The routed graph, and what its aliases are. *)

RoutedGraph(graph) == [graph EXCEPT !.ops = AssignDevices(@)]

LEMMA SourcesAreStageable ==
  ASSUME NEW graph, IsSource(graph)
  PROVE  Stageable(graph.ops)
<1> DEFINE ops == graph.ops
           names == Named(ops, graph.inputs, graph.outputs)
<1>1. ops \in Seq(SourceOp) /\ SingleWriters(ops) /\ Ordered(ops)
  BY ValidMeansOrdered DEF IsSource
<1>2. \A k \in 1 .. Len(ops) :
        ToSet(ops[k].ins) \cup ToSet(ops[k].outs) \subseteq names
  BY <1>1 DEF Named, ToSet
<1>3. \A k \in 1 .. Len(ops) : ToSet(ops[k].outs) \subseteq DOMAIN graph.shape
  <2>1. \A k \in 1 .. Len(ops) : k - 1 \in Rows(ops) /\ Row(ops, k - 1) = ops[k]
    BY <1>1 DEF Rows, Row
  <2>2. ArenaTensors(graph) \subseteq DOMAIN graph.shape
    BY DEF IsSource
  <2> QED
    BY <2>1, <2>2 DEF ArenaTensors
<1>4. \A c \in DOMAIN ConstSize :
        c \notin DOMAIN graph.shape /\ Sram(c) \notin DOMAIN ConstSize \cup names
  BY DEF IsSource
<1> HIDE DEF ops, names
<1>5. \A c \in DOMAIN ConstSize : \A k \in 1 .. Len(ops) :
        /\ c \notin ToSet(ops[k].outs)
        /\ Sram(c) \notin ToSet(ops[k].outs) \cup ToSet(ops[k].ins)
  BY <1>2, <1>3, <1>4
<1>6. \A c \in DOMAIN ConstSize : Sram(c) \notin DOMAIN ConstSize
  BY <1>4
<1> QED
  BY <1>1, <1>5, <1>6 DEF Stageable, ops

\* Every operator has a row.
LEMMA EveryOperatorHasARow ==
  ASSUME NEW ops, Stageable(ops), NEW k \in 1 .. Len(ops)
  PROVE  \E i \in Rows(AssignDevices(ops)) : Places(ops, AssignDevices(ops), i, k)
<1> DEFINE list == AssignDevices(ops)
           n == Len(ops)
           C == Computing(list)
           num == [i \in C |-> Number(list, i)]
<1>1. list \in Seq(LoweredOp) /\ InOrder(list, ops, n)
  BY RoutedRows DEF Stageable, Unstaging
<1> HIDE DEF list
<1>2. n \in Nat
  BY DEF Stageable
<1>3. IsFiniteSet(C) /\ Cardinality(C) = n
  BY <1>1, ComputingIsFinite DEF InOrder
<1>4. IsFiniteSet(1 .. n) /\ Cardinality(1 .. n) = n
  <2> HIDE DEF n
  <2>1. IsFiniteSet(1 .. n) /\ Cardinality(1 .. n) = IF 1 > n THEN 0 ELSE n - 1 + 1
    BY <1>2, FS_Interval
  <2> QED
    BY <1>2, <2>1
<1>5. num \in [C -> 1 .. n]
  BY <1>1 DEF InOrder
<1>6. \A i, j \in C : i # j => num[i] # num[j]
  <2>1. \A i \in C : i \in Int
    BY <1>1 DEF Computing
  <2>2. ASSUME NEW i \in C, NEW j \in C, i < j PROVE num[i] < num[j]
    BY <1>1, <2>1, <2>2, NumberGrows
  <2>3. \A i \in C : num[i] \in Int
    BY <1>5
  <2> HIDE DEF C, num
  <2> QED
    BY <2>1, <2>2, <2>3
<1>7. \E i \in C : num[i] = k
  <2>1. num \in Injection(C, 1 .. n)
    BY <1>5, <1>6 DEF Injection, IsInjective
  <2> HIDE DEF num, C, n
  <2>2. \A f \in Injection(C, 1 .. n) : f \in Surjection(C, 1 .. n)
    BY <1>3, <1>4, FS_Injection
  <2>3. num \in Surjection(C, 1 .. n)
    BY <2>1, <2>2
  <2> QED
    BY <2>3 DEF Surjection, n
<1>8. PICK i \in C : num[i] = k
  BY <1>7
<1>9. i - 1 \in Rows(list) /\ (i - 1) + 1 = i
  BY <1>1 DEF Computing, Rows
<1>10. Row(list, i - 1) = Placed(ops[k])
  BY <1>1, <1>8, <1>9 DEF InOrder, Row
<1> QED
  BY <1>8, <1>9, <1>10 DEF Places, list

NamesOf(graph) == Named(graph.ops, graph.inputs, graph.outputs)

LEMMA RoutedParts ==
  ASSUME NEW graph, IsSource(graph)
  PROVE  /\ DOMAIN RoutedGraph(graph) = DOMAIN graph
         /\ RoutedGraph(graph).ops = AssignDevices(graph.ops)
         /\ RoutedGraph(graph).inputs = graph.inputs
         /\ RoutedGraph(graph).outputs = graph.outputs
         /\ RoutedGraph(graph).shape = graph.shape
BY DEF RoutedGraph, IsSource

\* Operators name what the rows of their list do.
LEMMA NamedByRows ==
  ASSUME NEW graph, NEW T, graph.ops \in Seq(T)
  PROVE  NamesOf(graph) =
           ToSet(graph.inputs) \cup graph.outputs
             \cup UNION {InputsOf(graph.ops, i) \cup ToSet(Row(graph.ops, i).outs) :
                           i \in Rows(graph.ops)}
<1> DEFINE ops == graph.ops
<1>1. Len(ops) \in Nat /\ DOMAIN ops = 1 .. Len(ops)
  OBVIOUS
<1>2. \A i \in Rows(ops) : Row(ops, i) \in ToSet(ops)
  BY <1>1 DEF Rows, Row, ToSet
<1>3. \A op \in ToSet(ops) : \E i \in Rows(ops) : op = Row(ops, i)
  <2>1. \A k \in 1 .. Len(ops) : k - 1 \in Rows(ops) /\ (k - 1) + 1 = k
    BY <1>1 DEF Rows
  <2> QED
    BY <1>1, <2>1 DEF Row, ToSet
<1> HIDE DEF ops
<1>4. UNION {ToSet(op.ins) \cup ToSet(op.outs) : op \in ToSet(ops)} =
      UNION {InputsOf(ops, i) \cup ToSet(Row(ops, i).outs) : i \in Rows(ops)}
  <2>1. ASSUME NEW op \in ToSet(ops)
        PROVE  ToSet(op.ins) \cup ToSet(op.outs) \subseteq
               UNION {InputsOf(ops, i) \cup ToSet(Row(ops, i).outs) : i \in Rows(ops)}
    <3>1. PICK i \in Rows(ops) : op = Row(ops, i)
      BY <1>3
    <3> QED
      BY <3>1 DEF InputsOf
  <2>2. ASSUME NEW i \in Rows(ops)
        PROVE  InputsOf(ops, i) \cup ToSet(Row(ops, i).outs) \subseteq
               UNION {ToSet(op.ins) \cup ToSet(op.outs) : op \in ToSet(ops)}
    BY <1>2 DEF InputsOf
  <2> QED
    BY <2>1, <2>2
<1> QED
  BY <1>4 DEF NamesOf, Named, ops

\* What routing names and allocates, beside what the source does, are staged
\* constants and their buffers.
LEMMA RoutedNames ==
  ASSUME NEW graph, IsSource(graph)
  PROVE  LET R == RoutedGraph(graph)
         IN  /\ ArenaTensors(graph) \subseteq ArenaTensors(R)
             /\ \A t \in ArenaTensors(R) :
                  t \in DOMAIN R.shape \/ \E c \in DOMAIN ConstSize : t = Sram(c)
             /\ NamesOf(R) \cap DOMAIN R.shape \subseteq ArenaTensors(R)
             /\ ArenaTensors(R) \subseteq NamesOf(R)
             /\ NamesOf(R) \subseteq TensorsOf(R)
<1> DEFINE ops == graph.ops
           list == AssignDevices(ops)
           R == RoutedGraph(graph)
<1>1. Stageable(ops) /\ ops \in Seq(SourceOp)
  BY SourcesAreStageable DEF IsSource
<1>2. LoadsMean(list) /\ PlacesMean(ops, list) /\ list \in Seq(LoweredOp)
  BY <1>1, RowsFollow, RoutedRows DEF Stageable, Unstaging
<1>3. \A i \in Rows(list) : \/ \E c \in DOMAIN ConstSize : Loads(list, i, c)
                            \/ \E k \in 1 .. Len(ops) : Places(ops, list, i, k)
  BY <1>1, EachRow
<1>4. \A k \in 1 .. Len(ops) : \E i \in Rows(list) : Places(ops, list, i, k)
  BY <1>1, EveryOperatorHasARow
<1>5. /\ R.ops = list /\ R.inputs = graph.inputs
      /\ R.outputs = graph.outputs /\ R.shape = graph.shape
  BY RoutedParts
<1>6. /\ \A k \in 1 .. Len(ops) : k - 1 \in Rows(ops) /\ Row(ops, k - 1) = ops[k]
      /\ \A i \in Rows(ops) : i + 1 \in 1 .. Len(ops) /\ Row(ops, i) = ops[i + 1]
  BY <1>1 DEF Rows, Row
<1>7. /\ ArenaTensors(graph) \subseteq DOMAIN graph.shape
      /\ NamesOf(graph) \cap DOMAIN graph.shape \subseteq ArenaTensors(graph)
      /\ \A c \in DOMAIN ConstSize : c \notin DOMAIN graph.shape /\ Sram(c) \notin DOMAIN graph.shape
  BY DEF IsSource, NamesOf
<1>8. NamesOf(graph) = ToSet(graph.inputs) \cup graph.outputs
             \cup UNION {InputsOf(ops, i) \cup ToSet(Row(ops, i).outs) : i \in Rows(ops)}
  BY <1>1, NamedByRows
<1>9. NamesOf(R) = ToSet(R.inputs) \cup R.outputs
             \cup UNION {InputsOf(list, i) \cup ToSet(Row(list, i).outs) : i \in Rows(list)}
  <2> HIDE DEF R, list
  <2>1. R.ops \in Seq(LoweredOp)
    BY <1>2, <1>5
  <2>2. NamesOf(R) = ToSet(R.inputs) \cup R.outputs
             \cup UNION {InputsOf(R.ops, i) \cup ToSet(Row(R.ops, i).outs) : i \in Rows(R.ops)}
    BY <2>1, NamedByRows
  <2> QED
    BY <1>5, <2>2
<1>10. ArenaTensors(R) = ToSet(graph.inputs) \cup UNION {ToSet(Row(list, i).outs) : i \in Rows(list)}
  BY <1>5 DEF ArenaTensors
<1>11. ArenaTensors(graph) = ToSet(graph.inputs) \cup UNION {ToSet(Row(ops, i).outs) : i \in Rows(ops)}
  BY DEF ArenaTensors
<1> HIDE DEF ops, list, R
<1>12. ArenaTensors(graph) \subseteq ArenaTensors(R)
  <2>1. ASSUME NEW i \in Rows(ops), NEW t \in ToSet(Row(ops, i).outs)
        PROVE  \E j \in Rows(list) : t \in ToSet(Row(list, j).outs)
    <3>1. PICK j \in Rows(list) : Places(ops, list, j, i + 1)
      BY <1>4, <1>6
    <3>2. ToSet(Row(list, j).outs) = ToSet(ops[i + 1].outs)
      BY <1>2, <3>1 DEF PlacesMean
    <3> QED
      BY <1>6, <2>1, <3>2
  <2> QED
    BY <1>10, <1>11, <2>1
<1>13. ASSUME NEW t \in ArenaTensors(R)
       PROVE  t \in DOMAIN R.shape \/ \E c \in DOMAIN ConstSize : t = Sram(c)
  <2>1. CASE t \in ToSet(graph.inputs)
    BY <1>5, <1>7, <1>11, <2>1
  <2>2. ASSUME NEW i \in Rows(list), t \in ToSet(Row(list, i).outs)
        PROVE  t \in DOMAIN R.shape \/ \E c \in DOMAIN ConstSize : t = Sram(c)
    <3>1. ASSUME NEW c \in DOMAIN ConstSize, Loads(list, i, c) PROVE t = Sram(c)
      BY <1>2, <2>2, <3>1 DEF LoadsMean
    <3>2. ASSUME NEW k \in 1 .. Len(ops), Places(ops, list, i, k) PROVE t \in DOMAIN R.shape
      <4>1. t \in ToSet(ops[k].outs)
        BY <1>2, <2>2, <3>2 DEF PlacesMean
      <4>2. t \in ToSet(Row(ops, k - 1).outs) /\ k - 1 \in Rows(ops)
        BY <1>6, <4>1
      <4> QED
        BY <1>5, <1>7, <1>11, <4>2
    <3> QED
      BY <1>3, <3>1, <3>2
  <2> QED
    BY <1>10, <2>1, <2>2
<1>14. ASSUME NEW t \in NamesOf(R), t \in DOMAIN R.shape PROVE t \in ArenaTensors(R)
  <2>1. ASSUME NEW i \in Rows(list), t \in InputsOf(list, i) PROVE t \in NamesOf(graph)
    <3>1. ASSUME NEW c \in DOMAIN ConstSize, Loads(list, i, c) PROVE FALSE
      <4>1. t = c
        BY <1>2, <2>1, <3>1 DEF LoadsMean
      <4> QED
        BY <1>5, <1>7, <1>14, <4>1
    <3>2. ASSUME NEW k \in 1 .. Len(ops), Places(ops, list, i, k) PROVE t \in NamesOf(graph)
      <4>1. ~IsBuffer(list, i, t)
        BY <1>5, <1>7, <1>14 DEF IsBuffer
      <4>2. t \in ToSet(ops[k].ins)
        BY <1>2, <2>1, <3>2, <4>1 DEF PlacesMean
      <4>3. t \in InputsOf(ops, k - 1) /\ k - 1 \in Rows(ops)
        BY <1>6, <4>2 DEF InputsOf
      <4> QED
        BY <1>8, <4>3
    <3> QED
      BY <1>3, <3>1, <3>2
  <2>2. t \in NamesOf(graph) => t \in ArenaTensors(R)
    BY <1>5, <1>7, <1>12, <1>14
  <2>3. CASE t \in ToSet(R.inputs) \cup R.outputs
    BY <1>5, <1>8, <2>2, <2>3
  <2>4. CASE \E i \in Rows(list) : t \in ToSet(Row(list, i).outs)
    BY <1>10, <2>4
  <2> QED
    BY <1>9, <1>14, <2>1, <2>2, <2>3, <2>4
<1>15. ArenaTensors(R) \subseteq NamesOf(R)
  BY <1>5, <1>9, <1>10
<1>16. \A t \in NamesOf(graph) : t \in DOMAIN R.shape \/ t \in DOMAIN ConstSize
  BY <1>5 DEF IsSource, NamesKnown, TensorsOf, NamesOf
<1>17. ASSUME NEW t \in NamesOf(R)
       PROVE  \/ t \in DOMAIN R.shape \/ t \in DOMAIN ConstSize
              \/ t \in ArenaTensors(R)
  <2>1. CASE t \in ToSet(R.inputs) \cup R.outputs
    BY <1>5, <1>8, <1>16, <2>1
  <2>2. ASSUME NEW i \in Rows(list), t \in ToSet(Row(list, i).outs)
        PROVE  t \in ArenaTensors(R)
    BY <1>10, <2>2
  <2>3. ASSUME NEW i \in Rows(list), t \in InputsOf(list, i)
        PROVE  \/ t \in DOMAIN R.shape \/ t \in DOMAIN ConstSize
               \/ t \in ArenaTensors(R)
    <3>1. ASSUME NEW c \in DOMAIN ConstSize, Loads(list, i, c) PROVE t \in DOMAIN ConstSize
      BY <1>2, <2>3, <3>1 DEF LoadsMean
    <3>2. ASSUME NEW k \in 1 .. Len(ops), Places(ops, list, i, k), t \in ToSet(ops[k].ins)
          PROVE  t \in NamesOf(graph)
      <4>1. t \in InputsOf(ops, k - 1) /\ k - 1 \in Rows(ops)
        BY <1>6, <3>2 DEF InputsOf
      <4> QED
        BY <1>8, <4>1
    <3>3. ASSUME IsBuffer(list, i, t) PROVE t \in ArenaTensors(R)
      <4>1. PICK c \in DOMAIN ConstSize : \E j \in Rows(list) : t = Sram(c) /\ Loads(list, j, c)
        BY <3>3 DEF IsBuffer
      <4>2. PICK j \in Rows(list) : t = Sram(c) /\ Loads(list, j, c)
        BY <4>1
      <4>3. t \in ToSet(Row(list, j).outs)
        BY <1>2, <4>2 DEF LoadsMean
      <4> QED
        BY <1>10, <4>3
    <3>4. ASSUME NEW k \in 1 .. Len(ops), Places(ops, list, i, k)
          PROVE  t \in ToSet(ops[k].ins) \/ IsBuffer(list, i, t)
      BY <1>2, <2>3, <3>4 DEF PlacesMean
    <3> QED
      BY <1>3, <1>16, <3>1, <3>2, <3>3, <3>4
  <2> QED
    BY <1>9, <2>1, <2>2, <2>3
<1>18. NamesOf(R) \subseteq TensorsOf(R)
  BY <1>13, <1>17 DEF TensorsOf
<1> QED
  BY <1>12, <1>13, <1>14, <1>15, <1>18 DEF R

LEMMA SizesAreNatural ==
  ASSUME NEW graph, IsSource(graph), NEW t \in DOMAIN graph.shape
  PROVE  BytesOf(graph, t) \in Nat
<1>1. graph.shape[t] \in Seq(Nat)
  BY DEF IsSource
<1>2. Elements(graph.shape[t]) \in Nat
  BY <1>1, ElementsNatural
<1> QED
  BY <1>2 DEF BytesOf

\* After routing, views are the views there were.
LEMMA RoutedViews ==
  ASSUME NEW graph, IsSource(graph), NEW i \in Rows(RoutedGraph(graph).ops),
         IsView(RoutedGraph(graph), i)
  PROVE  LET R == RoutedGraph(graph)
         IN  BytesOf(R, Operand(R, i)) = BytesOf(R, Result(R, i))
<1> DEFINE ops == graph.ops
           list == AssignDevices(ops)
           R == RoutedGraph(graph)
<1>1. Stageable(ops) /\ ops \in Seq(SourceOp)
  BY SourcesAreStageable DEF IsSource
<1>2. R.ops = list /\ R.shape = graph.shape
  BY RoutedParts
<1>3. /\ Row(list, i).ins # << >> /\ Row(list, i).outs # << >>
      /\ Row(list, i).ins[1] \in DOMAIN graph.shape /\ Row(list, i).outs[1] \in DOMAIN graph.shape
      /\ Row(list, i).type \in ViewOps
  BY <1>2 DEF IsView, IsCandidate, Operand, Result
<1>4. \A c \in DOMAIN ConstSize : c \notin DOMAIN graph.shape
  BY DEF IsSource
<1>5. \A c \in DOMAIN ConstSize : ~Loads(list, i, c)
  BY <1>3, <1>4 DEF Loads, LoadRow
<1> HIDE DEF list, ops
<1>6. PICK k \in 1 .. Len(ops) : Places(ops, list, i, k)
  BY <1>1, <1>2, <1>5, EachRow DEF list
<1>7. Row(list, i) = OnCpu(ops[k])
  <2>1. Placed(ops[k]).type = ops[k].type
    BY DEF Placed, OnNpu, OnCpu
  <2>2. Row(list, i) = Placed(ops[k])
    BY <1>6 DEF Places
  <2>3. ViewOps \cap NpuOps = {}
    BY DEF ViewOps, NpuOps
  <2> QED
    BY <1>3, <2>1, <2>2, <2>3 DEF Placed
<1>8. k - 1 \in Rows(ops) /\ Row(ops, k - 1) = ops[k]
  BY <1>1 DEF Rows, Row
<1>9. /\ Row(ops, k - 1).ins = Row(list, i).ins /\ Row(ops, k - 1).outs = Row(list, i).outs
      /\ Row(ops, k - 1).type = Row(list, i).type
  BY <1>7, <1>8 DEF OnCpu
<1>10. IsView(graph, k - 1)
  BY <1>3, <1>9 DEF IsView, IsCandidate, Operand, Result, ops
<1>11. BytesOf(graph, Operand(graph, k - 1)) = BytesOf(graph, Result(graph, k - 1))
  BY <1>8, <1>10 DEF IsSource, ops
<1>12. Operand(R, i) = Operand(graph, k - 1) /\ Result(R, i) = Result(graph, k - 1)
  BY <1>2, <1>9 DEF Operand, Result, ops
<1> QED
  BY <1>2, <1>11, <1>12 DEF BytesOf

\* Both ends of an alias are activations, and the result fits in the operand.
LEMMA RoutedAliases ==
  ASSUME NEW graph, IsSource(graph)
  PROVE  LET R == RoutedGraph(graph)
         IN  \A t \in DOMAIN AliasOf(R) :
               /\ t \in ArenaTensors(R) \cap DOMAIN R.shape
               /\ AliasOf(R)[t] \in ArenaTensors(R) \cap DOMAIN R.shape
               /\ BytesOf(R, t) <= BytesOf(R, AliasOf(R)[t])
<1> DEFINE R == RoutedGraph(graph)
           al == AliasOf(R)
<1>1. R.ops \in Seq(LoweredOp) /\ R.shape = graph.shape
  <2>1. R.ops = AssignDevices(graph.ops) /\ R.shape = graph.shape
    BY RoutedParts
  <2>2. AssignDevices(graph.ops) \in Seq(LoweredOp)
    BY SourcesAreStageable, RoutedRows DEF Stageable, Unstaging
  <2> QED
    BY <2>1, <2>2
<1>2. NamesOf(R) \cap DOMAIN R.shape \subseteq ArenaTensors(R)
  BY RoutedNames
<1>3. \A t \in DOMAIN al : \E i \in Rows(R.ops) :
              /\ IsView(R, i) \/ IsInPlace(R, i)
              /\ t = Result(R, i) /\ al[t] = Operand(R, i)
  BY AliasRows
<1>4. \A i \in Rows(R.ops) : IsView(R, i) => BytesOf(R, Operand(R, i)) = BytesOf(R, Result(R, i))
  BY RoutedViews
<1>5. \A t \in DOMAIN R.shape : BytesOf(R, t) \in Nat
  <2>1. \A t \in DOMAIN graph.shape : BytesOf(graph, t) \in Nat
    BY SizesAreNatural
  <2> QED
    BY <1>1, <2>1 DEF BytesOf
<1> HIDE DEF R, al
<1>6. ASSUME NEW i \in Rows(R.ops), IsCandidate(R, i)
      PROVE  Operand(R, i) \in NamesOf(R) /\ Result(R, i) \in NamesOf(R)
  <2>1. i + 1 \in 1 .. Len(R.ops) /\ Row(R.ops, i) \in LoweredOp
    BY <1>1 DEF Rows, Row
  <2>2. Row(R.ops, i).ins \in Seq(Name) /\ Row(R.ops, i).outs \in Seq(Name)
    BY <2>1 DEF LoweredOp
  <2>3. \A s \in Seq(Name) : s # << >> => s[1] \in ToSet(s)
    BY DEF ToSet
  <2>4. Operand(R, i) \in InputsOf(R.ops, i) /\ Result(R, i) \in ToSet(Row(R.ops, i).outs)
    BY <1>6, <2>2, <2>3 DEF IsCandidate, InputsOf, Operand, Result
  <2>5. NamesOf(R) = ToSet(R.inputs) \cup R.outputs
             \cup UNION {InputsOf(R.ops, j) \cup ToSet(Row(R.ops, j).outs) : j \in Rows(R.ops)}
    BY <1>1, NamedByRows
  <2> QED
    BY <2>4, <2>5
<1>7. ASSUME NEW i \in Rows(R.ops), IsView(R, i) \/ IsInPlace(R, i)
      PROVE  /\ Operand(R, i) \in ArenaTensors(R) \cap DOMAIN R.shape
             /\ Result(R, i) \in ArenaTensors(R) \cap DOMAIN R.shape
             /\ BytesOf(R, Result(R, i)) <= BytesOf(R, Operand(R, i))
  <2>1. IsCandidate(R, i)
    BY <1>7 DEF IsView, IsInPlace
  <2>2. Operand(R, i) \in DOMAIN R.shape /\ Result(R, i) \in DOMAIN R.shape
    BY <2>1 DEF IsCandidate
  <2>3. BytesOf(R, Operand(R, i)) \in Nat /\ BytesOf(R, Result(R, i)) \in Nat
    BY <1>5, <2>2
  <2>4. CASE IsView(R, i)
    BY <1>2, <1>4, <1>6, <2>1, <2>2, <2>3, <2>4
  <2>5. CASE IsInPlace(R, i)
    <3>1. \/ BytesOf(R, Operand(R, i)) >= BytesOf(R, Result(R, i))
          \/ BytesOf(R, Operand(R, i)) = BytesOf(R, Result(R, i))
      BY <2>5 DEF IsInPlace, BytesOf
    <3> QED
      BY <1>2, <1>6, <2>1, <2>2, <2>3, <3>1
  <2> QED
    BY <1>7, <2>4, <2>5
<1> QED
  BY <1>3, <1>7 DEF al, R

\* A root: of an activation it is one, of at least its size, and of what is no
\* alias the tensor itself.
IsRooted(graph, alias, base) ==
  \A t \in DOMAIN graph.shape \cup ArenaTensors(graph) :
    /\ t \in ArenaTensors(graph) => base[t] \in ArenaTensors(graph)
    /\ t \notin DOMAIN alias => base[t] = t
    /\ BufferBytes(graph, t) <= BufferBytes(graph, base[t])

LEMMA BuffersHaveASize ==
  ASSUME NEW graph, IsSource(graph)
  PROVE  \A t \in DOMAIN graph.shape \cup ArenaTensors(RoutedGraph(graph)) :
           BufferBytes(RoutedGraph(graph), t) \in Nat
<1> DEFINE R == RoutedGraph(graph)
<1>1. R.shape = graph.shape
  BY RoutedParts
<1>2. \A t \in ArenaTensors(R) : t \in DOMAIN R.shape \/ \E c \in DOMAIN ConstSize : t = Sram(c)
  BY RoutedNames
<1>3. \A t \in DOMAIN graph.shape : BytesOf(graph, t) \in Nat
  BY SizesAreNatural
<1> HIDE DEF R
<1> SUFFICES ASSUME NEW t \in DOMAIN R.shape \cup ArenaTensors(R)
             PROVE  BufferBytes(R, t) \in Nat
  BY <1>1 DEF R
<1>4. CASE t \in DOMAIN R.shape
  BY <1>1, <1>3, <1>4 DEF BufferBytes, BytesOf
<1>5. CASE t \notin DOMAIN R.shape
  <2>1. \E c \in DOMAIN ConstSize : t = Sram(c)
    BY <1>2, <1>5
  <2>2. (CHOOSE c \in DOMAIN ConstSize : t = Sram(c)) \in DOMAIN ConstSize
    BY <2>1
  <2> QED
    BY <1>5, <2>2, AssignmentAssumption DEF BufferBytes
<1> QED
  BY <1>4, <1>5

LEMMA RoutedRoots ==
  ASSUME NEW graph, IsSource(graph)
  PROVE  LET R == RoutedGraph(graph)
         IN  IsRooted(R, AliasOf(R), RootsOf(R, AliasOf(R)))
<1> DEFINE R == RoutedGraph(graph)
           al == AliasOf(R)
           D == DOMAIN R.shape \cup ArenaTensors(R)
           A == {r \in [D -> D] : IsRooted(R, al, r)}
<1>1. R.ops \in Seq(LoweredOp)
  <2>1. R.ops = AssignDevices(graph.ops)
    BY RoutedParts
  <2>2. AssignDevices(graph.ops) \in Seq(LoweredOp)
    BY SourcesAreStageable, RoutedRows DEF Stageable, Unstaging
  <2> QED
    BY <2>1, <2>2
<1>2. \A t \in D : BufferBytes(R, t) \in Nat
  <2>1. R.shape = graph.shape
    BY RoutedParts
  <2> QED
    BY <2>1, BuffersHaveASize
<1>3. \A t \in DOMAIN al :
        /\ t \in ArenaTensors(R) \cap DOMAIN R.shape
        /\ al[t] \in ArenaTensors(R) \cap DOMAIN R.shape
        /\ BufferBytes(R, t) <= BufferBytes(R, al[t])
  <2>1. \A t \in DOMAIN al :
        /\ t \in ArenaTensors(R) \cap DOMAIN R.shape
        /\ al[t] \in ArenaTensors(R) \cap DOMAIN R.shape
        /\ BytesOf(R, t) <= BytesOf(R, al[t])
    BY RoutedAliases
  <2> HIDE DEF R, al
  <2> QED
    BY <2>1 DEF BufferBytes
<1> HIDE DEF R, al
<1>4. Unrooted(R) \in A
  BY <1>2 DEF IsRooted, Unrooted
<1>5. \A k \in 1 .. Len(R.ops) : ToSet(R.ops[k].outs) \subseteq ArenaTensors(R)
  <2>1. \A k \in 1 .. Len(R.ops) : k - 1 \in Rows(R.ops) /\ Row(R.ops, k - 1) = R.ops[k]
    BY <1>1 DEF Rows, Row
  <2> QED
    BY <2>1 DEF ArenaTensors
<1>6. ASSUME NEW r \in A, NEW k \in 1 .. Len(R.ops)
      PROVE  FollowAt(R, al, r, k) \in A
  <2> DEFINE S == ToSet(R.ops[k].outs) \cap DOMAIN al
             q == [t \in DOMAIN r |-> IF t \in S THEN r[al[t]] ELSE r[t]]
  <2>1. S \subseteq D /\ S \subseteq ArenaTensors(R) /\ S \subseteq DOMAIN al
    BY <1>5
  <2>2. r \in [D -> D] /\ IsRooted(R, al, r)
    OBVIOUS
  <2> HIDE DEF S
  <2>6. q = [t \in D |-> IF t \in S THEN r[al[t]] ELSE r[t]]
    BY <2>2
  <2> HIDE DEF q
  <2>7. q \in [D -> D]
    BY <1>3, <2>1, <2>2, <2>6
  <2>8. ASSUME NEW t \in D
        PROVE  /\ t \in ArenaTensors(R) => q[t] \in ArenaTensors(R)
               /\ t \notin DOMAIN al => q[t] = t
               /\ BufferBytes(R, t) <= BufferBytes(R, q[t])
    <3>1. CASE t \in S
      <4>1. al[t] \in ArenaTensors(R) /\ al[t] \in D /\ q[t] = r[al[t]] /\ t \in DOMAIN al
        BY <1>3, <2>1, <2>6, <3>1
      <4>2. r[al[t]] \in ArenaTensors(R) /\ r[al[t]] \in D
        BY <2>2, <4>1 DEF IsRooted
      <4>3. /\ BufferBytes(R, t) <= BufferBytes(R, al[t])
            /\ BufferBytes(R, al[t]) <= BufferBytes(R, r[al[t]])
        BY <1>3, <2>2, <4>1 DEF IsRooted
      <4>4. /\ BufferBytes(R, t) \in Nat /\ BufferBytes(R, al[t]) \in Nat
            /\ BufferBytes(R, r[al[t]]) \in Nat
        BY <1>2, <4>1, <4>2
      <4> QED
        BY <4>1, <4>2, <4>3, <4>4
    <3>2. CASE t \notin S
      <4>1. q[t] = r[t]
        BY <2>6, <3>2
      <4> QED
        BY <2>2, <4>1 DEF IsRooted
    <3> QED
      BY <3>1, <3>2
  <2>9. IsRooted(R, al, q)
    BY <2>8 DEF IsRooted
  <2> QED
    BY <2>7, <2>9 DEF q, S, FollowAt
<1> HIDE DEF A
<1>7. PICK roots \in [0 .. Len(R.ops) -> A] : RootSteps(R, al, roots)
  <2> HIDE DEF D
  <2> QED
    BY <1>1, <1>4, <1>6, RootsUnfold
<1>8. RootsOf(R, al) \in A
  <2>1. Len(R.ops) \in 0 .. Len(R.ops)
    BY <1>1
  <2> QED
    BY <1>7, <2>1 DEF RootSteps
<1> QED
  BY <1>8 DEF A, R, al

-----------------------------------------------------------------------------
(* The pruned graph. *)

LEMMA AliasesAreFinite ==
  ASSUME NEW graph, NEW T, graph.ops \in Seq(T)
  PROVE  IsFiniteSet(DOMAIN AliasOf(graph))
<1> DEFINE rows == {i \in Rows(graph.ops) : IsView(graph, i) \/ IsInPlace(graph, i)}
           D == {Result(graph, i) : i \in rows}
           f == [i \in rows |-> Result(graph, i)]
<1>1. IsFiniteSet(rows)
  <2>1. IsFiniteSet(Rows(graph.ops))
    BY FS_Interval DEF Rows
  <2> QED
    BY <2>1, FS_Subset
<1>2. f \in Surjection(rows, D)
  BY DEF Surjection
<1>3. DOMAIN AliasOf(graph) = D
  BY DEF AliasOf
<1> HIDE DEF f, D, rows
<1>4. IsFiniteSet(D)
  BY <1>1, <1>2, FS_Surjection
<1> QED
  BY <1>3, <1>4

\* When what is named is aliased to what is named, marking adds nothing.
LEMMA KeptIsNamed ==
  ASSUME NEW tables, NEW names, NEW aliasOf, IsFiniteSet(DOMAIN aliasOf),
         \A t \in DOMAIN aliasOf : aliasOf[t] \in names
  PROVE  Kept(tables, names, aliasOf) = DOMAIN tables \cap names
<1> DEFINE N == Cardinality(DOMAIN aliasOf)
           Mark(S) == S \cup {aliasOf[t] : t \in S \cap DOMAIN aliasOf}
           f == CHOOSE h : h = [n \in 0 .. N |-> IF n = 0 THEN names ELSE Mark(h[n - 1])]
           all == [n \in 0 .. N |-> names]
<1>1. N \in Nat
  BY FS_CardinalityType
<1>2. Mark(names) = names
  OBVIOUS
<1>3. Kept(tables, names, aliasOf) = DOMAIN tables \cap f[N]
  BY DEF Kept
<1> HIDE DEF N, Mark
<1>4. all = [n \in 0 .. N |-> IF n = 0 THEN names ELSE Mark(all[n - 1])]
  <2>1. \A n \in 0 .. N : n # 0 => n - 1 \in 0 .. N
    BY <1>1
  <2>2. \A n \in 0 .. N : names = IF n = 0 THEN names ELSE Mark(all[n - 1])
    BY <1>2, <2>1
  <2> QED
    BY <2>2
<1> HIDE DEF all
<1>5. f = [n \in 0 .. N |-> IF n = 0 THEN names ELSE Mark(f[n - 1])]
  BY <1>4
<1> HIDE DEF f
<1> DEFINE G == {m \in Nat : m <= N => f[m] = names}
<1>6. 0 \in G
  BY <1>1, <1>5
<1>7. ASSUME NEW m \in Nat, m \in G PROVE m + 1 \in G
  <2>1. CASE m + 1 <= N
    <3>1. m + 1 \in 0 .. N /\ m + 1 # 0 /\ (m + 1) - 1 = m /\ f[m] = names
      BY <1>1, <1>7, <2>1
    <3>2. f[m + 1] = Mark(f[m])
      BY <1>5, <3>1
    <3> QED
      BY <1>2, <3>1, <3>2
  <2>2. CASE ~(m + 1 <= N)
    BY <2>2
  <2> QED
    BY <2>1, <2>2
<1> HIDE DEF G
<1>8. Nat \subseteq G
  BY <1>6, <1>7, NatInductive
<1>9. f[N] = names
  BY <1>1, <1>8 DEF G
<1> QED
  BY <1>3, <1>9

PrunedGraph(graph) ==
  LET kept == Kept(graph.shape, NamesOf(graph), AliasOf(graph))
  IN  [graph EXCEPT !.shape = [t \in kept |-> @[t]]]

\* Pruning keeps the shapes of what is named.
LEMMA PrunedParts ==
  ASSUME NEW graph, IsSource(graph)
  PROVE  LET R == RoutedGraph(graph)
             P == PrunedGraph(R)
         IN  /\ P.ops = R.ops /\ P.inputs = R.inputs /\ P.outputs = R.outputs
             /\ P.shape = [t \in DOMAIN R.shape \cap NamesOf(R) |-> R.shape[t]]
<1> DEFINE R == RoutedGraph(graph)
           P == PrunedGraph(R)
           kept == Kept(R.shape, NamesOf(R), AliasOf(R))
<1>1. DOMAIN R = {"ops", "inputs", "outputs", "shape"}
  BY RoutedParts DEF IsSource
<1>2. R.ops \in Seq(LoweredOp)
  <2>1. R.ops = AssignDevices(graph.ops)
    BY RoutedParts
  <2>2. AssignDevices(graph.ops) \in Seq(LoweredOp)
    BY SourcesAreStageable, RoutedRows DEF Stageable, Unstaging
  <2> QED
    BY <2>1, <2>2
<1>3. \A t \in DOMAIN AliasOf(R) : AliasOf(R)[t] \in ArenaTensors(R)
  BY RoutedAliases
<1>4. ArenaTensors(R) \subseteq NamesOf(R)
  BY RoutedNames
<1> HIDE DEF R
<1>5. kept = DOMAIN R.shape \cap NamesOf(R)
  BY <1>2, <1>3, <1>4, AliasesAreFinite, KeptIsNamed
<1> HIDE DEF kept
<1>6. P = [R EXCEPT !.shape = [t \in kept |-> R.shape[t]]]
  BY DEF PrunedGraph, kept
<1> HIDE DEF P
<1>7. P.shape = [t \in kept |-> R.shape[t]]
  BY <1>1, <1>6
<1> QED
  BY <1>1, <1>5, <1>6, <1>7 DEF R, P

\* Everything named is still in the table.
LEMMA PrunedNamesKnown ==
  ASSUME NEW graph, IsSource(graph)
  PROVE  NamesKnown(PrunedGraph(RoutedGraph(graph)))
<1> DEFINE R == RoutedGraph(graph)
           P == PrunedGraph(R)
<1>1. /\ P.ops = R.ops /\ P.inputs = R.inputs /\ P.outputs = R.outputs
      /\ DOMAIN P.shape = DOMAIN R.shape \cap NamesOf(R)
  BY PrunedParts
<1>2. NamesOf(R) \subseteq TensorsOf(R)
  BY RoutedNames
<1> HIDE DEF R, P
<1>3. Named(P.ops, P.inputs, P.outputs) = NamesOf(R)
  BY <1>1 DEF NamesOf
<1>4. ArenaTensors(P) = ArenaTensors(R)
  BY <1>1 DEF ArenaTensors
<1>5. NamesOf(R) \subseteq TensorsOf(P)
  BY <1>1, <1>2, <1>4 DEF TensorsOf
<1>6. NamesKnown(P)
  BY <1>3, <1>5 DEF NamesKnown
<1> QED
  BY <1>6 DEF R, P

\* A larger buffer takes no fewer blocks.
LEMMA BlocksGrow ==
  ASSUME NEW a \in Nat, NEW b \in Nat, a <= b, NEW n \in Nat \ {0}
  PROVE  a \div n <= b \div n
<1>1. /\ a \div n \in Nat /\ b \div n \in Nat
      /\ n * (a \div n) <= a /\ b < n * (b \div n) + n
  OBVIOUS
<1>2. ASSUME b \div n < a \div n PROVE FALSE
  <2> DEFINE p == a \div n
             q == b \div n
  <2>1. p \in Nat /\ q \in Nat /\ q + 1 <= p /\ n * p <= a /\ b < n * q + n
    BY <1>1, <1>2
  <2> HIDE DEF p, q
  <2>2. n * (q + 1) <= n * p
    BY <2>1
  <2>3. n * (q + 1) = n * q + n
    BY <2>1
  <2> QED
    BY <2>1, <2>2, <2>3
<1> QED
  BY <1>1, <1>2

\* What the rest of the planner finds.
PlanFits(graph, base) ==
  /\ \A t \in ArenaTensors(graph) :
       base[t] \in ArenaTensors(graph) /\ Blocks(graph, t) <= Blocks(graph, base[t])
  /\ \A t \in DOMAIN graph.shape \ DOMAIN AliasOf(graph) :
       t \in ArenaTensors(graph) /\ base[t] = t

\* Rows that are views or work in place name activations.
LEMMA CandidateNames ==
  ASSUME NEW graph, IsSource(graph), NEW i \in Rows(RoutedGraph(graph).ops),
         IsCandidate(RoutedGraph(graph), i)
  PROVE  LET R == RoutedGraph(graph)
             kept == DOMAIN R.shape \cap NamesOf(R)
         IN  /\ Operand(R, i) \in InputsOf(R.ops, i) \cap kept
             /\ Result(R, i) \in ToSet(Row(R.ops, i).outs) \cap kept
<1> DEFINE R == RoutedGraph(graph)
<1>1. R.ops \in Seq(LoweredOp)
  <2>1. R.ops = AssignDevices(graph.ops)
    BY RoutedParts
  <2>2. AssignDevices(graph.ops) \in Seq(LoweredOp)
    BY SourcesAreStageable, RoutedRows DEF Stageable, Unstaging
  <2> QED
    BY <2>1, <2>2
<1> HIDE DEF R
<1>2. Row(R.ops, i) \in LoweredOp
  BY <1>1 DEF Rows, Row, R
<1>3. Operand(R, i) \in InputsOf(R.ops, i) /\ Result(R, i) \in ToSet(Row(R.ops, i).outs)
  <2>1. Row(R.ops, i).ins \in Seq(Name) /\ Row(R.ops, i).outs \in Seq(Name)
    BY <1>2 DEF LoweredOp
  <2>2. \A s \in Seq(Name) : s # << >> => s[1] \in ToSet(s)
    BY DEF ToSet
  <2> QED
    BY <2>1, <2>2 DEF IsCandidate, InputsOf, Operand, Result, R
<1>4. NamesOf(R) = ToSet(R.inputs) \cup R.outputs
             \cup UNION {InputsOf(R.ops, j) \cup ToSet(Row(R.ops, j).outs) : j \in Rows(R.ops)}
  BY <1>1, NamedByRows
<1>5. Operand(R, i) \in DOMAIN R.shape /\ Result(R, i) \in DOMAIN R.shape
  BY DEF IsCandidate, R
<1> QED
  BY <1>3, <1>4, <1>5 DEF R

\* Pruning changes no alias.
LEMMA PrunedRows ==
  ASSUME NEW graph, IsSource(graph)
  PROVE  LET R == RoutedGraph(graph)
             P == PrunedGraph(R)
         IN  /\ \A i \in Rows(R.ops) :
                  /\ IsView(P, i) <=> IsView(R, i)
                  /\ IsInPlace(P, i) <=> IsInPlace(R, i)
             /\ AliasOf(P) = AliasOf(R)
             /\ ArenaTensors(P) = ArenaTensors(R)
             /\ \A t \in ArenaTensors(R) : BufferBytes(P, t) = BufferBytes(R, t)
<1> DEFINE R == RoutedGraph(graph)
           P == PrunedGraph(R)
           kept == DOMAIN R.shape \cap NamesOf(R)
<1>1. /\ P.ops = R.ops /\ P.inputs = R.inputs /\ P.outputs = R.outputs
      /\ P.shape = [t \in kept |-> R.shape[t]]
  BY PrunedParts
<1>2. ArenaTensors(R) \subseteq NamesOf(R)
  BY RoutedNames
<1>3. \A i \in Rows(R.ops) : IsCandidate(R, i) => Operand(R, i) \in kept /\ Result(R, i) \in kept
  BY CandidateNames
<1> HIDE DEF R, P
<1>4. ArenaTensors(P) = ArenaTensors(R)
  BY <1>1 DEF ArenaTensors
<1>5. \A t \in ArenaTensors(R) : BufferBytes(P, t) = BufferBytes(R, t)
  <2>1. \A t \in ArenaTensors(R) : t \in DOMAIN P.shape <=> t \in DOMAIN R.shape
    BY <1>1, <1>2
  <2>2. \A t \in DOMAIN P.shape : P.shape[t] = R.shape[t]
    BY <1>1
  <2> QED
    BY <2>1, <2>2 DEF BufferBytes, BytesOf
<1>6. \A i : Operand(P, i) = Operand(R, i) /\ Result(P, i) = Result(R, i)
  BY <1>1 DEF Operand, Result
<1>7. \A i \in Rows(R.ops) : IsCandidate(P, i) <=> IsCandidate(R, i)
  <2>1. DOMAIN P.shape = kept /\ kept \subseteq DOMAIN R.shape
    BY <1>1
  <2> HIDE DEF kept
  <2> QED
    BY <1>1, <1>3, <1>6, <2>1 DEF IsCandidate
<1>8. ASSUME NEW i \in Rows(R.ops)
      PROVE  IsView(P, i) <=> IsView(R, i)
  BY <1>1, <1>7 DEF IsView
<1>9. ASSUME NEW i \in Rows(R.ops)
      PROVE  IsInPlace(P, i) <=> IsInPlace(R, i)
  <2>1. CASE IsCandidate(R, i)
    <3>1. Operand(R, i) \in kept /\ Result(R, i) \in kept
      BY <1>3, <2>1
    <3>2. P.shape[Operand(R, i)] = R.shape[Operand(R, i)] /\ P.shape[Result(R, i)] = R.shape[Result(R, i)]
      BY <1>1, <3>1
    <3>3. /\ BytesOf(P, Operand(P, i)) = BytesOf(R, Operand(R, i))
          /\ BytesOf(P, Result(P, i)) = BytesOf(R, Result(R, i))
      BY <1>6, <3>2 DEF BytesOf
    <3>4. DiesAt(P, Operand(P, i), i) <=> DiesAt(R, Operand(R, i), i)
      BY <1>1, <1>6 DEF DiesAt
    <3> HIDE DEF kept
    <3> QED
      BY <1>1, <1>6, <1>7, <3>2, <3>3, <3>4 DEF IsInPlace
  <2>2. CASE ~IsCandidate(R, i)
    BY <1>7, <2>2 DEF IsInPlace
  <2> QED
    BY <2>1, <2>2
<1>10. AliasOf(P) = AliasOf(R)
  <2> DEFINE rows == {i \in Rows(R.ops) : IsView(R, i) \/ IsInPlace(R, i)}
             al == [t \in {Result(R, i) : i \in rows} |->
                      Operand(R, CHOOSE i \in rows : Result(R, i) = t)]
  <2>1. rows = {i \in Rows(P.ops) : IsView(P, i) \/ IsInPlace(P, i)}
    BY <1>1, <1>8, <1>9
  <2>2. AliasOf(R) = al
    BY DEF AliasOf
  <2> HIDE DEF rows
  <2>3. AliasOf(P) = [t \in {Result(P, i) : i \in rows} |->
                      Operand(P, CHOOSE i \in rows : Result(P, i) = t)]
    BY <2>1 DEF AliasOf
  <2>4. AliasOf(P) = al
    BY <1>6, <2>3
  <2> QED
    BY <2>2, <2>4
<1> QED
  BY <1>4, <1>5, <1>8, <1>9, <1>10 DEF R, P

LEMMA PrunedPlan ==
  ASSUME NEW graph, IsSource(graph)
  PROVE  LET R == RoutedGraph(graph)
         IN  PlanFits(PrunedGraph(R), RootsOf(R, AliasOf(R)))
<1> DEFINE R == RoutedGraph(graph)
           P == PrunedGraph(R)
           base == RootsOf(R, AliasOf(R))
           kept == DOMAIN R.shape \cap NamesOf(R)
<1>1. P.shape = [t \in kept |-> R.shape[t]] /\ kept \subseteq ArenaTensors(R)
  BY PrunedParts, RoutedNames
<1>2. IsRooted(R, AliasOf(R), base)
  BY RoutedRoots
<1>3. \A t \in DOMAIN R.shape \cup ArenaTensors(R) : BufferBytes(R, t) \in Nat
  <2>1. R.shape = graph.shape
    BY RoutedParts
  <2> QED
    BY <2>1, BuffersHaveASize
<1>4. Alignment \in Nat \ {0}
  BY AlignmentAssumption
<1>5. /\ AliasOf(P) = AliasOf(R) /\ ArenaTensors(P) = ArenaTensors(R)
      /\ \A t \in ArenaTensors(R) : BufferBytes(P, t) = BufferBytes(R, t)
  BY PrunedRows
<1> HIDE DEF R, P, base
<1>6. ASSUME NEW t \in ArenaTensors(R)
      PROVE  base[t] \in ArenaTensors(R) /\ Blocks(P, t) <= Blocks(P, base[t])
  <2>1. base[t] \in ArenaTensors(R) /\ BufferBytes(R, t) <= BufferBytes(R, base[t])
    BY <1>2 DEF IsRooted
  <2> DEFINE a == BufferBytes(P, t)
             b == BufferBytes(P, base[t])
  <2>2. a \in Nat /\ b \in Nat /\ a <= b
    BY <1>3, <1>5, <2>1
  <2> HIDE DEF a, b
  <2>3. a + Alignment - 1 \in Nat /\ b + Alignment - 1 \in Nat
        /\ a + Alignment - 1 <= b + Alignment - 1
    BY <1>4, <2>2
  <2>4. (a + Alignment - 1) \div Alignment <= (b + Alignment - 1) \div Alignment
    BY <1>4, <2>3, BlocksGrow
  <2> QED
    BY <2>1, <2>4 DEF Blocks, a, b
<1>7. ASSUME NEW t \in DOMAIN P.shape, t \notin DOMAIN AliasOf(P)
      PROVE  t \in ArenaTensors(R) /\ base[t] = t
  <2>1. t \in kept /\ t \notin DOMAIN AliasOf(R)
    BY <1>1, <1>5, <1>7
  <2> QED
    BY <1>1, <1>2, <2>1 DEF IsRooted
<1> QED
  BY <1>5, <1>6, <1>7 DEF PlanFits, R, P, base

-----------------------------------------------------------------------------
(* What the rest of the planner may take for granted of the pruned graph.  *)

LEMMA PlannedGraph ==
  ASSUME NEW graph, IsSource(graph)
  PROVE  LET R == RoutedGraph(graph)
             P == PrunedGraph(R)
         IN  InTheArena(P) /\ RowsAlias(P, RootsOf(R, AliasOf(R)))
<1> DEFINE ops == graph.ops
           list == AssignDevices(ops)
           R == RoutedGraph(graph)
           P == PrunedGraph(R)
           base == RootsOf(R, AliasOf(R))
           al == AliasOf(R)
<1>1. /\ P.ops = R.ops /\ R.ops = list
      /\ P.inputs = graph.inputs /\ R.shape = graph.shape
  BY PrunedParts, RoutedParts
<1>2. Stageable(ops)
  BY SourcesAreStageable
<1>3. list \in Seq(LoweredOp) /\ SingleWriters(list) /\ Ordered(list)
  BY <1>2, RoutedRows, RoutedInOrder DEF Stageable, Unstaging
<1>4. graph.inputs \in Seq(Name)
  <2>1. graph.inputs \in Seq(Tensor)
    BY DEF IsSource
  <2> QED
    BY <2>1, TensorsAreNames, SeqMonotonic
<1>5. /\ \A i \in Rows(R.ops) : /\ IsView(P, i) <=> IsView(R, i)
                                /\ IsInPlace(P, i) <=> IsInPlace(R, i)
      /\ AliasOf(P) = al
      /\ ArenaTensors(P) = ArenaTensors(R)
      /\ \A t \in ArenaTensors(R) : BufferBytes(P, t) = BufferBytes(R, t)
  BY PrunedRows
<1>6. \A t \in DOMAIN R.shape \cup ArenaTensors(R) : BufferBytes(R, t) \in Nat
  BY <1>1, BuffersHaveASize
<1>7. /\ NamesOf(R) \cap DOMAIN R.shape \subseteq ArenaTensors(R)
      /\ ArenaTensors(graph) \subseteq DOMAIN graph.shape
  BY RoutedNames DEF IsSource
<1>8. \A i \in Rows(R.ops) : IsCandidate(R, i) =>
        /\ Operand(R, i) \in InputsOf(R.ops, i) \cap (DOMAIN R.shape \cap NamesOf(R))
        /\ Result(R, i) \in ToSet(Row(R.ops, i).outs) \cap (DOMAIN R.shape \cap NamesOf(R))
  BY CandidateNames
<1>9. PlanFits(P, base)
  BY PrunedPlan
<1>10. LoadsMean(list) /\ PlacesMean(ops, list)
  BY <1>2, RowsFollow
<1>11. \A i \in Rows(list) : \/ \E c \in DOMAIN ConstSize : Loads(list, i, c)
                             \/ \E k \in 1 .. Len(ops) : Places(ops, list, i, k)
  BY <1>2, EachRow
<1>12. \A i \in Rows(R.ops) : IsView(R, i) => BytesOf(R, Operand(R, i)) = BytesOf(R, Result(R, i))
  BY RoutedViews
<1>13. \A i : Operand(P, i) = Operand(R, i) /\ Result(P, i) = Result(R, i)
  BY <1>1 DEF Operand, Result
<1>14. ASSUME NEW i \in Rows(list), NEW t \in ToSet(Row(list, i).outs)
       PROVE  t \notin ToSet(graph.inputs)
  <2>1. ASSUME NEW c \in DOMAIN ConstSize, Loads(list, i, c) PROVE t \notin ToSet(graph.inputs)
    <3>1. t = Sram(c)
      BY <1>10, <2>1 DEF LoadsMean
    <3>2. Sram(c) \notin DOMAIN graph.shape
      BY DEF IsSource
    <3>3. ToSet(graph.inputs) \subseteq DOMAIN graph.shape
      BY <1>7 DEF ArenaTensors
    <3> QED
      BY <3>1, <3>2, <3>3
  <2>2. ASSUME NEW k \in 1 .. Len(ops), Places(ops, list, i, k) PROVE t \notin ToSet(graph.inputs)
    <3>1. t \in ToSet(ops[k].outs)
      BY <1>10, <2>2 DEF PlacesMean
    <3>2. k - 1 \in Rows(ops) /\ Row(ops, k - 1) = ops[k]
      BY <1>2 DEF Rows, Row, Stageable
    <3> QED
      BY <3>1, <3>2 DEF IsSource
  <2> QED
    BY <1>11, <2>1, <2>2
<1> HIDE DEF R, P, base, list, ops, al
<1>15. InTheArena(P)
  BY <1>1, <1>3, <1>4, <1>5, <1>6, <1>14 DEF InTheArena
<1>16. \A i \in Rows(P.ops) : Aliases(P, i) =>
         /\ Operand(P, i) \in InputsOf(P.ops, i) \cap ArenaTensors(P)
         /\ Result(P, i) \in ToSet(Row(P.ops, i).outs) \cap ArenaTensors(P)
  BY <1>1, <1>5, <1>7, <1>8, <1>13 DEF Aliases, IsView, IsInPlace
<1>17. AliasesGoBack(R, al)
  <2> SUFFICES ASSUME NEW t \in DOMAIN al
               PROVE  /\ al[t] \in Known(R)
                      /\ \E i \in Rows(R.ops) :
                           t \in ToSet(Row(R.ops, i).outs) /\ al[t] \in InputsOf(R.ops, i)
    BY DEF AliasesGoBack
  <2>1. PICK i \in Rows(R.ops) : Aliases(R, i) /\ t = Result(R, i) /\ al[t] = Operand(R, i)
    BY AliasRows DEF al, Aliases
  <2>2. IsCandidate(R, i)
    BY <2>1 DEF Aliases, IsView, IsInPlace
  <2> QED
    BY <1>8, <2>1, <2>2 DEF Known
<1>18. \A t \in Known(R) : base[t] = IF t \in DOMAIN al THEN base[al[t]] ELSE t
  BY <1>1, <1>3, <1>17, RootsFollow DEF base, al
<1>19. \A i \in Rows(P.ops) : Aliases(P, i) =>
         Result(P, i) \in DOMAIN AliasOf(P) /\ AliasOf(P)[Result(P, i)] = Operand(P, i)
  BY <1>1, <1>3, <1>16, AliasIsOperand
<1>20. \A i \in Rows(P.ops) : Aliases(P, i) => base[Result(P, i)] = base[Operand(P, i)]
  <2>1. ArenaTensors(P) \subseteq Known(R)
    BY <1>5 DEF Known
  <2> QED
    BY <1>5, <1>16, <1>18, <1>19, <2>1
<1>21. \A t \in ArenaTensors(P) : base[t] # t =>
         \E i \in Rows(P.ops) : Aliases(P, i) /\ t = Result(P, i)
  <2> SUFFICES ASSUME NEW t \in ArenaTensors(P), base[t] # t
               PROVE  \E i \in Rows(P.ops) : Aliases(P, i) /\ t = Result(P, i)
    OBVIOUS
  <2>1. t \in DOMAIN AliasOf(P)
    BY <1>5, <1>18 DEF Known
  <2> QED
    BY <2>1, AliasRows DEF Aliases
<1>22. \A i \in Rows(P.ops) : IsView(P, i) => Blocks(P, Operand(P, i)) = Blocks(P, Result(P, i))
  <2> SUFFICES ASSUME NEW i \in Rows(R.ops), IsView(R, i)
               PROVE  Blocks(P, Operand(R, i)) = Blocks(P, Result(R, i))
    BY <1>1, <1>5, <1>13
  <2>1. Operand(R, i) \in DOMAIN R.shape /\ Result(R, i) \in DOMAIN R.shape
    BY DEF IsView, IsCandidate
  <2>2. BufferBytes(R, Operand(R, i)) = BufferBytes(R, Result(R, i))
    BY <1>12, <2>1 DEF BufferBytes
  <2>3. Operand(R, i) \in ArenaTensors(R) /\ Result(R, i) \in ArenaTensors(R)
    BY <1>7, <1>8 DEF IsView
  <2> QED
    BY <1>5, <2>2, <2>3 DEF Blocks
<1>23. RowsAlias(P, base)
  BY <1>9, <1>16, <1>20, <1>21, <1>22 DEF RowsAlias, PlanFits
<1> QED
  BY <1>15, <1>23 DEF R, P, base, al

-----------------------------------------------------------------------------
(* The planner's runs. *)

\* Where a run is: what each pass has made of the graph it began with.
IInv ==
  /\ stage \in {"fused", "routed", "aliased", "pruned", "live", "planned", "emitted"}
  /\ \E graph \in PlannedGraphs :
       LET R == RoutedGraph(graph)
           P == PrunedGraph(R)
       IN  /\ source = graph.ops
           /\ g = IF stage = "fused" THEN graph
                  ELSE IF stage \in {"routed", "aliased"} THEN R ELSE P
           /\ stage \notin {"fused", "routed"} => root = RootsOf(R, AliasOf(R))
           /\ stage \in {"live", "planned", "emitted"} => live = LiveRanges(P, root)
           /\ stage \in {"planned", "emitted"} =>
                table = TensorTable(P, root, Allocate(P, live))
           /\ stage = "emitted" => image = ImageOf(P.ops)

LEMMA InitIInv == LoweringInit => IInv
<1> SUFFICES ASSUME LoweringInit PROVE IInv
  OBVIOUS
<1>1. stage = "fused" /\ g \in PlannedGraphs /\ source = g.ops
  BY DEF LoweringInit, Init
<1> QED
  BY <1>1 DEF IInv

LEMMA NextIInv == IInv /\ [LoweringNext]_<<vars, source, image>> => IInv'
<1> SUFFICES ASSUME IInv, [LoweringNext]_<<vars, source, image>> PROVE IInv'
  OBVIOUS
<1>1. PICK graph \in PlannedGraphs :
        LET R == RoutedGraph(graph)
            P == PrunedGraph(R)
        IN  /\ source = graph.ops
            /\ g = IF stage = "fused" THEN graph
                   ELSE IF stage \in {"routed", "aliased"} THEN R ELSE P
            /\ stage \notin {"fused", "routed"} => root = RootsOf(R, AliasOf(R))
            /\ stage \in {"live", "planned", "emitted"} => live = LiveRanges(P, root)
            /\ stage \in {"planned", "emitted"} =>
                 table = TensorTable(P, root, Allocate(P, live))
            /\ stage = "emitted" => image = ImageOf(P.ops)
  BY DEF IInv
<1> DEFINE R == RoutedGraph(graph)
           P == PrunedGraph(R)
<1>2. IsSource(graph)
  BY PlanAssumption
<1>3. P.ops = R.ops /\ R.ops = AssignDevices(graph.ops)
  BY <1>2, PrunedParts, RoutedParts
<1>4. CASE Route /\ UNCHANGED <<source, image>>
  <2>1. stage = "fused" /\ stage' = "routed" /\ g = graph /\ g' = [g EXCEPT !.ops = AssignDevices(@)]
    BY <1>1, <1>4 DEF Route
  <2>2. g' = R
    BY <2>1 DEF RoutedGraph
  <2> QED
    BY <1>1, <1>4, <2>1, <2>2 DEF IInv
<1>5. CASE Alias /\ UNCHANGED <<source, image>>
  BY <1>1, <1>5 DEF IInv, Alias
<1>6. CASE PruneTable /\ UNCHANGED <<source, image>>
  <2>1. stage = "aliased" /\ g = R
    BY <1>1, <1>6 DEF PruneTable
  <2>2. g' = P
    BY <1>6, <2>1 DEF PruneTable, PrunedGraph, NamesOf
  <2>3. NamesKnown(P)
    BY <1>2, PrunedNamesKnown
  <2>4. IsValid(P)
    <3>1. SingleWriters(R.ops) /\ Ordered(R.ops)
      BY <1>2, <1>3, SourcesAreStageable, RoutedInOrder
    <3> HIDE DEF R, P
    <3> QED
      BY <1>3, <3>1, ValidMeansOrdered
  <2>5. stage' = "pruned" /\ UNCHANGED <<root, live, source, image>>
    BY <1>6, <2>2, <2>3, <2>4 DEF PruneTable
  <2> QED
    BY <1>1, <2>1, <2>2, <2>5 DEF IInv
<1>7. CASE ComputeLiveness /\ UNCHANGED <<source, image>>
  <2>1. stage = "pruned" /\ g = P /\ root = RootsOf(R, AliasOf(R))
    BY <1>1, <1>7 DEF ComputeLiveness
  <2>2. PlanFits(g, root)
    BY <1>2, <2>1, PrunedPlan
  <2>3. \A t \in ArenaTensors(g) : root[t] \in ArenaTensors(g)
    BY <2>2 DEF PlanFits
  <2>4. stage' = "live" /\ live' = LiveRanges(g, root) /\ UNCHANGED <<g, root, source, image>>
    BY <1>7, <2>3 DEF ComputeLiveness
  <2> QED
    BY <1>1, <2>1, <2>4 DEF IInv
<1>8. CASE PlanArena /\ UNCHANGED <<source, image>>
  <2>1. stage = "live" /\ g = P /\ root = RootsOf(R, AliasOf(R)) /\ live = LiveRanges(g, root)
    BY <1>1, <1>8 DEF PlanArena
  <2>2. PlanFits(g, root)
    BY <1>2, <2>1, PrunedPlan
  <2>3. AliasesFit
    BY <2>2 DEF PlanFits, AliasesFit
  <2>4. AllPlaced
    BY <2>1, <2>2 DEF PlanFits, AllPlaced, LiveRanges
  <2>5. /\ stage' = "planned" /\ UNCHANGED <<g, root, live, source, image>>
        /\ table' = TensorTable(g, root, Allocate(g, live))
    BY <1>8, <2>3, <2>4 DEF PlanArena
  <2> QED
    BY <1>1, <2>1, <2>5 DEF IInv
<1>9. CASE Emit
  <2>1. stage = "planned" /\ g = P
    BY <1>1, <1>9 DEF Emit
  <2>2. ~Rejected(g.ops)
    BY <1>2, <1>3, <2>1, SourcesAreStageable, RoutedImage
  <2>3. stage' = "emitted" /\ image' = ImageOf(g.ops)
        /\ UNCHANGED <<g, root, live, table, source>>
    BY <1>9, <2>2 DEF Emit
  <2> QED
    BY <1>1, <2>1, <2>3 DEF IInv
<1>10. CASE UNCHANGED <<vars, source, image>>
  BY <1>1, <1>10 DEF IInv, vars
<1> QED
  BY <1>4, <1>5, <1>6, <1>7, <1>8, <1>9, <1>10 DEF LoweringNext, Plan, Next

LEMMA IInvHolds == LoweringSpec => []IInv
BY InitIInv, NextIInv, PTL DEF LoweringSpec

\* Once routed, the operators are those the rewrite makes of the source.
LEMMA RoutedState ==
  ASSUME IInv, stage # "fused"
  PROVE  Stageable(source) /\ g.ops = AssignDevices(source)
<1>1. PICK graph \in PlannedGraphs :
        LET R == RoutedGraph(graph)
        IN  /\ source = graph.ops
            /\ g = R \/ g = PrunedGraph(R)
  BY DEF IInv
<1>2. IsSource(graph)
  BY PlanAssumption
<1>3. RoutedGraph(graph).ops = AssignDevices(graph.ops)
  BY <1>2, RoutedParts
<1>4. PrunedGraph(RoutedGraph(graph)).ops = RoutedGraph(graph).ops
  BY <1>2, PrunedParts
<1>5. Stageable(graph.ops)
  BY <1>2, SourcesAreStageable
<1> QED
  BY <1>1, <1>3, <1>4, <1>5

\* No pass of the planner makes a graph that a later one refuses (main.py,
\* prune.py, liveness.py, arena.py and the checks of c_generator.py).
THEOREM PlanningSucceeds == LoweringSpec => []PlanningNeverRaises
<1>1. IInv => PlanningNeverRaises
  BY DEF IInv, PlanningNeverRaises
<1> QED
  BY <1>1, IInvHolds, PTL

\* What the generator writes is a well formed image, for any graph: the runtime
\* may take for granted what it takes for granted (c_generator.py, ImageOf).
THEOREM EmittedImageIsWellFormed == LoweringSpec => []ImageIsWellFormed
<1>1. IInv => ImageIsWellFormed
  <2> SUFFICES ASSUME IInv, stage \in {"emitted", "raised"}
               PROVE  stage = "emitted" /\ WellFormed(image)
    BY DEF ImageIsWellFormed
  <2>1. stage = "emitted" /\ stage # "fused"
    BY DEF IInv
  <2>2. image = ImageOf(g.ops)
    BY <2>1 DEF IInv
  <2> QED
    BY <2>1, <2>2, RoutedState, RoutedImage
<1> QED
  BY <1>1, IInvHolds, PTL

\* A large constant has one load row, and every NPU row that reads it waits for
\* that row (device_assignment.py).
THEOREM LoadsAreSharedAndAwaited == LoweringSpec => []FetchedOnceAndAwaited
<1>1. IInv => FetchedOnceAndAwaited
  <2> SUFFICES ASSUME IInv, stage = "emitted" PROVE FetchedOnceAndAwaited
    BY DEF FetchedOnceAndAwaited
  <2>1. Stageable(source) /\ g.ops = AssignDevices(source) /\ image = ImageOf(g.ops)
    BY RoutedState DEF IInv
  <2>2. \A i \in Rows(g.ops) : /\ image.device[i] = Row(g.ops, i).device
                               /\ image.preds[i] = PredsOf(g.ops, i)
    BY <2>1 DEF ImageOf
  <2>3. LoadRows = {i \in Rows(g.ops) : Row(g.ops, i).device = "DMA"}
    BY DEF LoadRows
  <2>4. /\ \A i, j \in LoadRows : Row(g.ops, i).ins = Row(g.ops, j).ins => i = j
        /\ \A i \in Rows(g.ops) : Row(g.ops, i).device = "NPU" =>
             /\ \A t \in InputsOf(g.ops, i) :
                  t \in DOMAIN ConstSize => ConstSize[t] < DmaMinBytes
             /\ \A k \in LoadRows :
                  Sram(Row(g.ops, k).ins[1]) \in InputsOf(g.ops, i)
                    <=> k \in PredsOf(g.ops, i)
    BY <2>1, <2>3, RoutedLoads
  <2> QED
    BY <2>2, <2>4 DEF FetchedOnceAndAwaited
<1> QED
  BY <1>1, IInvHolds, PTL

\* Routing moves data and changes none: its rows other than the loads are the
\* operators of the source in order (device_assignment.py).
THEOREM RoutingChangesNoData == LoweringSpec => []ReadsTheSameData
<1>1. IInv => ReadsTheSameData
  <2> SUFFICES ASSUME IInv, stage # "fused" PROVE ReadsTheSameData
    BY DEF ReadsTheSameData
  <2>1. Stageable(source) /\ g.ops = AssignDevices(source)
    BY RoutedState
  <2>2. ComputeRows = {i \in Rows(g.ops) : Row(g.ops, i).device # "DMA"}
    BY DEF ComputeRows, LoadRows
  <2>3. /\ Cardinality(ComputeRows) = Len(source)
        /\ \A i \in ComputeRows :
             source[Cardinality({j \in ComputeRows : j <= i})] =
               [type |-> Row(g.ops, i).type, outs |-> Row(g.ops, i).outs,
                ins |-> [j \in DOMAIN Row(g.ops, i).ins |-> Unstaged(Row(g.ops, i).ins[j])]]
    BY <2>1, <2>2, RoutedReads
  <2> QED
    BY <2>3 DEF ReadsTheSameData, SourceOf
<1> QED
  BY <1>1, IInvHolds, PTL

\* For any graph the planner is given, the arena it lays out is one in which
\* rows that run by index compute the graph, but for the two cases it gets
\* wrong (alias_analysis.py, liveness.py, arena.py, the tensor table of
\* c_generator.py).
THEOREM PlansAreSound == LoweringSpec => []PlanIsSound
<1>1. IInv => PlanIsSound
  <2> SUFFICES ASSUME IInv, stage = "planned", ~OverwritesTooEarly, ~InputNotReserved
               PROVE  SequentiallySound(MapOf(g, table), Len(g.ops))
    BY DEF PlanIsSound
  <2>1. PICK graph \in PlannedGraphs :
          LET R == RoutedGraph(graph)
              P == PrunedGraph(R)
          IN  /\ g = P /\ root = RootsOf(R, AliasOf(R))
              /\ live = LiveRanges(P, root)
              /\ table = TensorTable(P, root, Allocate(P, live))
    BY DEF IInv
  <2>2. IsSource(graph)
    BY PlanAssumption
  <2>3. InTheArena(g) /\ RowsAlias(g, root)
    BY <2>1, <2>2, PlannedGraph
  <2>4. live = LiveRanges(g, root) /\ table = TensorTable(g, root, Allocate(g, live))
    BY <2>1
  <2>5. InputsReserved(g, live)
    BY DEF InputNotReserved, InputsReserved
  <2>6. OverwritesTheDead(g, root)
    <3> SUFFICES ASSUME NEW i \in Rows(g.ops), NEW t \in ArenaTensors(g),
                        IsInPlace(g, i), root[t] = root[Operand(g, i)], FirstDef(g, t) < i
                 PROVE  t \notin g.outputs /\ LastUse(g, t) <= i
      BY DEF OverwritesTheDead
    <3>1. t \notin g.outputs /\ ~(LastUse(g, t) > i)
      BY DEF OverwritesTooEarly, InPlaceRows, Overwritten, Sharing
    <3>2. LastUse(g, t) \in Int /\ i \in Int
      BY <2>3, Uses DEF Rows
    <3> QED
      BY <3>1, <3>2
  <2>7. Arranged(g, root, live, table)
    BY <2>3, <2>4, <2>5, <2>6, PlannedIsArranged
  <2>8. Describes(MapOf(g, table), g, table)
    BY <2>3, MapDescribes
  <2>9. DOMAIN table = ArenaTensors(g)
    BY <2>4 DEF TensorTable
  <2> QED
    BY <2>7, <2>8, <2>9, ArrangedIsSound
<1> QED
  BY <1>1, IInvHolds, PTL
-----------------------------------------------------------------------------
(* The image and the arena together. *)

\* A row waits for the writer of whatever it reads.
LEMMA WritersAreAwaited ==
  ASSUME NEW ops \in Seq(LoweredOp), SingleWriters(ops), Ordered(ops),
         NEW i \in Rows(ops), NEW j \in Rows(ops),
         NEW t, t \in InputsOf(ops, i), t \in ToSet(Row(ops, j).outs)
  PROVE  j \in PredsOf(ops, i)
<1>1. j \in Int /\ j < i /\ j <= j
  BY DEF Ordered, Rows
<1>2. \A w \in Writers(ops, t) : w = j
  BY DEF Writers, SingleWriters
<1>3. j \in Writers(ops, t)
  BY DEF Writers
<1>4. j \in Producers(ops, t)
  BY <1>1, <1>2, <1>3 DEF Producers
<1>5. j # i
  BY <1>1
<1> QED
  BY <1>4, <1>5 DEF PredsOf

\* A load reads a constant, which is not in the arena.
LEMMA LoadsReadConstants ==
  ASSUME NEW graph, IsSource(graph), NEW i \in Rows(RoutedGraph(graph).ops),
         Row(RoutedGraph(graph).ops, i).device = "DMA"
  PROVE  InputsOf(RoutedGraph(graph).ops, i) \cap ArenaTensors(RoutedGraph(graph)) = {}
<1> DEFINE ops == graph.ops
           list == AssignDevices(ops)
           R == RoutedGraph(graph)
<1>1. R.ops = list /\ R.shape = graph.shape
  BY RoutedParts
<1>2. Stageable(ops)
  BY SourcesAreStageable
<1>3. ASSUME NEW k \in 1 .. Len(ops), Places(ops, list, i, k) PROVE FALSE
  <2>1. Row(list, i).device = "DMA"
    BY <1>1
  <2>2. Row(list, i) = Placed(ops[k])
    BY <1>3 DEF Places
  <2>3. Placed(ops[k]).device \in {"NPU", "CPU"}
    BY DEF Placed, OnNpu, OnCpu
  <2> QED
    BY <2>1, <2>2, <2>3
<1>4. PICK c \in DOMAIN ConstSize : Loads(list, i, c)
  BY <1>1, <1>2, <1>3, EachRow
<1>5. InputsOf(list, i) = {c}
  BY <1>4 DEF Loads, LoadRow, InputsOf, ToSet
<1>6. c \notin DOMAIN graph.shape /\ \A d \in DOMAIN ConstSize : c # Sram(d)
  BY DEF IsSource
<1>7. \A t \in ArenaTensors(R) : t \in DOMAIN R.shape \/ \E d \in DOMAIN ConstSize : t = Sram(d)
  BY RoutedNames
<1> QED
  BY <1>1, <1>5, <1>6, <1>7

\* The known tensors of a pruned graph have names, so none is garbage.
LEMMA KnownAreNames ==
  ASSUME NEW graph, IsSource(graph)
  PROVE  Known(PrunedGraph(RoutedGraph(graph))) \subseteq Name
<1> DEFINE R == RoutedGraph(graph)
           P == PrunedGraph(R)
<1>1. DOMAIN P.shape \subseteq DOMAIN graph.shape
  <2>1. P.shape = [t \in DOMAIN R.shape \cap NamesOf(R) |-> R.shape[t]]
    BY PrunedParts
  <2>2. R.shape = graph.shape
    BY RoutedParts
  <2> HIDE DEF P, R
  <2> QED
    BY <2>1, <2>2
<1>2. DOMAIN graph.shape \subseteq Name
  BY TensorsAreNames DEF IsSource
<1>3. InTheArena(P)
  BY PlannedGraph
<1> HIDE DEF P
<1>4. ToSet(P.inputs) \subseteq Name
  BY <1>3 DEF InTheArena, ToSet
<1>5. ASSUME NEW i \in Rows(P.ops) PROVE ToSet(Row(P.ops, i).outs) \subseteq Name
  <2>1. Row(P.ops, i) \in LoweredOp
    BY <1>3 DEF InTheArena, Rows, Row
  <2>2. Row(P.ops, i).outs \in Seq(Name)
    BY <2>1 DEF LoweredOp
  <2> QED
    BY <2>2 DEF ToSet
<1>6. Known(P) \subseteq Name
  BY <1>1, <1>2, <1>4, <1>5 DEF Known, ArenaTensors
<1> QED
  BY <1>6 DEF P

LEMMA GarbageIsNoName == Garbage \notin Name
<1>1. \A s \in Name : DOMAIN s = 1 .. Len(s) /\ Len(s) \in Nat
  BY DEF Name
<1>2. DOMAIN Garbage = {0}
  BY DEF Garbage
<1>3. \A n \in Nat : 0 \notin 1 .. n
  OBVIOUS
<1> QED
  BY <1>1, <1>2, <1>3

\* What the scheduler takes for granted of tables and arena (MapsAssumption in
\* MemoryDispatch) is true of every image the compiler emits: loads read nothing
\* of the arena and rows wait for those that write their operands
\* (c_generator.py:424-446, device_assignment.py:55-76).
THEOREM TablesFitTheArena ==
  LoweringSpec => [](stage = "emitted" => MapFits(MapOf(g, table), image))
<1>1. IInv => (stage = "emitted" => MapFits(MapOf(g, table), image))
  <2> SUFFICES ASSUME IInv, stage = "emitted" PROVE MapFits(MapOf(g, table), image)
    OBVIOUS
  <2> DEFINE m == MapOf(g, table)
  <2>1. PICK graph \in PlannedGraphs :
          LET R == RoutedGraph(graph)
              P == PrunedGraph(R)
          IN  /\ g = P /\ root = RootsOf(R, AliasOf(R)) /\ image = ImageOf(P.ops)
              /\ table = TensorTable(P, root, Allocate(P, live))
    BY DEF IInv
  <2>2. IsSource(graph)
    BY PlanAssumption
  <2>3. InTheArena(g) /\ RowsAlias(g, root)
    BY <2>1, <2>2, PlannedGraph
  <2>4. DOMAIN table = ArenaTensors(g)
    BY <2>1 DEF TensorTable
  <2>5. Describes(m, g, table) /\ m.meaning \in [Known(g) -> Known(g)]
    BY <2>3, MapDescribes
  <2>6. IsMap(m, Len(g.ops))
    BY <2>3, <2>4, <2>5, DescribedIsMap
  <2> HIDE DEF m
  <2>7. /\ m.blocks = table
        /\ \A i \in Rows(g.ops) : /\ m.reads[i] = InputsOf(g.ops, i) \cap ArenaTensors(g)
                                  /\ m.writes[i] = ToSet(Row(g.ops, i).outs)
    BY <2>5 DEF Describes
  <2>8. /\ image.n = Len(g.ops) /\ 0 .. image.n - 1 = Rows(g.ops)
        /\ \A i \in Rows(g.ops) : /\ image.device[i] = Row(g.ops, i).device
                                  /\ image.preds[i] = PredsOf(g.ops, i)
    BY <2>1 DEF ImageOf, Rows
  <2>9. \A t \in DOMAIN m.blocks : m.meaning[t] # Garbage
    <3>1. ArenaTensors(g) \subseteq Known(g)
      BY DEF Known
    <3>2. Known(g) \subseteq Name
      BY <2>1, <2>2, KnownAreNames
    <3> QED
      BY <2>4, <2>5, <2>7, <3>1, <3>2, GarbageIsNoName
  <2>10. ASSUME NEW i \in Rows(g.ops), image.device[i] = "DMA" PROVE m.reads[i] = {}
    <3>1. g.ops = RoutedGraph(graph).ops
      BY <2>1, <2>2, PrunedParts
    <3>2. ArenaTensors(g) = ArenaTensors(RoutedGraph(graph))
      BY <2>1, <2>2, PrunedRows
    <3> QED
      BY <2>2, <2>7, <2>8, <2>10, <3>1, <3>2, LoadsReadConstants
  <2>11. ASSUME NEW i \in Rows(g.ops), NEW j \in Rows(g.ops), m.reads[i] \cap m.writes[j] # {}
         PROVE  j \in image.preds[i]
    <3>1. PICK t : t \in InputsOf(g.ops, i) /\ t \in ToSet(Row(g.ops, j).outs)
      BY <2>7, <2>11
    <3>2. g.ops \in Seq(LoweredOp) /\ SingleWriters(g.ops) /\ Ordered(g.ops)
      BY <2>3 DEF InTheArena
    <3> QED
      BY <2>8, <3>1, <3>2, WritersAreAwaited
  <2> QED
    BY <2>6, <2>8, <2>9, <2>10, <2>11 DEF MapFits, m
<1> QED
  BY <1>1, IInvHolds, PTL
=============================================================================
