------------------------------- MODULE Kernels -------------------------------
(***************************************************************************)
(* runtime/kernels/cpu_ref/kernels_ref.c: which elements of its operands   *)
(* each element of a kernel's result is computed from.  The arithmetic on  *)
(* those elements is left out: a result is the set of its terms, a term    *)
(* the tuple of the flat indices that are multiplied or combined; a bias   *)
(* or an operand copied alone is a term of one index.                      *)
(*                                                                         *)
(* Broadcasting, batched and permuting kernels walk an odometer of         *)
(* coordinates; most keep the flat offset of each operand up to date by    *)
(* adding and subtracting strides.  One action is one turn of that loop.   *)
(* The others compute every index from their loop counters: one action is  *)
(* the whole call.  A call is a record: the kernel, the shapes ins and out *)
(* and the attributes the kernel reads; shapes are as the generator wrote  *)
(* them in the descriptor table, no shape is empty where a kernel writes   *)
(* stride[rank - 1], and the steps of a slice are nonzero.  The bounds of a *)
(* slice are 64 bits wide in the model file and ints in the kernel.        *)
(***************************************************************************)
EXTENDS Integers, SequencesExt

CONSTANTS
  Calls,
  IntSpan    \* values of a C int: 2^32

ASSUME CallsAssumption ==
  /\ \A c \in Calls : c.out \in Seq(Nat) /\ \A k \in DOMAIN c.ins : c.ins[k] \in Seq(Nat)
  /\ IntSpan \in Nat \ {0}

VARIABLES
  call,
  coords,   \* od.coords
  off,      \* flat offset of each operand: ia and ib, offA and offB, src_off, out_off
  flat,     \* turns made
  dst,      \* terms of each element of the result
  divisor,  \* what each element is divided by, as a pair <<times, over>>
  pc        \* "loop", "done" or "refused"

vars == <<call, coords, off, flat, dst, divisor, pc>>

Garbage == {<< >>}

-----------------------------------------------------------------------------
(* Shapes and strides. *)

Numel(shape) == FoldLeft(LAMBDA n, d : n * d, 1, shape)

Dot(c, s) == FoldLeft(LAMBDA n, d : n + c[d] * s[d], 0, [d \in DOMAIN c |-> d])

\* in_stride, out_stride, kept_stride.
RowMajor(shape) == [d \in DOMAIN shape |-> Numel(SubSeq(shape, d + 1, Len(shape)))]

\* Mutant: dimensions are aligned from the left.
MutantBcastStrides(in, out) ==
  [d \in DOMAIN out |->
     IF d \in DOMAIN in /\ in[d] = out[d] /\ in[d] > 0 THEN RowMajor(in)[d] ELSE 0]

BcastStrides(in, out) ==
  LET shift == Len(out) - Len(in) IN
  [d \in DOMAIN out |->
     IF d > shift /\ in[d - shift] = out[d] /\ out[d] > 0
     THEN RowMajor(in)[d - shift] ELSE 0]

\* A negative axis counts from the end.
Axis(ax, rank) == IF ax < 0 THEN ax + rank ELSE ax

\* perm[d_out] = d_in, numbered from 0; reversed when there is none.
Perm(c) ==
  IF c.perm = << >> THEN [d \in DOMAIN c.ins[1] |-> Len(c.ins[1]) - d] ELSE c.perm

\* The input dimensions a reduction removes, numbered from 1.
Reduced(c) ==
  LET rank == Len(c.ins[1]) IN
  IF c.axes = << >> THEN 1 .. rank
  ELSE {Axis(c.axes[k], rank) + 1 : k \in DOMAIN c.axes} \cap 1 .. rank

\* Where an input dimension that is kept comes in the result.
Place(c, d) == Cardinality(1 .. d \ Reduced(c))

KeptShape(c) ==
  LET in == c.ins[1]
      kept == DOMAIN in \ Reduced(c)
  IN  [k \in 1 .. Cardinality(kept) |-> in[CHOOSE d \in kept : Place(c, d) = k]]

\* proj_stride: from an input dimension into the result.
ProjStrides(c) ==
  [d \in DOMAIN c.ins[1] |->
     IF d \in Reduced(c) THEN 0
     ELSE RowMajor(KeptShape(c))[Place(c, d)]]

\* An int64_t assigned to an int.
ToInt(v) == ((v + IntSpan \div 2) % IntSpan) - IntSpan \div 2

Clamp(v, dim) == LET w == IF v < 0 THEN v + dim ELSE v
                 IN  IF w < 0 THEN 0 ELSE IF w > dim THEN dim ELSE w

\* The dimension that selection k of a slice names, numbered from 1.
Named(c, k) == Axis(IF c.axes = << >> THEN k - 1 ELSE c.axes[k], Len(c.ins[1])) + 1

\* start_c, end_c and step_c of a dimension: the last selection that names it.
Selection(c, d) ==
  LET dim == c.ins[1][d]
      sel == {k \in DOMAIN c.starts : Named(c, k) = d}
  IN  IF sel = {} THEN [start |-> 0, end |-> dim, step |-> 1]
      ELSE LET k == CHOOSE x \in sel : \A y \in sel : y <= x
               s == Clamp(ToInt(c.starts[k]), dim)
               e == Clamp(ToInt(c.ends[k]), dim)
               step == ToInt(c.steps[k])
           IN  [start |-> s, end |-> IF e < s THEN s ELSE e,
                step |-> IF step <= 0 THEN 1 ELSE step]

\* The sum is an int: signed overflow is undefined, and wraps in builds that let it.
Extent(s) == ToInt(s.end - s.start + s.step - 1) \div s.step

-----------------------------------------------------------------------------
(* Kernels that walk an odometer. *)

Broadcasting == {"Add", "Add_Relu"}
Batched == {"MatMul", "MatMul_Add"}
Recomputing == {"Transpose", "Slice"}
Walking == Broadcasting \cup Batched \cup Recomputing \cup {"ReduceMean"}

\* The dimensions in front of a matrix.
BatchShape(shape) == SubSeq(shape, 1, Len(shape) - 2)

\* The shape the odometer counts through.
Walked(c) ==
  IF c.kernel \in Batched THEN BatchShape(c.out)
  ELSE IF c.kernel = "ReduceMean" THEN c.ins[1]
  ELSE c.out

\* The strides of each operand along it.
Strides(c) ==
  CASE c.kernel \in Broadcasting \cup Batched ->
         [k \in 1 .. 2 |-> BcastStrides(c.ins[k], c.out)]
    [] c.kernel = "Transpose" ->
         <<[d \in DOMAIN c.out |-> RowMajor(c.ins[1])[Perm(c)[d] + 1]]>>
    [] c.kernel = "ReduceMean" -> <<ProjStrides(c)>>
    [] c.kernel = "Slice" ->
         <<[d \in DOMAIN c.out |-> Selection(c, d).step * RowMajor(c.ins[1])[d]]>>

\* Where each operand begins.
Origin(c) ==
  IF c.kernel = "Slice"
  THEN <<Dot([d \in DOMAIN c.ins[1] |-> Selection(c, d).start], RowMajor(c.ins[1]))>>
  ELSE [k \in DOMAIN Strides(c) |-> 0]

\* Only a reduction clears its result first.
Init ==
  /\ call \in Calls
  /\ pc = "loop"
  /\ flat = 0
  /\ IF call.kernel \in Walking
     THEN coords = [d \in DOMAIN Walked(call) |-> 0] /\ off = Origin(call)
     ELSE coords = << >> /\ off = << >>
  /\ dst = [f \in 0 .. Numel(call.out) - 1 |->
              IF call.kernel = "ReduceMean" THEN {} ELSE Garbage]
  /\ divisor = [f \in 0 .. Numel(call.out) - 1 |-> <<1, 1>>]

\* The dimension at which the increment stops carrying; 0 if it never does.
CarryStop(shape) ==
  LET stops == {d \in DOMAIN shape : coords[d] + 1 < shape[d]}
  IN  IF stops = {} THEN 0 ELSE CHOOSE d \in stops : \A e \in stops : e <= d

\* Mutant: the offset is not taken back when a coordinate wraps.
MutantAdvance(shape, strides) ==
  LET stop == CarryStop(shape) IN
  /\ coords' = [d \in DOMAIN shape |->
                  IF d > stop THEN 0 ELSE IF d = stop THEN coords[d] + 1 ELSE coords[d]]
  /\ off' = [k \in DOMAIN off |->
               off[k] + (IF stop = 0 THEN 0 ELSE strides[k][stop])]

\* Odometer increment: every dimension behind "stop" gains a stride and loses
\* shape[d] of them, the one it stops at gains one.
Advance(shape, strides) ==
  LET stop == CarryStop(shape) IN
  /\ coords' = [d \in DOMAIN shape |->
                  IF d > stop THEN 0 ELSE IF d = stop THEN coords[d] + 1 ELSE coords[d]]
  /\ off' = [k \in DOMAIN off |->
               off[k] + (IF stop = 0 THEN 0 ELSE strides[k][stop])
                 - Dot([d \in DOMAIN shape |-> IF d > stop THEN shape[d] - 1 ELSE 0], strides[k])]

\* Transpose and Slice work the offset out anew at each turn.
Recompute(shape, strides) ==
  LET stop == CarryStop(shape) IN
  /\ coords' = [d \in DOMAIN shape |->
                  IF d > stop THEN 0 ELSE IF d = stop THEN coords[d] + 1 ELSE coords[d]]
  /\ off' = [k \in DOMAIN off |-> Origin(call)[k] + Dot(coords', strides[k])]

\* matmul_2d, and the bias of MatMul_Add.
Product(c, f) ==
  LET K == Last(c.ins[1])
      N == Last(c.out)
      m == (f % (c.out[Len(c.out) - 1] * N)) \div N
      n == f % N
  IN  {<<off[1] + m * K + k, off[2] + k * N + n>> : k \in 0 .. K - 1}
        \cup (IF c.kernel = "MatMul_Add" THEN {<<n>>} ELSE {})

\* What one turn writes.
Written(c) ==
  CASE c.kernel \in Broadcasting -> [dst EXCEPT ![flat] = {off}]
    [] c.kernel \in Batched ->
         LET size == c.out[Len(c.out) - 1] * Last(c.out) IN
         [f \in DOMAIN dst |-> IF f \div size = flat THEN Product(c, f) ELSE dst[f]]
    [] c.kernel \in Recomputing -> [dst EXCEPT ![flat] = {off}]
    [] c.kernel = "ReduceMean" -> [dst EXCEPT ![off[1]] = @ \cup {<<flat>>}]

\* Descriptor and kernel disagree about an extent: nothing is written.
Mismatch(c) ==
  c.kernel = "Slice" /\ \E d \in DOMAIN c.out : Extent(Selection(c, d)) # c.out[d]

Turn ==
  /\ pc = "loop" /\ call.kernel \in Walking /\ ~Mismatch(call)
  /\ flat < Numel(Walked(call))
  /\ dst' = Written(call)
  /\ IF call.kernel \in Recomputing THEN Recompute(Walked(call), Strides(call))
     ELSE Advance(Walked(call), Strides(call))
  /\ flat' = flat + 1
  /\ UNCHANGED <<call, divisor, pc>>

\* ReduceMean multiplies each sum by total_in / out_total.
Return ==
  /\ pc = "loop" /\ call.kernel \in Walking /\ ~Mismatch(call)
  /\ flat >= Numel(Walked(call))
  /\ pc' = "done"
  /\ divisor' = IF call.kernel = "ReduceMean"
                THEN [f \in DOMAIN dst |->
                        <<Numel(call.ins[1]) \div Numel(KeptShape(call)), 1>>]
                ELSE divisor
  /\ UNCHANGED <<call, coords, off, flat, dst>>

Refuse ==
  /\ pc = "loop" /\ Mismatch(call)
  /\ pc' = "refused"
  /\ UNCHANGED <<call, coords, off, flat, dst, divisor>>

-----------------------------------------------------------------------------
(* Kernels that compute their indices from nested loops. *)

\* The loop counters that write element f of a tensor.
At(shape, f) == [d \in DOMAIN shape |-> (f \div RowMajor(shape)[d]) % shape[d]]

\* ((x1 * shape[2] + x2) * shape[3] + x3) * ...
Index(shape, x) ==
  FoldLeft(LAMBDA n, d : n * shape[d] + x[d], 0, [d \in DOMAIN shape |-> d])

Gemm(c, f) ==
  LET A == c.ins[1]
      M == IF c.transA THEN A[2] ELSE A[1]
      K == IF c.transA THEN A[1] ELSE A[2]
      N == IF c.transB THEN c.ins[2][1] ELSE c.ins[2][2]
      m == f \div N
      n == f % N
  IN  {<<IF c.transA THEN k * M + m ELSE m * K + k,
         IF c.transB THEN n * K + k ELSE k * N + n>> : k \in 0 .. K - 1}
        \cup (IF Len(c.ins) > 2 THEN {<<f % Numel(c.ins[3])>>} ELSE {})

\* The first input channel that filter oc reads: its group's.
FirstChannel(c, oc) == (oc \div (c.ins[2][1] \div c.group)) * c.ins[2][2]

\* Positions a window covers along one dimension, padding left out.
Covered(i, stride, tap, dilation, pad) == i * stride + tap * dilation - pad

Conv(c, f) ==
  LET X == c.ins[1]
      W == c.ins[2]
      at == At(c.out, f)
      Ih(t) == Covered(at[3], c.strides[1], t[2], c.dilations[1], c.pads[1])
      Iw(t) == Covered(at[4], c.strides[2], t[3], c.dilations[2], c.pads[2])
      Taps == {t \in (0 .. W[2] - 1) \X (0 .. W[3] - 1) \X (0 .. W[4] - 1) :
                 Ih(t) \in 0 .. X[3] - 1 /\ Iw(t) \in 0 .. X[4] - 1}
  IN  {<<Index(X, <<at[1], FirstChannel(c, at[2]) + t[1], Ih(t), Iw(t)>>),
         Index(W, <<at[2], t[1], t[2], t[3]>>)>> : t \in Taps}
        \cup (IF Len(c.ins) > 2 THEN {<<at[2]>>} ELSE {})

\* MaxPool and AveragePool; a stride of 0 stands for the window.
Pool(c, f) ==
  LET X == c.ins[1]
      at == At(c.out, f)
      Stride(d) == IF c.strides[d] = 0 THEN c.window[d] ELSE c.strides[d]
      Ih(t) == Covered(at[3], Stride(1), t[1], 1, c.pads[1])
      Iw(t) == Covered(at[4], Stride(2), t[2], 1, c.pads[2])
      Taps == {t \in (0 .. c.window[1] - 1) \X (0 .. c.window[2] - 1) :
                 Ih(t) \in 0 .. X[3] - 1 /\ Iw(t) \in 0 .. X[4] - 1}
  IN  {<<Index(X, <<at[1], at[2], Ih(t), Iw(t)>>)>> : t \in Taps}

GlobalAveragePool(c, f) ==
  LET X == c.ins[1] IN {<<f * X[3] * X[4] + i>> : i \in 0 .. X[3] * X[4] - 1}

\* The elements an element is normalised with.
Softmax(c, f) ==
  LET shape == c.ins[1]
      axis == Axis(c.axis, Len(shape)) + 1
      dim == shape[axis]
      inner == RowMajor(shape)[axis]
      o == f \div (dim * inner)
      i == f % inner
  IN  {<<o * dim * inner + i + j * inner>> : j \in 0 .. dim - 1}

\* The chunk of an operand that covers element f, and the place in it.
Concat(c, f) ==
  LET axis == Axis(c.axis, Len(c.out)) + 1
      inner == RowMajor(c.out)[axis]
      o == f \div (c.out[axis] * inner)
      AxisOff(i) == FoldLeft(LAMBDA n, k : n + c.ins[k][axis], 0, [k \in 1 .. i - 1 |-> k])
      Base(i) == (o * c.out[axis] + AxisOff(i)) * inner
      Chunk(i) == c.ins[i][axis] * inner
  IN  {<<i, o * Chunk(i) + f - Base(i)>> :
         i \in {k \in DOMAIN c.ins : f \in Base(k) .. Base(k) + Chunk(k) - 1}}

Terms(c, f) ==
  CASE c.kernel = "Gemm"              -> Gemm(c, f)
    [] c.kernel = "Conv"              -> Conv(c, f)
    [] c.kernel \in {"MaxPool", "AveragePool"} -> Pool(c, f)
    [] c.kernel = "GlobalAveragePool" -> GlobalAveragePool(c, f)
    [] c.kernel = "Softmax"           -> Softmax(c, f)
    [] c.kernel = "Concat"            -> Concat(c, f)

\* Mutant: windows are taken to be square.
MutantDivisor(c) ==
  CASE c.kernel = "AveragePool"       -> <<1, c.window[1] * c.window[1]>>
    [] c.kernel = "GlobalAveragePool" -> <<1, c.ins[1][3] * c.ins[1][3]>>
    [] OTHER                          -> <<1, 1>>

Divisor(c) ==
  CASE c.kernel = "AveragePool"       -> <<1, c.window[1] * c.window[2]>>
    [] c.kernel = "GlobalAveragePool" -> <<1, c.ins[1][3] * c.ins[1][4]>>
    [] OTHER                          -> <<1, 1>>

Run ==
  /\ pc = "loop" /\ call.kernel \notin Walking
  /\ dst' = [f \in DOMAIN dst |-> Terms(call, f)]
  /\ divisor' = [f \in DOMAIN dst |-> Divisor(call)]
  /\ pc' = "done"
  /\ UNCHANGED <<call, coords, off, flat>>

Next == Turn \/ Return \/ Refuse \/ Run

Spec == Init /\ [][Next]_vars
=============================================================================
