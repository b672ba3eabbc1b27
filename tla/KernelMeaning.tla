---------------------------- MODULE KernelMeaning ----------------------------
(***************************************************************************)
(* What the operators mean, stated in coordinates and without strides, and *)
(* the properties that compare the kernels with it.                        *)
(***************************************************************************)
EXTENDS Kernels

Coords(shape) ==
  IF shape = << >> THEN {<< >>}
  ELSE {x \in [DOMAIN shape -> 0 .. Max({shape[d] : d \in DOMAIN shape}) - 1] :
          \A d \in DOMAIN shape : x[d] < shape[d]}

Flat(shape, x) == Dot(x, RowMajor(shape))

\* The terms that copy one element of the first operand.
Copied(c, P(_)) == {<<Flat(c.ins[1], z)>> : z \in {y \in Coords(c.ins[1]) : P(y)}}

\* The terms of an optional third operand.
Bias(c, i) == IF Len(c.ins) > 2 THEN {<<i>>} ELSE {}

\* Multidirectional broadcasting: align at the right, stretch what is 1.
Stretched(shape, x) ==
  Flat(shape, [d \in DOMAIN shape |->
                 IF shape[d] = 1 THEN 0 ELSE x[d + Len(x) - Len(shape)]])

\* The inner dimension runs over k: last of the first operand, last but one of
\* the second.
BatchedProduct(c, x) ==
  {<<Stretched(c.ins[1], [x EXCEPT ![Len(x)] = k]),
     Stretched(c.ins[2], [x EXCEPT ![Len(x) - 1] = k])>> : k \in 0 .. Last(c.ins[1]) - 1}
    \cup Bias(c, Last(x))

GeneralProduct(c, x) ==
  {<<Flat(c.ins[1], IF c.transA THEN <<k, x[1]>> ELSE <<x[1], k>>),
     Flat(c.ins[2], IF c.transB THEN <<x[2], k>> ELSE <<k, x[2]>>)>> :
     k \in 0 .. c.ins[1][IF c.transA THEN 1 ELSE 2] - 1}

\* The positions that a slice selects, upwards or downwards.
Positions(c, d) ==
  LET dim == c.ins[1][d]
      named == {k \in DOMAIN c.starts : Named(c, k) = d}
  IN  IF named = {} THEN 0 .. dim - 1
      ELSE LET k == CHOOSE x \in named : TRUE
               start == Axis(c.starts[k], dim)
               end == Axis(c.ends[k], dim)
               s == IF start < 0 THEN 0
                    ELSE IF c.steps[k] < 0 /\ start >= dim THEN dim - 1 ELSE start
           IN  IF c.steps[k] > 0
               THEN {p \in s .. dim - 1 : p < end /\ (p - s) % c.steps[k] = 0}
               ELSE {p \in 0 .. s : p > end /\ (s - p) % -c.steps[k] = 0}

Descends(c, d) == \E k \in DOMAIN c.starts : Named(c, k) = d /\ c.steps[k] < 0

\* The positions that come before p.
Before(c, d, p) ==
  {q \in Positions(c, d) : IF Descends(c, d) THEN q > p ELSE q < p}

-----------------------------------------------------------------------------
(* The calls there are.  What an operator asks of its operands the model   *)
(* checker of ONNX enforces, and the shape of a result is what its shape   *)
(* inference makes of them.  No extent is 0: ingestion turns one into -1   *)
(* (onnx_ingest.py:82-85), which validate refuses (ir.py:174-180).         *)

Positive == Nat \ {0}

\* One shape broadcasts to another: aligned at the right, extents are equal or 1.
Stretches(in, out) ==
  /\ Len(in) <= Len(out)
  /\ \A d \in DOMAIN in : in[d] \in {1, out[d + Len(out) - Len(in)]}

\* Matrices, with or without a batch (kernels_ref.c:293-294).
Multiplies(A, B, C) ==
  /\ \A s \in {A, B, C} : Len(s) >= 2
  /\ Stretches(BatchShape(A), BatchShape(C)) /\ Stretches(BatchShape(B), BatchShape(C))
  /\ A[Len(A) - 1] = C[Len(C) - 1] /\ Last(B) = Last(C) /\ Last(A) = B[Len(B) - 1]

IsGemm(c) ==
  LET A == c.ins[1]
      B == c.ins[2]
  IN  /\ c.transA \in BOOLEAN /\ c.transB \in BOOLEAN
      /\ Len(A) = 2 /\ Len(B) = 2 /\ Len(c.out) = 2
      /\ c.out[1] = A[IF c.transA THEN 2 ELSE 1] /\ c.out[2] = B[IF c.transB THEN 1 ELSE 2]
      /\ A[IF c.transA THEN 1 ELSE 2] = B[IF c.transB THEN 2 ELSE 1]
      /\ Len(c.ins) > 2 => Stretches(c.ins[3], c.out)

IsConv(c) ==
  LET X == c.ins[1]
      W == c.ins[2]
  IN  /\ Len(X) = 4 /\ Len(W) = 4 /\ Len(c.out) = 4
      /\ c.group \in Positive
      /\ c.strides \in [1 .. 2 -> Positive] /\ c.dilations \in [1 .. 2 -> Positive]
      /\ c.pads \in [1 .. 2 -> Nat]
      /\ X[1] = c.out[1] /\ X[2] = c.group * W[2] /\ W[1] = c.out[2] /\ W[1] % c.group = 0

IsPool(c) ==
  /\ Len(c.ins[1]) = 4 /\ Len(c.out) = 4
  /\ c.out[1] = c.ins[1][1] /\ c.out[2] = c.ins[1][2]
  /\ c.window \in [1 .. 2 -> Positive] /\ c.strides \in [1 .. 2 -> Positive]
  /\ c.pads \in [1 .. 2 -> Nat]

IsTranspose(c) ==
  LET dims == DOMAIN c.ins[1] IN
  /\ Perm(c) \in [dims -> {d - 1 : d \in dims}]
  /\ \A d, e \in dims : Perm(c)[d] = Perm(c)[e] => d = e
  /\ \A e \in dims : \E d \in dims : Perm(c)[d] = e - 1
  /\ c.out = [d \in dims |-> c.ins[1][Perm(c)[d] + 1]]

IsReduction(c) ==
  /\ c.axes \in Seq(Int) /\ c.keepdims \in BOOLEAN
  /\ c.out = IF c.keepdims
             THEN [d \in DOMAIN c.ins[1] |-> IF d \in Reduced(c) THEN 1 ELSE c.ins[1][d]]
             ELSE KeptShape(c)

\* Dimensions and their extents are ints, each is selected from at most once.
IsSlice(c) ==
  LET dims == DOMAIN c.ins[1] IN
  /\ \A bounds \in {c.starts, c.ends, c.steps} : bounds \in Seq(Int)
  /\ Len(c.ends) = Len(c.starts) /\ Len(c.steps) = Len(c.starts)
  /\ c.axes # << >> => c.axes \in Seq(Int) /\ Len(c.axes) = Len(c.starts)
  /\ \A k \in DOMAIN c.starts : c.steps[k] # 0 /\ Named(c, k) \in dims
  /\ \A k, l \in DOMAIN c.starts : Named(c, k) = Named(c, l) => k = l
  /\ \A d \in dims : c.ins[1][d] < IntSpan \div 2
  /\ c.out = [d \in dims |-> Cardinality(Positions(c, d))]

\* An axis of a shape, counted from either end.
HasAxis(ax, shape) == ax \in -Len(shape) .. Len(shape) - 1

IsConcat(c) ==
  LET axis == Axis(c.axis, Len(c.out)) + 1 IN
  /\ HasAxis(c.axis, c.out)
  /\ \A k \in DOMAIN c.ins :
       Len(c.ins[k]) = Len(c.out) /\ \A d \in DOMAIN c.out \ {axis} : c.ins[k][d] = c.out[d]
  /\ c.out[axis] = FoldLeft(LAMBDA n, k : n + c.ins[k][axis], 0, [k \in DOMAIN c.ins |-> k])

IsCall(c) ==
  /\ c.out \in Seq(Positive) /\ c.ins \in Seq(Seq(Positive)) /\ c.ins # << >>
  /\ \/ /\ c.kernel \in Broadcasting /\ Len(c.ins) = 2
        /\ Stretches(c.ins[1], c.out) /\ Stretches(c.ins[2], c.out)
     \/ /\ c.kernel = "MatMul" /\ Len(c.ins) = 2
        /\ Multiplies(c.ins[1], c.ins[2], c.out)
     \/ /\ c.kernel = "MatMul_Add" /\ Len(c.ins) = 3
        /\ Multiplies(c.ins[1], c.ins[2], c.out)
     \/ c.kernel = "Gemm" /\ Len(c.ins) \in {2, 3} /\ IsGemm(c)
     \/ c.kernel = "Conv" /\ Len(c.ins) \in {2, 3} /\ IsConv(c)
     \/ c.kernel \in {"MaxPool", "AveragePool"} /\ IsPool(c)
     \/ /\ c.kernel = "GlobalAveragePool" /\ Len(c.ins[1]) = 4
        /\ c.out = <<c.ins[1][1], c.ins[1][2], 1, 1>>
     \/ c.kernel = "Transpose" /\ IsTranspose(c)
     \/ c.kernel = "ReduceMean" /\ IsReduction(c)
     \/ c.kernel = "Slice" /\ IsSlice(c)
     \/ c.kernel = "Softmax" /\ HasAxis(c.axis, c.ins[1]) /\ c.out = c.ins[1]
     \/ c.kernel = "Concat" /\ IsConcat(c)

ASSUME ShapesAssumption == \A c \in Calls : IsCall(c)

-----------------------------------------------------------------------------

\* Position z of the input lies under tap t of window i.
Under(z, i, t, stride, dilation, pad) == z + pad = i * stride + t * dilation

\* Filter y[1] correlated with the channels of its group.
Correlation(c, x) ==
  LET perGroup == c.out[2] \div c.group
      channels == c.ins[2][2]
  IN  {<<Flat(c.ins[1], p[1]), Flat(c.ins[2], p[2])>> : p \in
         {q \in Coords(c.ins[1]) \X Coords(c.ins[2]) :
            /\ q[1][1] = x[1] /\ q[2][1] = x[2]
            /\ q[1][2] % channels = q[2][2]
            /\ q[1][2] \div channels = x[2] \div perGroup
            /\ \A d \in {3, 4} : Under(q[1][d], x[d], q[2][d], c.strides[d - 2],
                                       c.dilations[d - 2], c.pads[d - 2])}}

Meaning(c, x) ==
  LET rank == Len(x) IN
  CASE c.kernel \in Broadcasting -> {<<Stretched(c.ins[1], x), Stretched(c.ins[2], x)>>}
    [] c.kernel \in Batched      -> BatchedProduct(c, x)
    [] c.kernel = "Gemm"         ->
         GeneralProduct(c, x)
           \cup (IF Len(c.ins) > 2 THEN {<<Stretched(c.ins[3], x)>>} ELSE {})
    [] c.kernel = "Conv"         -> Correlation(c, x) \cup Bias(c, x[2])
    [] c.kernel = "Transpose"    ->
         Copied(c, LAMBDA z : \A d \in 1 .. rank : z[Perm(c)[d] + 1] = x[d])
    [] c.kernel = "Slice"        ->
         Copied(c, LAMBDA z : \A d \in 1 .. rank :
                     /\ z[d] \in Positions(c, d)
                     /\ Cardinality(Before(c, d, z[d])) = x[d])
    [] c.kernel = "ReduceMean"   ->
         Copied(c, LAMBDA z : \A d \in DOMAIN z \ Reduced(c) :
                     z[d] = x[IF c.keepdims THEN d ELSE Place(c, d)])
    [] c.kernel \in {"MaxPool", "AveragePool"} ->
         Copied(c, LAMBDA z :
                     /\ z[1] = x[1] /\ z[2] = x[2]
                     /\ \A d \in {3, 4} : \E t \in 0 .. c.window[d - 2] - 1 :
                          Under(z[d], x[d], t, c.strides[d - 2], 1, c.pads[d - 2]))
    [] c.kernel = "GlobalAveragePool" -> Copied(c, LAMBDA z : z[1] = x[1] /\ z[2] = x[2])
    [] c.kernel = "Softmax"      ->
         Copied(c, LAMBDA z : \A d \in 1 .. rank : d = Axis(c.axis, rank) + 1 \/ z[d] = x[d])
    [] c.kernel = "Concat"       ->
         LET axis == Axis(c.axis, rank) + 1
             Ahead(i) == FoldLeft(LAMBDA n, k : n + c.ins[k][axis], 0, [k \in 1 .. i - 1 |-> k])
         IN  {<<i, Flat(c.ins[i], [x EXCEPT ![axis] = @ - Ahead(i)])>> :
                i \in {j \in DOMAIN c.ins : x[axis] - Ahead(j) \in 0 .. c.ins[j][axis] - 1}}

-----------------------------------------------------------------------------
(* Properties. *)

\* A bound or step of a slice is no int, or no int once an extent is added: the
\* largest int64, "to the end", becomes -1, the last but one end, and the extents
\* disagree (kernels_ref.c:969-971).
TooWide(c) ==
  /\ c.kernel = "Slice"
  /\ \E k \in DOMAIN c.starts :
       \E v \in {c.starts[k], c.ends[k], c.steps[k] + c.ins[1][Named(c, k)]} : ToInt(v) # v

\* The extents may agree all the same: not if the start is the wrong one, or the
\* slice goes backwards from a start below what its end has become.
WrapsAround(c) ==
  /\ c.kernel = "Slice"
  /\ \E k \in DOMAIN c.starts :
       \/ ToInt(c.starts[k]) # c.starts[k]
       \/ c.steps[k] < 0 /\ ToInt(c.ends[k]) # c.ends[k]

\* A column of biases is indexed modulo its length (kernels_ref.c:435).
ColumnBias(c) ==
  c.kernel = "Gemm" /\ Len(c.ins) > 2 /\ c.ins[3] = <<c.out[1], 1>> /\ c.out[1] > 1 /\ c.out[2] > 1

\* Every element of a result is computed from exactly the operand elements the
\* operator prescribes, whatever the ranks, the broadcast and unit dimensions,
\* permutations, negative axes, groups, dilations and padding
\* (kernels_ref.c:12-16, README.md:26-29), but for ColumnBias and WrapsAround; a
\* slice is refused only if it goes backwards (kernels_ref.c:976) or for TooWide
\* bounds.
ElementsExact ==
  /\ pc = "done" /\ ~ColumnBias(call) /\ ~WrapsAround(call) =>
       \A x \in Coords(call.out) : dst[Flat(call.out, x)] = Meaning(call, x)
  /\ pc = "refused" => TooWide(call) \/ \E k \in DOMAIN call.steps : call.steps[k] < 0

\* The offsets that a walking kernel keeps by adding and subtracting strides
\* are at every turn those of its coordinates, and inside the operand or result
\* they index (kernels_ref.c:54-61).
OffsetsFollowCoords ==
  pc = "loop" /\ call.kernel \in Walking /\ ~Mismatch(call) /\ flat < Numel(Walked(call)) =>
    \A k \in DOMAIN off :
      /\ off[k] = Origin(call)[k] + Dot(coords, Strides(call)[k])
      /\ off[k] \in 0 .. Numel(IF call.kernel = "ReduceMean" THEN call.out ELSE call.ins[k]) - 1

\* An elementwise kernel whose first operand has the result's shape reads from
\* it, at every turn, the element that the turn overwrites: the result may take
\* the operand's place (alias_analysis.py:100-108).
InPlaceReadsFirst ==
  /\ pc = "loop" /\ call.kernel \in Broadcasting /\ call.ins[1] = call.out
  /\ flat < Numel(Walked(call))
  => off[1] = flat

\* A mean of more than one element is scaled up instead of down
\* (kernels_ref.c:902-933).
ScalesUp(c) == c.kernel = "ReduceMean" /\ Numel(c.ins[1]) # Numel(c.out)

\* A window that overlaps the padding, before or behind, counts it
\* (kernels_ref.c:612).
CountsPadding(c) ==
  /\ c.kernel = "AveragePool"
  /\ \E d \in {1, 2} : \/ c.pads[d] > 0
                      \/ (c.out[d + 2] - 1) * c.strides[d] + c.window[d] > c.ins[1][d + 2]

\* A mean is divided by the number of elements it is the mean of, but for the
\* calls that scale up or count padding (kernels_ref.c:855-856, 580-583).
MeansExact ==
  pc = "done" /\ call.kernel \in {"ReduceMean", "AveragePool", "GlobalAveragePool"}
    /\ ~ScalesUp(call) /\ ~CountsPadding(call) =>
      \A x \in Coords(call.out) :
        divisor[Flat(call.out, x)] = <<1, Cardinality(Meaning(call, x))>>
=============================================================================
