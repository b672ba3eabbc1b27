------------------------------ MODULE MCKernels ------------------------------
(***************************************************************************)
(* Small calls of every kernel, with result shapes as shape inference      *)
(* computes them.                                                          *)
(***************************************************************************)
EXTENDS CostModel

\* Shapes of the given ranks with dimensions from D.
Shapes(ranks, D) == UNION {[1 .. r -> D] : r \in ranks}

\* Dimension d of a shape of rank r, seen from a result of rank n.
DimAt(shape, n, d) == IF d > n - Len(shape) THEN shape[d - n + Len(shape)] ELSE 1

Compatible(a, b) ==
  LET n == Max({Len(a), Len(b)}) IN
  \A d \in 1 .. n : DimAt(a, n, d) = DimAt(b, n, d) \/ 1 \in {DimAt(a, n, d), DimAt(b, n, d)}

Joined(a, b) ==
  LET n == Max({Len(a), Len(b)}) IN [d \in 1 .. n |-> Max({DimAt(a, n, d), DimAt(b, n, d)})]

Pairs(S) == {p \in S \X S : Compatible(p[1], p[2])}

BinaryCalls ==
  {[kernel |-> k, ins |-> p, out |-> Joined(p[1], p[2])] :
     k \in {"Add", "Add_Relu"}, p \in Pairs(Shapes(0 .. 3, {1, 2, 3}))}

MatMulCalls ==
  {[kernel |-> "MatMul", ins |-> <<p[1] \o <<m, k>>, p[2] \o <<k, n>>>>,
    out |-> Joined(p[1], p[2]) \o <<m, n>>] :
     p \in Pairs(Shapes(0 .. 2, {1, 2})), m \in {1, 2}, k \in {1, 3}, n \in {1, 2}}

MatMulAddCalls ==
  {[kernel |-> "MatMul_Add", ins |-> Append(c.ins, <<Last(c.out)>>), out |-> c.out] :
     c \in MatMulCalls}

GemmCalls ==
  {[kernel |-> "Gemm", transA |-> tA, transB |-> tB, out |-> <<m, n>>,
    ins |-> <<IF tA THEN <<k, m>> ELSE <<m, k>>, IF tB THEN <<n, k>> ELSE <<k, n>>>> \o C] :
     tA \in BOOLEAN, tB \in BOOLEAN, m \in {1, 2}, k \in {1, 3}, n \in {1, 2, 3}, C \in {<< >>}}

BiasedGemmCalls ==
  UNION {{[c EXCEPT !.ins = Append(@, C)] : C \in {<<1>>, <<c.out[2]>>, <<1, c.out[2]>>,
                                                   <<c.out[1], 1>>, c.out}} : c \in GemmCalls}

Perms(n) == {p \in [1 .. n -> 0 .. n - 1] : \A i, j \in 1 .. n : p[i] = p[j] => i = j}

Permuted(s, p) == [d \in DOMAIN s |-> s[p[d] + 1]]

TransposeCalls ==
  {[kernel |-> "Transpose", ins |-> <<s>>, perm |-> << >>, out |-> Reverse(s)] :
     s \in Shapes(1 .. 3, {1, 2, 3})}
  \cup UNION {{[kernel |-> "Transpose", ins |-> <<s>>, perm |-> p, out |-> Permuted(s, p)] :
                 p \in Perms(Len(s))} : s \in Shapes(1 .. 3, {1, 2, 3})}

\* Axes of a reduction; the result keeps or drops them.
AxesOf(n) == {<< >>} \cup {<<a>> : a \in -n .. n - 1} \cup {<<a, b>> : a \in {0}, b \in {n - 1, -1}}

Shrunk(c) ==
  IF c.keepdims THEN [d \in DOMAIN c.ins[1] |-> IF d \in Reduced(c) THEN 1 ELSE c.ins[1][d]]
  ELSE KeptShape(c)

ReduceCalls ==
  {[c EXCEPT !.out = Shrunk(c)] : c \in
     UNION {[kernel : {"ReduceMean"}, ins : {<<s>>}, axes : AxesOf(Len(s)), keepdims : BOOLEAN,
             out : {<< >>}] : s \in Shapes(1 .. 3, {1, 2, 3})}}

\* Slices of the first or the last dimension; an empty one is no tensor.
Sliced(c) == [d \in DOMAIN c.ins[1] |-> Cardinality(Positions(c, d))]

SliceCalls ==
  {c \in {[d EXCEPT !.out = Sliced(d)] : d \in
     [kernel : {"Slice"}, ins : {<<s>> : s \in {<<1>>, <<3>>, <<2, 3>>, <<3, 2>>}},
      starts : {<<s>> : s \in -4 .. 4 \cup {-15}}, ends : {<<e>> : e \in -4 .. 4 \cup {31}},
      steps : {<<1>>, <<2>>, <<-1>>, <<-2>>, <<7>>}, axes : {<< >>, <<-1>>}, out : {<< >>}]} :
   \A d \in DOMAIN c.out : c.out[d] > 0}

\* Windows: output size as (in + pads - dilated window) / stride + 1.
OutDim(in, w, stride, dilation, pad) == (in + 2 * pad - dilation * (w - 1) - 1) \div stride + 1

ConvCalls ==
  {c \in
   {[kernel |-> "Conv", group |-> g, strides |-> <<s, 1>>, dilations |-> <<dl, 1>>, pads |-> <<p, 1 - p>>,
     ins |-> <<<<2, 2 * g, 3, 2>>, <<m * g, 2, k, 2>>>> \o (IF p = 1 THEN <<<<m * g>>>> ELSE << >>),
     out |-> <<2, m * g, OutDim(3, k, s, dl, p), OutDim(2, 2, 1, 1, 1 - p)>>] :
      g \in {1, 2}, s \in {1, 2}, dl \in {1, 2}, p \in {0, 1}, m \in {1, 2}, k \in {1, 2}} :
     \A d \in 1 .. 4 : c.out[d] > 0}

\* With q elements of padding behind.
PoolCalls ==
  {[kernel |-> t, window |-> <<k, 2>>, strides |-> <<s, 1>>, pads |-> <<p, 0>>,
    ins |-> <<<<2, 2, 3, 3>>>>, out |-> <<2, 2, OutDim(3, k, s, 1, p), OutDim(3 + q, 2, 1, 1, 0)>>] :
     t \in {"MaxPool", "AveragePool"}, k \in {2, 3}, s \in {1, 2}, p \in {0, 1}, q \in {0, 1}}

GlobalCalls ==
  {[kernel |-> "GlobalAveragePool", ins |-> <<s>>, out |-> <<s[1], s[2], 1, 1>>] :
     s \in [1 .. 4 -> {1, 2}]}

SoftmaxCalls ==
  UNION {{[kernel |-> "Softmax", ins |-> <<s>>, out |-> s, axis |-> a] : a \in -Len(s) .. Len(s) - 1} :
           s \in Shapes(1 .. 3, {1, 2, 3})}

ConcatCalls ==
  {[kernel |-> "Concat", axis |-> a, out |-> [s EXCEPT ![Axis(a, 2) + 1] = @ + n + 1],
    ins |-> <<s, [s EXCEPT ![Axis(a, 2) + 1] = n], [s EXCEPT ![Axis(a, 2) + 1] = 1]>>] :
     s \in [1 .. 2 -> {1, 2}], a \in -2 .. 1, n \in {1, 2}}

MCCalls ==
  BinaryCalls \cup MatMulCalls \cup MatMulAddCalls \cup GemmCalls \cup BiasedGemmCalls
    \cup TransposeCalls \cup ReduceCalls \cup SliceCalls \cup ConvCalls \cup PoolCalls
    \cup GlobalCalls \cup SoftmaxCalls \cup ConcatCalls
=============================================================================
