---------------------------- MODULE KernelProofs -----------------------------
(***************************************************************************)
(* What the reference kernels compute, for every call that the model       *)
(* checker and the shape inference of ONNX let through: any rank, any      *)
(* extents, any attributes, any width of an int.                           *)
(*                                                                         *)
(*   Strides are the number of elements behind a dimension, so a flat      *)
(*   index is a number with a digit for each dimension, and a turn of the  *)
(*   odometer adds 1 to it; the offsets into the operands follow, and stay *)
(*   inside what they index (OdometerInv, OffsetsFollow, InPlaceSafe).     *)
(*                                                                         *)
(*   The offsets of a turn are those of the elements that the operator     *)
(*   prescribes, kernel by kernel (the lemmas ...Means), so what has been  *)
(*   written after each turn is what the operator means (DataInv, Exact),  *)
(*   and a mean is divided by the number of elements it is the mean of     *)
(*   (DivisorInv, MeanDivides).                                            *)
(*                                                                         *)
(*   An element is computed from no more elements than its share of what   *)
(*   cost_model.py charges (Light, CostInv), so the charge covers the work *)
(*   (CostCovers).                                                         *)
(***************************************************************************)
EXTENDS CostModel, DataInduction

-----------------------------------------------------------------------------
(* Quotients, remainders and products. *)

\* The quotient and the remainder are the only ones there are.
LEMMA DivUnique ==
  ASSUME NEW q \in Int, NEW r \in Int, NEW b \in Int, 0 <= r, r < b
  PROVE  (q * b + r) \div b = q /\ (q * b + r) % b = r
OBVIOUS

\* Division with remainder.
LEMMA DivMod ==
  ASSUME NEW a \in Int, NEW b \in Int, b > 0
  PROVE  a \div b \in Int /\ a % b \in 0 .. b - 1 /\ a = (a \div b) * b + (a % b)
<1>1. a \div b \in Int /\ a % b \in Int
  OBVIOUS
<1>2. 0 <= a % b /\ a % b < b
  OBVIOUS
<1>3. a = (a \div b) * b + (a % b)
  OBVIOUS
<1> QED
  BY <1>1, <1>2, <1>3

\* Multiplying keeps an order.
LEMMA TimesMonotone ==
  ASSUME NEW a \in Int, NEW b \in Int, NEW n \in Nat, a <= b
  PROVE  a * n \in Int /\ b * n \in Int /\ a * n <= b * n
OBVIOUS

\* Products of natural numbers.
LEMMA TimesNat ==
  ASSUME NEW a \in Nat, NEW b \in Nat
  PROVE  a * b \in Nat /\ (a > 0 /\ b > 0 => a * b > 0)
OBVIOUS

\* The elements of a sequence are of its set.
LEMMA ElementOf ==
  ASSUME NEW T, NEW s \in Seq(T), NEW i \in 1 .. Len(s)
  PROVE  s[i] \in T
OBVIOUS

\* The solver takes this as a fact more readily than it finds it.
LEMMA TimesAssociates ==
  ASSUME NEW a \in Int, NEW b \in Int, NEW c \in Int
  PROVE  (a * b) * c = a * (b * c)
OBVIOUS

-----------------------------------------------------------------------------
(* The folds of the kernels. *)

\* The largest number of a finite set is there (the folds take it first).
LEMMA MaxFacts ==
  ASSUME NEW S, IsFiniteSet(S), S # {}, S \subseteq Int
  PROVE  Max(S) \in S /\ \A y \in S : y <= Max(S)
<1> DEFINE f == [x \in S |-> x]
<1>1. \A x \in S : f[x] \in Int
  OBVIOUS
<1> HIDE DEF f
<1>2. \E x \in S : \A y \in S : f[y] <= f[x]
  BY <1>1, GreatestElement
<1>3. \A x \in S : f[x] = x
  BY DEF f
<1>4. \E x \in S : \A y \in S : x >= y
  BY <1>2, <1>3
<1> QED
  BY <1>4 DEF Max

\* The number of elements as a product of prefixes.
Factors(s, h) ==
  /\ h \in [0 .. Len(s) -> Nat]
  /\ h[0] = 1 /\ \A k \in 1 .. Len(s) : h[k] = h[k - 1] * s[k]

\* kernels_ref.c:38-42: the loop that counts the elements has such a history.
LEMMA NumelUnfolds ==
  ASSUME NEW s \in Seq(Nat)
  PROVE  \E h : Factors(s, h) /\ Numel(s) = h[Len(s)]
<1> DEFINE n == Len(s)
           S == 1 .. n
           c == [U \in SUBSET S |-> Max(U)]
           st == [p \in S \X Nat |-> p[2] * s[p[1]]]
           k == CHOOSE g : g = [U \in SUBSET S |->
                                  IF U = {} THEN 1 ELSE g[U \ {Max(U)}] * s[Max(U)]]
<1>1. n \in Nat /\ DOMAIN s = S /\ IsFiniteSet(S) /\ S \subseteq Int
  BY FS_Interval
<1>2. \A U \in SUBSET S : IsFiniteSet(U) /\ U \subseteq Int
  BY <1>1, FS_Subset
<1>3. \A U \in SUBSET S : U # {} => Max(U) \in U /\ \A y \in U : y <= Max(U)
  BY <1>2, MaxFacts
<1>4. \A i \in S : s[i] \in Nat
  BY <1>1
<1>5. st \in [S \X Nat -> Nat] /\ \A U \in SUBSET S : U # {} => c[U] \in U
  <2>1. ASSUME NEW p \in S \X Nat PROVE p[2] * s[p[1]] \in Nat
    BY <1>4, TimesNat
  <2> QED
    BY <1>3, <2>1
<1> HIDE DEF c, st
<1>6. PICK h \in [SUBSET S -> Nat] : Folds(S, c, st, 1, h)
  <2>1. 1 \in Nat
    OBVIOUS
  <2> QED
    BY <1>1, <1>5, <2>1, FoldExists
<1>7. h = [U \in SUBSET S |-> IF U = {} THEN 1 ELSE h[U \ {Max(U)}] * s[Max(U)]]
  <2>1. ASSUME NEW U \in SUBSET S, U # {}
        PROVE  st[<<c[U], h[U \ {c[U]}]>>] = h[U \ {Max(U)}] * s[Max(U)]
    <3>1. c[U] = Max(U) /\ Max(U) \in S /\ h[U \ {Max(U)}] \in Nat
      BY <1>3, <2>1 DEF c
    <3> QED
      BY <3>1 DEF st
  <2>2. h = [U \in SUBSET S |-> IF U = {} THEN 1 ELSE st[<<c[U], h[U \ {c[U]}]>>]]
    BY <1>6 DEF Folds
  <2> QED
    BY <2>1, <2>2
<1>8. k = [U \in SUBSET S |-> IF U = {} THEN 1 ELSE k[U \ {Max(U)}] * s[Max(U)]]
  BY <1>7
<1>9. Numel(s) = k[S]
  BY <1>1 DEF Numel, FoldLeft, MapThenFoldSet
<1> HIDE DEF k
<1> DEFINE l == [i \in 0 .. n |-> k[1 .. i]]
<1>10. l[0] = 1
  <2>1. 1 .. 0 = {} /\ {} \in SUBSET S /\ 0 \in 0 .. n
    BY <1>1
  <2>2. k[{}] = 1
    BY <1>8, <2>1
  <2> QED
    BY <2>1, <2>2
<1>11. ASSUME NEW i \in 1 .. n PROVE l[i] = l[i - 1] * s[i]
  <2>1. 1 .. i \in SUBSET S /\ i \in 1 .. i /\ (1 .. i) \ {i} = 1 .. (i - 1)
    BY <1>1
  <2>2. Max(1 .. i) = i
    <3>1. Max(1 .. i) \in 1 .. i /\ i <= Max(1 .. i)
      BY <1>3, <2>1
    <3> QED
      BY <3>1
  <2>3. k[1 .. i] = k[(1 .. i) \ {Max(1 .. i)}] * s[Max(1 .. i)]
    BY <1>8, <2>1
  <2>4. i \in 0 .. n /\ i - 1 \in 0 .. n
    BY <1>1
  <2> QED
    BY <2>1, <2>2, <2>3, <2>4
<1>12. \A i \in 0 .. n : l[i] \in Nat
  <2> DEFINE G == {i \in Nat : i <= n => l[i] \in Nat}
  <2>1. 0 \in G
    BY <1>10
  <2>2. ASSUME NEW i \in Nat, i \in G PROVE i + 1 \in G
    <3> SUFFICES ASSUME i + 1 <= n PROVE l[i + 1] \in Nat
      OBVIOUS
    <3>1. l[i] \in Nat /\ i + 1 \in 1 .. n /\ (i + 1) - 1 = i
      BY <1>1, <2>2
    <3> HIDE DEF l
    <3>2. l[i + 1] = l[i] * s[i + 1] /\ s[i + 1] \in Nat
      BY <1>4, <1>11, <3>1
    <3> QED
      BY <3>1, <3>2, TimesNat
  <2> HIDE DEF G
  <2>3. Nat \subseteq G
    BY <2>1, <2>2, NatInductive
  <2> HIDE DEF l
  <2> QED
    BY <1>1, <2>3 DEF G
<1>13. Numel(s) = l[n]
  BY <1>1, <1>9
<1>14. l \in [0 .. n -> Nat]
  BY <1>12
<1> HIDE DEF l
<1> QED
  BY <1>10, <1>11, <1>13, <1>14 DEF Factors

\* Its products are natural numbers, the first of them 1.
LEMMA FactorsFacts ==
  ASSUME NEW s \in Seq(Nat), NEW h, Factors(s, h)
  PROVE  h[0] = 1 /\ \A i \in 0 .. Len(s) : h[i] \in Nat
<1>1. h \in [0 .. Len(s) -> Nat] /\ h[0] = 1
  BY DEF Factors
<1> QED
  BY <1>1

\* There is one such product.
Continues(s, a, t, m) ==
  /\ a + m <= Len(s) /\ m <= Len(t)
  /\ \A i \in 1 .. m : t[i] = s[a + i]

\* Where one shape continues as another, so do their products.
LEMMA FactorsAgree ==
  ASSUME NEW s \in Seq(Nat), NEW t \in Seq(Nat), NEW h, NEW g, Factors(s, h), Factors(t, g),
         NEW m \in Nat, NEW a \in Nat, Continues(s, a, t, m)
  PROVE  h[a + m] = h[a] * g[m]
<1> DEFINE G == {i \in Nat : i <= m => h[a + i] = h[a] * g[i]}
<1>1. /\ Len(s) \in Nat /\ Len(t) \in Nat
      /\ \A i \in 0 .. Len(s) : h[i] \in Nat
      /\ \A i \in 0 .. Len(t) : g[i] \in Nat
      /\ g[0] = 1
  BY FactorsFacts
<1>5. a + m <= Len(s) /\ m <= Len(t)
  BY DEF Continues
<1>2. 0 \in G
  <2>0. a \in 0 .. Len(s)
    BY <1>1, <1>5
  <2>1. a + 0 = a /\ h[a] \in Nat /\ h[a] * 1 = h[a]
    BY <1>1, <2>0
  <2> QED
    BY <1>1, <2>1
<1>3. ASSUME NEW i \in Nat, i \in G PROVE i + 1 \in G
  <2> SUFFICES ASSUME i + 1 <= m PROVE h[a + (i + 1)] = h[a] * g[i + 1]
    OBVIOUS
  <2>1. /\ i + 1 \in 1 .. m /\ i + 1 \in 1 .. Len(t) /\ a + (i + 1) \in 1 .. Len(s)
        /\ (a + (i + 1)) - 1 = a + i /\ (i + 1) - 1 = i
        /\ a \in 0 .. Len(s) /\ a + i \in 0 .. Len(s) /\ i \in 0 .. Len(t)
    BY <1>1, <1>5
  <2>2. h[a + (i + 1)] = h[a + i] * s[a + (i + 1)]
    BY <2>1 DEF Factors
  <2>3. g[i + 1] = g[i] * t[i + 1]
    BY <2>1 DEF Factors
  <2>4. h[a + i] = h[a] * g[i]
    BY <1>3, <2>1
  <2> HIDE DEF G
  <2>5. t[i + 1] = s[a + (i + 1)] /\ t[i + 1] \in Nat
    <3>1. t[i + 1] = s[a + (i + 1)]
      BY <2>1 DEF Continues
    <3>2. t[i + 1] \in Nat
      BY <2>1, ElementOf
    <3> QED
      BY <3>1, <3>2
  <2>6. h[a] \in Nat /\ g[i] \in Nat
    BY <1>1, <2>1
  <2>7. (h[a] * g[i]) * t[i + 1] = h[a] * (g[i] * t[i + 1])
    <3>1. h[a] \in Int /\ g[i] \in Int /\ t[i + 1] \in Int
      BY <2>5, <2>6
    <3> QED
      BY <3>1, TimesAssociates
  <2> QED
    BY <2>2, <2>3, <2>4, <2>5, <2>7
<1> HIDE DEF G
<1>4. m \in G
  BY <1>2, <1>3, NatInductive
<1> QED
  BY <1>4 DEF G

\* A product splits anywhere.
LEMMA NumelSplits ==
  ASSUME NEW s \in Seq(Nat), NEW a \in 0 .. Len(s)
  PROVE  /\ Numel(s) \in Nat
         /\ Numel(SubSeq(s, 1, a)) \in Nat /\ Numel(SubSeq(s, a + 1, Len(s))) \in Nat
         /\ Numel(s) = Numel(SubSeq(s, 1, a)) * Numel(SubSeq(s, a + 1, Len(s)))
<1> DEFINE n == Len(s)
           l == SubSeq(s, 1, a)
           r == SubSeq(s, a + 1, n)
<1>1. /\ n \in Nat /\ a \in Nat /\ a <= n
      /\ l \in Seq(Nat) /\ Len(l) = a /\ \A i \in 1 .. a : l[i] = s[i]
      /\ r \in Seq(Nat) /\ Len(r) = n - a /\ \A i \in 1 .. n - a : r[i] = s[a + i]
  OBVIOUS
<1>0. n = Len(s)
  OBVIOUS
<1> HIDE DEF n, l, r
<1>2. PICK h : Factors(s, h) /\ Numel(s) = h[n]
  BY <1>0, NumelUnfolds
<1>3. PICK hl : Factors(l, hl) /\ Numel(l) = hl[a]
  BY <1>1, NumelUnfolds
<1>4. PICK hr : Factors(r, hr) /\ Numel(r) = hr[n - a]
  BY <1>1, NumelUnfolds
<1>5. h[0 + a] = h[0] * hl[a]
  <2>1. /\ Factors(s, h) /\ Factors(l, hl) /\ 0 \in Nat /\ a \in Nat
        /\ Continues(s, 0, l, a)
    BY <1>0, <1>1, <1>2, <1>3 DEF Continues
  <2> QED
    BY <1>1, <2>1, FactorsAgree
<1>6. h[a + (n - a)] = h[a] * hr[n - a]
  <2>1. /\ Factors(s, h) /\ Factors(r, hr) /\ n - a \in Nat
        /\ Continues(s, a, r, n - a)
    BY <1>0, <1>1, <1>2, <1>4 DEF Continues
  <2> QED
    BY <1>1, <2>1, FactorsAgree
<1>7. h[0] = 1 /\ h[a] \in Nat /\ h[n] \in Nat
  <2>1. 0 \in 0 .. Len(s) /\ a \in 0 .. Len(s) /\ n \in 0 .. Len(s)
    BY <1>0, <1>1
  <2> QED
    BY <1>2, <2>1, FactorsFacts
<1>8. hl[a] \in Nat /\ hr[n - a] \in Nat
  <2>1. a \in 0 .. Len(l) /\ n - a \in 0 .. Len(r)
    BY <1>1
  <2> QED
    BY <1>1, <1>3, <1>4, <2>1, FactorsFacts
<1>9. 0 + a = a /\ a + (n - a) = n /\ 1 * hl[a] = hl[a]
  BY <1>1, <1>8
<1>10. h[n] = hl[a] * hr[n - a]
  BY <1>5, <1>6, <1>7, <1>9
<1> QED
  BY <1>2, <1>3, <1>4, <1>7, <1>8, <1>10 DEF n, l, r

\* The elements of a scalar and of a vector.
LEMMA NumelShort ==
  /\ Numel(<< >>) = 1
  /\ \A s \in Seq(Nat) : Len(s) = 1 => Numel(s) = s[1]
<1>1. Numel(<< >>) = 1
  <2>1. << >> \in Seq(Nat) /\ Len(<< >>) = 0
    OBVIOUS
  <2>2. PICK h : Factors(<< >>, h) /\ Numel(<< >>) = h[Len(<< >>)]
    BY <2>1, NumelUnfolds
  <2> QED
    BY <2>1, <2>2 DEF Factors
<1>2. ASSUME NEW s \in Seq(Nat), Len(s) = 1 PROVE Numel(s) = s[1]
  <2>0. Len(s) = 1 /\ 1 \in 1 .. Len(s)
    BY <1>2
  <2>1. Len(s) = 1 /\ s[1] \in Nat
    BY <2>0, ElementOf
  <2>2. PICK h : Factors(s, h) /\ Numel(s) = h[Len(s)]
    BY <2>1, NumelUnfolds
  <2>3. h[0] = 1 /\ h[1] = h[0] * s[1]
    <3>1. 1 \in 1 .. Len(s) /\ 1 - 1 = 0
      BY <2>1
    <3> QED
      BY <2>2, <3>1 DEF Factors
  <2> QED
    BY <2>1, <2>2, <2>3
<1> QED
  BY <1>1, <1>2

\* Weight(s)[d] elements lie behind one step along dimension d.
Weight(s) == [d \in 0 .. Len(s) |-> Numel(SubSeq(s, d + 1, Len(s)))]

\* What there is to know of it.
Weighs(s, w) ==
  /\ w \in [0 .. Len(s) -> Nat]
  /\ w[Len(s)] = 1 /\ \A d \in 1 .. Len(s) : w[d - 1] = s[d] * w[d]

\* kernels_ref.c:734-744: a row-major stride is the number of elements behind it.
LEMMA WeightFacts ==
  ASSUME NEW s \in Seq(Nat)
  PROVE  /\ Weighs(s, Weight(s)) /\ Weight(s)[0] = Numel(s)
         /\ \A d \in 1 .. Len(s) : RowMajor(s)[d] = Weight(s)[d] /\ d \in DOMAIN RowMajor(s)
<1> DEFINE n == Len(s)
<1>0. n \in Nat /\ DOMAIN s = 1 .. n
  OBVIOUS
<1>1. \A d \in 0 .. n : SubSeq(s, d + 1, n) \in Seq(Nat)
  OBVIOUS
<1>2. ASSUME NEW t \in Seq(Nat) PROVE Numel(t) \in Nat
  <2>1. 0 \in 0 .. Len(t)
    OBVIOUS
  <2> QED
    BY <2>1, NumelSplits
<1>3. Weight(s) \in [0 .. n -> Nat]
  BY <1>1, <1>2 DEF Weight
<1>4. Weight(s)[n] = 1
  <2>1. SubSeq(s, n + 1, n) = << >> /\ n \in 0 .. n
    OBVIOUS
  <2> QED
    BY <2>1, NumelShort DEF Weight
<1>5. ASSUME NEW d \in 1 .. n PROVE Weight(s)[d - 1] = s[d] * Weight(s)[d]
  <2> DEFINE t == SubSeq(s, d, n)
  <2>1. t \in Seq(Nat) /\ Len(t) = n - d + 1 /\ 1 \in 0 .. Len(t)
    OBVIOUS
  <2>2. /\ SubSeq(t, 1, 1) \in Seq(Nat) /\ Len(SubSeq(t, 1, 1)) = 1
        /\ SubSeq(t, 1, 1)[1] = s[d] /\ s[d] \in Nat
    OBVIOUS
  <2>3. SubSeq(t, 1 + 1, Len(t)) = SubSeq(s, d + 1, n)
    OBVIOUS
  <2> HIDE DEF t
  <2>4. Numel(t) = Numel(SubSeq(t, 1, 1)) * Numel(SubSeq(t, 1 + 1, Len(t)))
    BY <2>1, NumelSplits
  <2>5. Numel(t) = s[d] * Numel(SubSeq(s, d + 1, n))
    BY <2>2, <2>3, <2>4, NumelShort
  <2>6. d - 1 \in 0 .. n /\ d \in 0 .. n /\ (d - 1) + 1 = d
    OBVIOUS
  <2>7. Weight(s)[d - 1] = Numel(SubSeq(s, (d - 1) + 1, n)) /\ Weight(s)[d] = Numel(SubSeq(s, d + 1, n))
    BY <2>6 DEF Weight
  <2> QED
    BY <2>5, <2>6, <2>7 DEF t
<1>6. Weight(s)[0] = Numel(s)
  <2>1. SubSeq(s, 0 + 1, n) = s /\ 0 \in 0 .. n
    OBVIOUS
  <2> QED
    BY <2>1 DEF Weight
<1>7. \A d \in 1 .. n : RowMajor(s)[d] = Weight(s)[d] /\ d \in DOMAIN RowMajor(s)
  BY <1>0 DEF RowMajor, Weight
<1> QED
  BY <1>3, <1>4, <1>5, <1>6, <1>7 DEF Weighs

\* The function that a fold adding up one number after another is defined by:
\* there is one, and its last value is the sum.
Accumulates(S, f, k) ==
  k = [U \in SUBSET S |-> IF U = {} THEN 0 ELSE k[U \ {Max(U)}] + f[Max(U)]]

\* A fold that adds does so in any order: it is the sum.
LEMMA AddingUp ==
  ASSUME NEW S, IsFiniteSet(S), S \subseteq Int, NEW f, \A x \in S : f[x] \in Int
  PROVE  /\ \E h : Accumulates(S, f, h)
         /\ \A k : Accumulates(S, f, k) => k[S] = SumFunctionOnSet(f, S)
<1> DEFINE ch == [U \in SUBSET S |-> Max(U)]
           st == [p \in S \X Int |-> p[2] + f[p[1]]]
<1>1. \A U \in SUBSET S : IsFiniteSet(U) /\ U \subseteq Int
  BY FS_Subset
<1>2. \A U \in SUBSET S : U # {} => Max(U) \in U
  BY <1>1, MaxFacts
<1>3. st \in [S \X Int -> Int] /\ \A U \in SUBSET S : U # {} => ch[U] \in U
  <2>1. ASSUME NEW p \in S \X Int PROVE p[2] + f[p[1]] \in Int
    <3>1. p[1] \in S /\ p[2] \in Int
      OBVIOUS
    <3> DEFINE a == p[2]
               b == f[p[1]]
    <3>2. a \in Int /\ b \in Int
      BY <3>1
    <3> HIDE DEF a, b
    <3>3. a + b \in Int
      BY <3>2
    <3> QED
      BY <3>3 DEF a, b
  <2> QED
    BY <1>2, <2>1
<1> HIDE DEF ch, st
<1>4. PICK h \in [SUBSET S -> Int] : Folds(S, ch, st, 0, h)
  <2>1. 0 \in Int
    OBVIOUS
  <2> QED
    BY <1>3, <2>1, FoldExists
<1>5. Accumulates(S, f, h)
  <2>1. ASSUME NEW U \in SUBSET S, U # {}
        PROVE  st[<<ch[U], h[U \ {ch[U]}]>>] = h[U \ {Max(U)}] + f[Max(U)]
    <3>1. ch[U] = Max(U) /\ Max(U) \in S /\ h[U \ {Max(U)}] \in Int
      BY <1>2, <2>1 DEF ch
    <3> QED
      BY <3>1 DEF st
  <2>2. h = [U \in SUBSET S |-> IF U = {} THEN 0 ELSE st[<<ch[U], h[U \ {ch[U]}]>>]]
    BY <1>4 DEF Folds
  <2> QED
    BY <2>1, <2>2 DEF Accumulates
<1>6. ASSUME NEW k, Accumulates(S, f, k)
      PROVE  k[S] = SumFunctionOnSet(f, S)
  <2> DEFINE G == {U \in SUBSET S : k[U] = SumFunctionOnSet(f, U)}
  <2>1. ASSUME NEW U \in SUBSET S, \A x \in U : U \ {x} \in G PROVE U \in G
    <3>1. IsFiniteSet(U) /\ \A x \in U : f[x] \in Int
      BY <1>1
    <3>2. SumFunctionOnSet(f, {}) = 0
          /\ \A x \in U : SumFunctionOnSet(f, U) = f[x] + SumFunctionOnSet(f, U \ {x})
      BY <3>1, SumFacts
    <3>3. CASE U = {}
      BY <1>6, <3>2, <3>3 DEF Accumulates
    <3>4. CASE U # {}
      <4> DEFINE x == Max(U)
      <4>1. x \in U /\ x \in S
        BY <1>2, <3>4
      <4>2. k[U] = k[U \ {x}] + f[x]
        BY <1>6, <3>4 DEF Accumulates
      <4> HIDE DEF x
      <4>3. k[U \ {x}] = SumFunctionOnSet(f, U \ {x})
        BY <2>1, <4>1
      <4>4. SumFunctionOnSet(f, U \ {x}) \in Int /\ f[x] \in Int
        <5>1. IsFiniteSet(U \ {x}) /\ \A y \in U \ {x} : f[y] \in Int
          BY <1>1, <4>1
        <5> QED
          BY <4>1, <5>1, SumFacts
      <4> DEFINE y == SumFunctionOnSet(f, U \ {x})
      <4>5. SumFunctionOnSet(f, U) = f[x] + y
        BY <3>2, <4>1
      <4>6. k[U] = y + f[x]
        BY <4>2, <4>3
      <4>7. y \in Int /\ f[x] \in Int
        BY <4>4
      <4> HIDE DEF y
      <4>8. k[U] = SumFunctionOnSet(f, U)
        BY <4>5, <4>6, <4>7
      <4> QED
        BY <4>8 DEF G
    <3> QED
      BY <3>3, <3>4
  <2> HIDE DEF G
  <2>2. \A U \in SUBSET S : U \in G
    BY <2>1, FiniteInductive
  <2>3. S \in G
    BY <2>2
  <2> QED
    BY <2>3 DEF G
<1> QED
  BY <1>5, <1>6

\* A dot product is a sum over the dimensions.
Products(c, s) == [d \in DOMAIN c |-> c[d] * s[d]]

\* An offset is the sum of coordinates times strides.
LEMMA DotIsSum ==
  ASSUME NEW c, NEW s, IsFiniteSet(DOMAIN c), DOMAIN c \subseteq Int,
         \A d \in DOMAIN c : c[d] \in Int /\ s[d] \in Int
  PROVE  Dot(c, s) = SumFunctionOnSet(Products(c, s), DOMAIN c)
<1> DEFINE S == DOMAIN c
           f == Products(c, s)
           id == [d \in S |-> d]
           k == CHOOSE g : g = [U \in SUBSET S |->
                  IF U = {} THEN 0
                  ELSE g[U \ {Max(U)}] + c[id[Max(U)]] * s[id[Max(U)]]]
<1>1. \A d \in S : f[d] \in Int /\ f[d] = c[id[d]] * s[id[d]]
  BY DEF Products
<1>2. Dot(c, s) = k[S]
  BY DEF Dot, FoldLeft, MapThenFoldSet
<1>3. \A U \in SUBSET S : U # {} => Max(U) \in S
  BY FS_Subset, MaxFacts
<1> HIDE DEF f, id
<1>4. PICK h : Accumulates(S, f, h)
  BY <1>1, AddingUp
<1>5. h = [U \in SUBSET S |-> IF U = {} THEN 0
                              ELSE h[U \ {Max(U)}] + c[id[Max(U)]] * s[id[Max(U)]]]
  BY <1>1, <1>3, <1>4 DEF Accumulates
<1>6. k = [U \in SUBSET S |-> IF U = {} THEN 0
                              ELSE k[U \ {Max(U)}] + c[id[Max(U)]] * s[id[Max(U)]]]
  BY <1>5
<1> HIDE DEF k
<1>7. Accumulates(S, f, k)
  BY <1>1, <1>3, <1>6 DEF Accumulates
<1>8. k[S] = SumFunctionOnSet(f, S)
  BY <1>1, <1>7, AddingUp
<1> QED
  BY <1>2, <1>8 DEF f

-----------------------------------------------------------------------------
(* Sums. *)

\* The sum of two functions' sums.
LEMMA SumAdds ==
  ASSUME NEW S, IsFiniteSet(S), NEW f, NEW g, NEW h,
         \A x \in S : f[x] \in Int /\ g[x] \in Int /\ h[x] = f[x] + g[x]
  PROVE  SumFunctionOnSet(h, S) = SumFunctionOnSet(f, S) + SumFunctionOnSet(g, S)
<1> DEFINE G == {T \in SUBSET S : SumFunctionOnSet(h, T) = SumFunctionOnSet(f, T) + SumFunctionOnSet(g, T)}
<1>1. ASSUME NEW T \in SUBSET S, \A x \in T : T \ {x} \in G PROVE T \in G
  <2>1. IsFiniteSet(T) /\ \A x \in T : f[x] \in Int /\ g[x] \in Int /\ h[x] \in Int
    BY FS_Subset
  <2>2. CASE T = {}
    <3>1. SumFunctionOnSet(f, {}) = 0 /\ SumFunctionOnSet(g, {}) = 0 /\ SumFunctionOnSet(h, {}) = 0
      BY <2>1, SumFacts
    <3> QED
      BY <2>2, <3>1
  <2>3. ASSUME NEW x \in T PROVE T \in G
    <3> DEFINE a == SumFunctionOnSet(f, T \ {x})
               b == SumFunctionOnSet(g, T \ {x})
               c == SumFunctionOnSet(h, T \ {x})
    <3>1. /\ SumFunctionOnSet(f, T) = f[x] + a
          /\ SumFunctionOnSet(g, T) = g[x] + b
          /\ SumFunctionOnSet(h, T) = h[x] + c
      BY <2>1, SumFacts
    <3>2. IsFiniteSet(T \ {x}) /\ \A y \in T \ {x} : f[y] \in Int /\ g[y] \in Int /\ h[y] \in Int
      BY <2>1, FS_Subset
    <3>3. a \in Int /\ b \in Int
      BY <3>2, SumFacts
    <3>4. c = a + b
      BY <1>1
    <3>5. f[x] \in Int /\ g[x] \in Int /\ h[x] = f[x] + g[x]
      OBVIOUS
    <3> HIDE DEF a, b, c, G
    <3>6. SumFunctionOnSet(h, T) = SumFunctionOnSet(f, T) + SumFunctionOnSet(g, T)
      BY <3>1, <3>3, <3>4, <3>5
    <3> QED
      BY <3>6 DEF G
  <2> QED
    BY <2>2, <2>3
<1> HIDE DEF G
<1>2. \A T \in SUBSET S : T \in G
  BY <1>1, FiniteInductive
<1> QED
  BY <1>2 DEF G

\* Terms that are 0 can be left out.
LEMMA SumSupport ==
  ASSUME NEW S, IsFiniteSet(S), NEW f, NEW T \in SUBSET S,
         \A x \in S : f[x] \in Int, \A x \in S \ T : f[x] = 0
  PROVE  SumFunctionOnSet(f, S) = SumFunctionOnSet(f, T)
<1> DEFINE G == {U \in SUBSET S : SumFunctionOnSet(f, U) = SumFunctionOnSet(f, U \cap T)}
<1>1. ASSUME NEW U \in SUBSET S, \A x \in U : U \ {x} \in G PROVE U \in G
  <2>1. IsFiniteSet(U) /\ \A x \in U : f[x] \in Int
    BY FS_Subset
  <2>2. CASE U \cap T = U
    BY <2>2
  <2>3. CASE U \cap T # U
    <3>1. PICK x \in U : x \notin T
      BY <2>3
    <3>2. SumFunctionOnSet(f, U) = f[x] + SumFunctionOnSet(f, U \ {x}) /\ f[x] = 0
      BY <2>1, <3>1, SumFacts
    <3>3. SumFunctionOnSet(f, U \ {x}) = SumFunctionOnSet(f, (U \ {x}) \cap T)
      BY <1>1, <3>1
    <3>4. (U \ {x}) \cap T = U \cap T
      BY <3>1
    <3>5. SumFunctionOnSet(f, U \ {x}) \in Int
      <4>1. IsFiniteSet(U \ {x}) /\ \A y \in U \ {x} : f[y] \in Int
        BY <2>1, FS_Subset
      <4> QED
        BY <4>1, SumFacts
    <3>6. SumFunctionOnSet(f, U) = SumFunctionOnSet(f, U \ {x})
      BY <3>2, <3>5
    <3> QED
      BY <3>3, <3>4, <3>6
  <2> QED
    BY <2>2, <2>3
<1> HIDE DEF G
<1>2. \A U \in SUBSET S : U \in G
  BY <1>1, FiniteInductive
<1>3. S \in G /\ S \cap T = T
  BY <1>2
<1> QED
  BY <1>3 DEF G

-----------------------------------------------------------------------------
(* Dot products. *)

\* Numbers along the first n dimensions.
Vector(c, n) == DOMAIN c = 1 .. n /\ \A d \in 1 .. n : c[d] \in Int
Ints(s, n) == \A d \in 1 .. n : s[d] \in Int

\* The products of a dot product are numbers, and so is their sum.
LEMMA ProductsFacts ==
  ASSUME NEW n \in Nat, NEW c, NEW s, Vector(c, n), Ints(s, n)
  PROVE  /\ IsFiniteSet(1 .. n)
         /\ \A d \in 1 .. n : Products(c, s)[d] \in Int /\ Products(c, s)[d] = c[d] * s[d]
         /\ Dot(c, s) = SumFunctionOnSet(Products(c, s), 1 .. n)
         /\ Dot(c, s) \in Int
<1>1. IsFiniteSet(1 .. n) /\ 1 .. n \subseteq Int
  BY FS_Interval
<1>2. DOMAIN c = 1 .. n /\ \A d \in 1 .. n : c[d] \in Int /\ s[d] \in Int
  BY DEF Vector, Ints
<1>3. \A d \in 1 .. n : Products(c, s)[d] \in Int /\ Products(c, s)[d] = c[d] * s[d]
  <2> SUFFICES ASSUME NEW d \in 1 .. n
               PROVE  Products(c, s)[d] \in Int /\ Products(c, s)[d] = c[d] * s[d]
    OBVIOUS
  <2>1. Products(c, s)[d] = c[d] * s[d]
    BY <1>2 DEF Products
  <2>2. c[d] \in Int /\ s[d] \in Int
    BY <1>2
  <2> QED
    BY <2>1, <2>2
<1>4. Dot(c, s) = SumFunctionOnSet(Products(c, s), 1 .. n)
  BY <1>1, <1>2, DotIsSum
<1>5. Dot(c, s) \in Int
  BY <1>1, <1>3, <1>4, SumFacts
<1> QED
  BY <1>1, <1>3, <1>4, <1>5

\* A dot product grows with its terms.
LEMMA DotMonotone ==
  ASSUME NEW n \in Nat, NEW a, NEW s, NEW b, NEW t,
         Vector(a, n), Ints(s, n), Vector(b, n), Ints(t, n),
         \A d \in 1 .. n : a[d] * s[d] <= b[d] * t[d]
  PROVE  Dot(a, s) <= Dot(b, t)
<1>1. /\ IsFiniteSet(1 .. n)
      /\ \A d \in 1 .. n : Products(a, s)[d] \in Int /\ Products(a, s)[d] = a[d] * s[d]
      /\ Dot(a, s) = SumFunctionOnSet(Products(a, s), 1 .. n)
  BY ProductsFacts
<1>2. /\ \A d \in 1 .. n : Products(b, t)[d] \in Int /\ Products(b, t)[d] = b[d] * t[d]
      /\ Dot(b, t) = SumFunctionOnSet(Products(b, t), 1 .. n)
  BY ProductsFacts
<1>3. \A d \in 1 .. n : Products(a, s)[d] <= Products(b, t)[d]
  BY <1>1, <1>2
<1>4. SumFunctionOnSet(Products(a, s), 1 .. n) <= SumFunctionOnSet(Products(b, t), 1 .. n)
  BY <1>1, <1>2, <1>3, SumMonotone
<1> QED
  BY <1>1, <1>2, <1>4

\* Equal terms make equal dot products.
LEMMA DotEqual ==
  ASSUME NEW n \in Nat, NEW a, NEW s, NEW b, NEW t,
         Vector(a, n), Ints(s, n), Vector(b, n), Ints(t, n),
         \A d \in 1 .. n : a[d] * s[d] = b[d] * t[d]
  PROVE  Dot(a, s) = Dot(b, t)
<1>1. /\ IsFiniteSet(1 .. n)
      /\ \A d \in 1 .. n : Products(a, s)[d] \in Int /\ Products(a, s)[d] = a[d] * s[d]
      /\ Dot(a, s) = SumFunctionOnSet(Products(a, s), 1 .. n)
  BY ProductsFacts
<1>2. /\ \A d \in 1 .. n : Products(b, t)[d] \in Int /\ Products(b, t)[d] = b[d] * t[d]
      /\ Dot(b, t) = SumFunctionOnSet(Products(b, t), 1 .. n)
  BY ProductsFacts
<1>3. \A d \in 1 .. n : Products(b, t)[d] = Products(a, s)[d]
  BY <1>1, <1>2
<1>4. SumFunctionOnSet(Products(a, s), 1 .. n) = SumFunctionOnSet(Products(b, t), 1 .. n)
  BY <1>1, <1>3, SumEqual
<1> QED
  BY <1>1, <1>2, <1>4

\* Dot products add term by term.
LEMMA DotAdds ==
  ASSUME NEW n \in Nat, NEW a, NEW s, NEW b, NEW t, NEW c, NEW u,
         Vector(a, n), Ints(s, n), Vector(b, n), Ints(t, n), Vector(c, n), Ints(u, n),
         \A d \in 1 .. n : c[d] * u[d] = a[d] * s[d] + b[d] * t[d]
  PROVE  Dot(c, u) = Dot(a, s) + Dot(b, t)
<1>1. /\ IsFiniteSet(1 .. n)
      /\ \A d \in 1 .. n : Products(a, s)[d] \in Int /\ Products(a, s)[d] = a[d] * s[d]
      /\ Dot(a, s) = SumFunctionOnSet(Products(a, s), 1 .. n)
  BY ProductsFacts
<1>2. /\ \A d \in 1 .. n : Products(b, t)[d] \in Int /\ Products(b, t)[d] = b[d] * t[d]
      /\ Dot(b, t) = SumFunctionOnSet(Products(b, t), 1 .. n)
  BY ProductsFacts
<1>3. /\ \A d \in 1 .. n : Products(c, u)[d] \in Int /\ Products(c, u)[d] = c[d] * u[d]
      /\ Dot(c, u) = SumFunctionOnSet(Products(c, u), 1 .. n)
  BY ProductsFacts
<1>4. \A d \in 1 .. n : Products(c, u)[d] = Products(a, s)[d] + Products(b, t)[d]
  BY <1>1, <1>2, <1>3
<1>5. SumFunctionOnSet(Products(c, u), 1 .. n)
        = SumFunctionOnSet(Products(a, s), 1 .. n) + SumFunctionOnSet(Products(b, t), 1 .. n)
  BY <1>1, <1>2, <1>4, SumAdds
<1> QED
  BY <1>1, <1>2, <1>3, <1>5

\* What the dimensions behind j add.
Rest(c, s, n, j) == SumFunctionOnSet(Products(c, s), j + 1 .. n)

\* The terms behind a dimension, from none to all of them.
LEMMA RestFacts ==
  ASSUME NEW n \in Nat, NEW c, NEW s, Vector(c, n), Ints(s, n)
  PROVE  /\ Rest(c, s, n, n) = 0 /\ Rest(c, s, n, 0) = Dot(c, s)
         /\ \A j \in 0 .. n : Rest(c, s, n, j) \in Int
         /\ \A j \in 1 .. n : Rest(c, s, n, j - 1) = c[j] * s[j] + Rest(c, s, n, j)
<1> DEFINE p == Products(c, s)
<1>1. /\ IsFiniteSet(1 .. n)
      /\ \A d \in 1 .. n : p[d] \in Int /\ p[d] = c[d] * s[d]
      /\ Dot(c, s) = SumFunctionOnSet(p, 1 .. n)
  BY ProductsFacts
<1> HIDE DEF p
<1>2. ASSUME NEW j \in 0 .. n
      PROVE  IsFiniteSet(j + 1 .. n) /\ \A d \in j + 1 .. n : p[d] \in Int
  <2>1. j + 1 .. n \subseteq 1 .. n
    OBVIOUS
  <2> QED
    BY <1>1, <2>1, FS_Subset
<1>3. Rest(c, s, n, n) = 0
  <2>1. n + 1 .. n = {} /\ n \in 0 .. n
    OBVIOUS
  <2>2. SumFunctionOnSet(p, {}) = 0
    BY <1>2, <2>1, SumFacts
  <2> QED
    BY <2>1, <2>2 DEF Rest, p
<1>4. Rest(c, s, n, 0) = Dot(c, s)
  BY <1>1 DEF Rest, p
<1>5. \A j \in 0 .. n : Rest(c, s, n, j) \in Int
  BY <1>2, SumFacts DEF Rest, p
<1>6. ASSUME NEW j \in 1 .. n PROVE Rest(c, s, n, j - 1) = c[j] * s[j] + Rest(c, s, n, j)
  <2>1. j - 1 \in 0 .. n /\ (j - 1) + 1 = j /\ j \in j .. n /\ (j .. n) \ {j} = j + 1 .. n
    OBVIOUS
  <2>2. IsFiniteSet(j .. n) /\ \A d \in j .. n : p[d] \in Int
    BY <1>2, <2>1
  <2>3. SumFunctionOnSet(p, j .. n) = p[j] + SumFunctionOnSet(p, (j .. n) \ {j})
    BY <2>1, <2>2, SumFacts
  <2>4. Rest(c, s, n, j - 1) = SumFunctionOnSet(p, j .. n)
    BY <2>1 DEF Rest, p
  <2>5. Rest(c, s, n, j) = SumFunctionOnSet(p, j + 1 .. n)
    BY DEF Rest, p
  <2>6. p[j] = c[j] * s[j]
    BY <1>1
  <2> QED
    BY <2>1, <2>3, <2>4, <2>5, <2>6
<1> QED
  BY <1>3, <1>4, <1>5, <1>6

\* Induction from the last dimension to the first.
LEMMA Downwards ==
  ASSUME NEW n \in Nat, NEW G, n \in G, \A j \in 1 .. n : j \in G => j - 1 \in G
  PROVE  \A j \in 0 .. n : j \in G
<1> DEFINE H == {i \in Nat : i <= n => n - i \in G}
<1>1. 0 \in H
  OBVIOUS
<1>2. ASSUME NEW i \in Nat, i \in H PROVE i + 1 \in H
  <2> SUFFICES ASSUME i + 1 <= n PROVE n - (i + 1) \in G
    OBVIOUS
  <2>1. n - i \in 1 .. n /\ n - i \in G /\ (n - i) - 1 = n - (i + 1)
    BY <1>2
  <2>2. (n - i) - 1 \in G
    BY <2>1
  <2> QED
    BY <2>1, <2>2
<1> HIDE DEF H
<1>3. Nat \subseteq H
  BY <1>1, <1>2, NatInductive
<1>4. ASSUME NEW j \in 0 .. n PROVE j \in G
  <2>1. n - j \in Nat /\ n - j <= n /\ n - (n - j) = j
    OBVIOUS
  <2>2. n - j \in H
    BY <1>3, <2>1
  <2>3. n - (n - j) \in G
    BY <2>1, <2>2 DEF H
  <2> QED
    BY <2>1, <2>3
<1> QED
  BY <1>4

-----------------------------------------------------------------------------
(* Shapes and coordinates. *)

Shape(s) == s \in Seq(Positive)

\* A shape has a rank and extents above 0.
LEMMA ShapeFacts ==
  ASSUME NEW s, Shape(s)
  PROVE  /\ s \in Seq(Nat) /\ Len(s) \in Nat /\ DOMAIN s = 1 .. Len(s)
         /\ \A d \in 1 .. Len(s) : s[d] \in Nat /\ s[d] > 0
<1>1. s \in Seq(Positive)
  BY DEF Shape
<1>2. Len(s) \in Nat /\ DOMAIN s = 1 .. Len(s)
  BY <1>1
<1>3. \A d \in 1 .. Len(s) : s[d] \in Positive
  BY <1>1, ElementOf
<1>4. \A d \in 1 .. Len(s) : s[d] \in Nat /\ s[d] > 0
  BY <1>3 DEF Positive
<1>5. s \in Seq(Nat)
  BY <1>1 DEF Positive
<1> QED
  BY <1>2, <1>4, <1>5

\* The coordinates of a shape: numbers below its extents.
Within(x, s) == DOMAIN x = 1 .. Len(s) /\ \A d \in 1 .. Len(s) : x[d] \in 0 .. s[d] - 1

\* The coordinates of a shape are the sequences within it.
LEMMA CoordsFacts ==
  ASSUME NEW s, Shape(s)
  PROVE  /\ \A x \in Coords(s) : x \in Seq(Nat) /\ Len(x) = Len(s) /\ Within(x, s)
         /\ \A f : Within([d \in 1 .. Len(s) |-> f[d]], s) => [d \in 1 .. Len(s) |-> f[d]] \in Coords(s)
<1> DEFINE n == Len(s)
           top == Max({s[d] : d \in DOMAIN s})
<1>1. n \in Nat /\ DOMAIN s = 1 .. n /\ \A d \in 1 .. n : s[d] \in Nat
  BY ShapeFacts
<1> HIDE DEF n
<1>2. CASE n = 0
  <2>1. s = << >> /\ 1 .. n = {}
    BY <1>1, <1>2, ShapeFacts DEF n
  <2>2. Coords(s) = {<< >>}
    BY <2>1 DEF Coords
  <2>3. << >> \in Seq(Nat) /\ Len(<< >>) = 0 /\ DOMAIN << >> = 1 .. 0
    OBVIOUS
  <2>4. \A f : [d \in 1 .. n |-> f[d]] = << >>
    BY <2>1
  <2> QED
    BY <1>2, <2>1, <2>2, <2>3, <2>4 DEF Within, n
<1>3. CASE n # 0
  <2>1. s # << >>
    BY <1>3 DEF n
  <2>2. Coords(s) = {x \in [1 .. n -> 0 .. top - 1] : \A d \in 1 .. n : x[d] < s[d]}
    BY <1>1, <2>1 DEF Coords
  <2>3. top \in Int /\ \A d \in 1 .. n : s[d] <= top
    <3> DEFINE S == {s[d] : d \in 1 .. n}
    <3>0. IsFiniteSet(1 .. n)
      BY <1>1, FS_Interval
    <3>6. 1 \in 1 .. n
      BY <1>1, <1>3
    <3>1. IsFiniteSet(1 .. n) /\ 1 .. n # {} /\ \A d \in 1 .. n : s[d] \in Int
      BY <1>1, <3>0, <3>6
    <3>2. PICK x \in 1 .. n : \A y \in 1 .. n : s[y] <= s[x]
      BY <3>1, GreatestElement
    <3>3. s[x] \in S /\ \A y \in S : s[x] >= y
      BY <3>1, <3>2
    <3>4. Max(S) \in S /\ \A y \in S : Max(S) >= y
      BY <3>3 DEF Max
    <3>5. top = Max(S)
      BY <1>1
    <3> QED
      BY <1>1, <3>1, <3>4, <3>5
  <2> HIDE DEF top
  <2>4. ASSUME NEW x \in Coords(s) PROVE x \in Seq(Nat) /\ Len(x) = n /\ Within(x, s)
    <3>1. x \in [1 .. n -> 0 .. top - 1] /\ \A d \in 1 .. n : x[d] < s[d]
      BY <2>2
    <3>2. x \in [1 .. n -> Nat]
      BY <2>3, <3>1
    <3>3. x \in Seq(Nat) /\ Len(x) = n
      BY <1>1, <3>2
    <3>4. \A d \in 1 .. n : x[d] \in 0 .. s[d] - 1
      BY <1>1, <3>1, <3>2
    <3> QED
      BY <3>1, <3>3, <3>4 DEF Within, n
  <2>5. ASSUME NEW f, Within([d \in 1 .. n |-> f[d]], s)
        PROVE  [d \in 1 .. n |-> f[d]] \in Coords(s)
    <3>1. \A d \in 1 .. n : f[d] \in 0 .. s[d] - 1
      BY <2>5 DEF Within, n
    <3>2. \A d \in 1 .. n : f[d] \in 0 .. top - 1 /\ f[d] < s[d]
      BY <1>1, <2>3, <3>1
    <3>3. [d \in 1 .. n |-> f[d]] \in [1 .. n -> 0 .. top - 1]
      BY <3>2
    <3> QED
      BY <2>2, <3>2, <3>3
  <2> QED
    BY <2>4, <2>5 DEF n
<1> QED
  BY <1>2, <1>3

\* Strides of a shape are above 0, the last is 1, and the first covers all elements.
LEMMA WeightsOfShape ==
  ASSUME NEW s, Shape(s)
  PROVE  /\ Ints(RowMajor(s), Len(s))
         /\ \A d \in 0 .. Len(s) : Weight(s)[d] \in Nat /\ Weight(s)[d] > 0
         /\ Weight(s)[Len(s)] = 1 /\ Weight(s)[0] = Numel(s)
         /\ \A d \in 1 .. Len(s) : /\ Weight(s)[d - 1] = s[d] * Weight(s)[d]
                                   /\ RowMajor(s)[d] = Weight(s)[d]
<1> DEFINE n == Len(s)
           w == Weight(s)
<1>1. s \in Seq(Nat) /\ n \in Nat /\ \A d \in 1 .. n : s[d] \in Nat /\ s[d] > 0
  BY ShapeFacts
<1>2. /\ Weighs(s, w) /\ w[0] = Numel(s)
      /\ \A d \in 1 .. n : RowMajor(s)[d] = w[d]
  BY <1>1, WeightFacts
<1> HIDE DEF n, w
<1>3. /\ w \in [0 .. n -> Nat] /\ w[n] = 1
      /\ \A d \in 1 .. n : w[d - 1] = s[d] * w[d]
  BY <1>2 DEF Weighs, n
<1>4. \A d \in 0 .. n : w[d] \in Nat
  BY <1>3
<1> DEFINE G == {d \in 0 .. n : w[d] > 0}
<1>5. n \in G
  BY <1>1, <1>3
<1>6. ASSUME NEW j \in 1 .. n, j \in G PROVE j - 1 \in G
  <2>1. w[j] > 0 /\ w[j] \in Nat /\ j - 1 \in 0 .. n
    BY <1>1, <1>4, <1>6
  <2>2. w[j - 1] = s[j] * w[j] /\ s[j] \in Nat /\ s[j] > 0
    BY <1>1, <1>3
  <2>3. s[j] * w[j] > 0
    BY <2>1, <2>2, TimesNat
  <2> QED
    BY <2>1, <2>2, <2>3
<1> HIDE DEF G
<1>7. \A d \in 0 .. n : d \in G
  BY <1>1, <1>5, <1>6, Downwards
<1>8. Ints(RowMajor(s), n)
  <2> SUFFICES ASSUME NEW d \in 1 .. n PROVE RowMajor(s)[d] \in Int
    BY DEF Ints
  <2>1. d \in 0 .. n
    BY <1>1
  <2> QED
    BY <1>2, <1>4, <2>1
<1> QED
  BY <1>2, <1>3, <1>4, <1>7, <1>8 DEF G, n, w

\* Coordinates are numbers.
LEMMA WithinIsVector ==
  ASSUME NEW s, Shape(s), NEW x, Within(x, s)
  PROVE  Vector(x, Len(s))
<1>1. \A d \in 1 .. Len(s) : s[d] \in Nat
  BY ShapeFacts
<1> QED
  BY <1>1 DEF Within, Vector

-----------------------------------------------------------------------------
(* Numbers with a digit for each dimension. *)

\* What the last digits make is less than one unit of the digit before.
LEMMA RestIsSmall ==
  ASSUME NEW s, Shape(s), NEW x, Within(x, s)
  PROVE  \A j \in 0 .. Len(s) : Rest(x, RowMajor(s), Len(s), j) \in 0 .. Weight(s)[j] - 1
<1> DEFINE n == Len(s)
           w == Weight(s)
           r == [j \in 0 .. n |-> Rest(x, RowMajor(s), n, j)]
<1>1. n \in Nat /\ \A d \in 1 .. n : s[d] \in Nat
  BY ShapeFacts
<1>2. /\ Ints(RowMajor(s), n) /\ Vector(x, n)
      /\ \A d \in 0 .. n : w[d] \in Nat /\ w[d] > 0
      /\ w[n] = 1
      /\ \A d \in 1 .. n : w[d - 1] = s[d] * w[d] /\ RowMajor(s)[d] = w[d]
  BY WeightsOfShape, WithinIsVector
<1>3. \A d \in 1 .. n : x[d] \in 0 .. s[d] - 1
  BY DEF Within
<1> HIDE DEF n, w
<1>4. /\ r[n] = 0
      /\ \A j \in 0 .. n : r[j] \in Int
      /\ \A j \in 1 .. n : r[j - 1] = x[j] * w[j] + r[j]
  <2>1. /\ Rest(x, RowMajor(s), n, n) = 0
        /\ \A j \in 0 .. n : Rest(x, RowMajor(s), n, j) \in Int
        /\ \A j \in 1 .. n : Rest(x, RowMajor(s), n, j - 1)
                               = x[j] * RowMajor(s)[j] + Rest(x, RowMajor(s), n, j)
    BY <1>1, <1>2, RestFacts
  <2>2. \A j \in 1 .. n : j - 1 \in 0 .. n /\ j \in 0 .. n
    BY <1>1
  <2> QED
    BY <1>1, <1>2, <2>1, <2>2
<1> DEFINE G == {j \in 0 .. n : r[j] \in 0 .. w[j] - 1}
<1> HIDE DEF r
<1>5. n \in G
  BY <1>1, <1>2, <1>4
<1>6. ASSUME NEW j \in 1 .. n, j \in G PROVE j - 1 \in G
  <2>1. j - 1 \in 0 .. n /\ j \in 0 .. n
    BY <1>1
  <2>2. r[j - 1] = x[j] * w[j] + r[j] /\ w[j - 1] = s[j] * w[j]
    BY <1>2, <1>4
  <2>3. /\ x[j] \in Nat /\ r[j] \in Nat /\ w[j] \in Nat /\ s[j] \in Nat
        /\ x[j] <= s[j] - 1 /\ r[j] <= w[j] - 1
    BY <1>1, <1>2, <1>3, <1>6, <2>1
  <2> HIDE DEF G
  <2>4. ASSUME NEW a \in Nat, NEW b \in Nat, NEW c \in Nat, NEW e \in Nat, a <= e - 1, b <= c - 1
        PROVE  a * c + b \in 0 .. e * c - 1
    <3>1. a * c \in Nat /\ (e - 1) * c \in Int /\ a * c <= (e - 1) * c
      <4>1. a \in Int /\ e - 1 \in Int /\ c \in Nat
        OBVIOUS
      <4> QED
        BY <2>4, <4>1, TimesMonotone, TimesNat
    <3>2. (e - 1) * c = e * c - c /\ e * c \in Int
      OBVIOUS
    <3> QED
      BY <2>4, <3>1, <3>2
  <2>5. x[j] * w[j] + r[j] \in 0 .. s[j] * w[j] - 1
    BY <2>3, <2>4
  <2> QED
    BY <2>1, <2>2, <2>5 DEF G
<1> HIDE DEF G
<1>7. \A j \in 0 .. n : j \in G
  BY <1>1, <1>5, <1>6, Downwards
<1> QED
  BY <1>7 DEF G, r, n, w

\* A flat index is below the number of elements.
LEMMA FlatInRange ==
  ASSUME NEW s, Shape(s), NEW x, Within(x, s)
  PROVE  Flat(s, x) \in 0 .. Numel(s) - 1 /\ Numel(s) \in Nat /\ Numel(s) > 0
<1>1. Len(s) \in Nat /\ 0 \in 0 .. Len(s)
  BY ShapeFacts
<1>2. Ints(RowMajor(s), Len(s)) /\ Vector(x, Len(s))
  BY WeightsOfShape, WithinIsVector
<1>3. Rest(x, RowMajor(s), Len(s), 0) = Flat(s, x)
  BY <1>1, <1>2, RestFacts DEF Flat
<1>4. Weight(s)[0] = Numel(s) /\ Weight(s)[0] \in Nat /\ Weight(s)[0] > 0
  BY <1>1, WeightsOfShape
<1> QED
  BY <1>1, <1>3, <1>4, RestIsSmall

\* The number that the first digits make.
Horner(s, x, h) ==
  /\ h \in [0 .. Len(s) -> Nat]
  /\ h[0] = 0 /\ \A d \in 1 .. Len(s) : h[d] = h[d - 1] * s[d] + x[d]

\* There is one, digit after digit.
LEMMA HornerExists ==
  ASSUME NEW s, Shape(s), NEW x, Within(x, s)
  PROVE  \E h : Horner(s, x, h)
<1> DEFINE n == Len(s)
           st == [p \in (1 .. n) \X Nat |-> p[2] * s[p[1]] + x[p[1]]]
<1>1. n \in Nat /\ \A d \in 1 .. n : s[d] \in Nat
  BY ShapeFacts
<1>2. \A d \in 1 .. n : x[d] \in Nat
  BY <1>1 DEF Within
<1> HIDE DEF n
<1>3. st \in [(1 .. n) \X Nat -> Nat]
  <2> SUFFICES ASSUME NEW p \in (1 .. n) \X Nat PROVE p[2] * s[p[1]] + x[p[1]] \in Nat
    OBVIOUS
  <2>1. p[2] \in Nat /\ s[p[1]] \in Nat /\ x[p[1]] \in Nat
    BY <1>1, <1>2
  <2>2. p[2] * s[p[1]] \in Nat
    BY <2>1, TimesNat
  <2> QED
    BY <2>1, <2>2
<1> HIDE DEF st
<1>4. PICK h \in [0 .. n -> Nat] : Recurs(n, 0, st, h)
  <2>1. 0 \in Nat
    OBVIOUS
  <2> QED
    BY <1>1, <1>3, <2>1, RecursionExists
<1>5. h[0] = 0
  <2>1. 0 \in 0 .. n
    BY <1>1
  <2> QED
    BY <1>4, <2>1 DEF Recurs
<1>6. ASSUME NEW d \in 1 .. n PROVE h[d] = h[d - 1] * s[d] + x[d]
  <2>1. d \in 0 .. n /\ d - 1 \in 0 .. n /\ d # 0
    BY <1>1
  <2>2. h[d] = st[<<d, h[d - 1]>>] /\ h[d - 1] \in Nat
    BY <1>4, <2>1 DEF Recurs
  <2> QED
    BY <2>2 DEF st
<1> QED
  BY <1>4, <1>5, <1>6 DEF Horner, n

\* First digits and last digits make the number.
LEMMA HornerSplits ==
  ASSUME NEW s, Shape(s), NEW x, Within(x, s), NEW h, Horner(s, x, h)
  PROVE  \A d \in 0 .. Len(s) :
           /\ h[d] \in Nat
           /\ Flat(s, x) = h[d] * Weight(s)[d] + Rest(x, RowMajor(s), Len(s), d)
<1> DEFINE n == Len(s)
           w == Weight(s)
           r == [j \in 0 .. n |-> Rest(x, RowMajor(s), n, j)]
           f == Flat(s, x)
<1>1. n \in Nat /\ \A d \in 1 .. n : s[d] \in Nat
  BY ShapeFacts
<1>2. /\ Ints(RowMajor(s), n) /\ Vector(x, n)
      /\ \A d \in 0 .. n : w[d] \in Nat
      /\ \A d \in 1 .. n : w[d - 1] = s[d] * w[d] /\ RowMajor(s)[d] = w[d]
  BY WeightsOfShape, WithinIsVector
<1>3. \A d \in 1 .. n : x[d] \in Nat
  BY <1>1 DEF Within
<1>4. h \in [0 .. n -> Nat] /\ h[0] = 0 /\ \A d \in 1 .. n : h[d] = h[d - 1] * s[d] + x[d]
  BY DEF Horner
<1> HIDE DEF n, w
<1>5. /\ r[0] = f
      /\ \A j \in 0 .. n : r[j] \in Int
      /\ \A j \in 1 .. n : r[j - 1] = x[j] * w[j] + r[j]
  <2>1. /\ Rest(x, RowMajor(s), n, 0) = f
        /\ \A j \in 0 .. n : Rest(x, RowMajor(s), n, j) \in Int
        /\ \A j \in 1 .. n : Rest(x, RowMajor(s), n, j - 1)
                               = x[j] * RowMajor(s)[j] + Rest(x, RowMajor(s), n, j)
    BY <1>1, <1>2, RestFacts DEF Flat
  <2>2. \A j \in 1 .. n : j - 1 \in 0 .. n /\ j \in 0 .. n
    BY <1>1
  <2>3. 0 \in 0 .. n
    BY <1>1
  <2> QED
    BY <1>1, <1>2, <2>1, <2>2, <2>3
<1> DEFINE G == {d \in Nat : d <= n => f = h[d] * w[d] + r[d]}
<1> HIDE DEF r, f
<1>6. 0 \in G
  <2>1. 0 \in 0 .. n
    BY <1>1
  <2>2. w[0] \in Nat /\ r[0] \in Int
    BY <1>2, <1>5, <2>1
  <2>3. 0 * w[0] + r[0] = r[0]
    BY <2>2
  <2> QED
    BY <1>4, <1>5, <2>3
<1>7. ASSUME NEW i \in Nat, i \in G PROVE i + 1 \in G
  <2> SUFFICES ASSUME i + 1 <= n PROVE f = h[i + 1] * w[i + 1] + r[i + 1]
    OBVIOUS
  <2> DEFINE d == i + 1
  <2>1. f = h[i] * w[i] + r[i]
    BY <1>1, <1>7
  <2> HIDE DEF G
  <2>2. d \in 1 .. n /\ d - 1 = i /\ i \in 0 .. n /\ d \in 0 .. n
    BY <1>1
  <2>3. r[i] = x[d] * w[d] + r[d] /\ w[i] = s[d] * w[d] /\ h[d] = h[i] * s[d] + x[d]
    BY <1>2, <1>4, <1>5, <2>2
  <2>4. /\ x[d] \in Nat /\ s[d] \in Nat /\ w[d] \in Nat /\ r[d] \in Int /\ h[i] \in Nat
    BY <1>1, <1>2, <1>3, <1>4, <1>5, <2>2
  <2> HIDE DEF d
  <2>5. ASSUME NEW a \in Int, NEW b \in Int, NEW c \in Int, NEW e \in Int, NEW g \in Int
        PROVE  a * (b * c) + (e * c + g) = (a * b + e) * c + g
    OBVIOUS
  <2>6. h[i] * (s[d] * w[d]) + (x[d] * w[d] + r[d]) = (h[i] * s[d] + x[d]) * w[d] + r[d]
    <3>1. h[i] \in Int /\ s[d] \in Int /\ w[d] \in Int /\ x[d] \in Int /\ r[d] \in Int
      BY <2>4
    <3> QED
      BY <2>5, <3>1
  <2>7. f = h[d] * w[d] + r[d]
    BY <2>1, <2>3, <2>6
  <2> QED
    BY <2>7 DEF d
<1> HIDE DEF G
<1>8. Nat \subseteq G
  BY <1>6, <1>7, NatInductive
<1>9. \A d \in 0 .. n : f = h[d] * w[d] + r[d]
  BY <1>1, <1>8 DEF G
<1> QED
  BY <1>4, <1>9 DEF f, n, w, r

\* So the digits can be had back: the loop counters at an element are its
\* coordinates.
LEMMA AtFlat ==
  ASSUME NEW s, Shape(s), NEW x, Within(x, s), x = [d \in 1 .. Len(s) |-> x[d]]
  PROVE  At(s, Flat(s, x)) = x
<1> DEFINE n == Len(s)
           w == Weight(s)
           r == [j \in 0 .. n |-> Rest(x, RowMajor(s), n, j)]
           f == Flat(s, x)
<1>1. n \in Nat /\ DOMAIN s = 1 .. n /\ \A d \in 1 .. n : s[d] \in Nat
  BY ShapeFacts
<1>2. /\ \A d \in 0 .. n : w[d] \in Nat
      /\ \A d \in 1 .. n : RowMajor(s)[d] = w[d]
  BY WeightsOfShape
<1>3. \A d \in 1 .. n : x[d] \in 0 .. s[d] - 1
  BY DEF Within
<1>4. PICK h : Horner(s, x, h)
  BY HornerExists
<1>5. \A d \in 1 .. n : h[d] = h[d - 1] * s[d] + x[d]
  BY <1>4 DEF Horner
<1>6. \A d \in 0 .. n : h[d] \in Nat /\ f = h[d] * w[d] + r[d] /\ r[d] \in 0 .. w[d] - 1
  BY <1>4, HornerSplits, RestIsSmall
<1> HIDE DEF n, w, r, f
<1>7. ASSUME NEW d \in 1 .. n PROVE (f \div RowMajor(s)[d]) % s[d] = x[d]
  <2>1. d \in 0 .. n /\ d - 1 \in 0 .. n
    BY <1>1
  <2>2. h[d] \in Nat /\ h[d - 1] \in Nat /\ w[d] \in Nat /\ r[d] \in 0 .. w[d] - 1 /\ s[d] \in Nat
        /\ x[d] \in 0 .. s[d] - 1
    BY <1>1, <1>2, <1>3, <1>6, <2>1
  <2>3. (h[d] * w[d] + r[d]) \div w[d] = h[d]
    <3>1. h[d] \in Int /\ r[d] \in Int /\ w[d] \in Int /\ 0 <= r[d] /\ r[d] < w[d]
      BY <2>2
    <3> QED
      BY <3>1, DivUnique
  <2>4. (h[d - 1] * s[d] + x[d]) % s[d] = x[d]
    <3>1. h[d - 1] \in Int /\ x[d] \in Int /\ s[d] \in Int /\ 0 <= x[d] /\ x[d] < s[d]
      BY <2>2
    <3> QED
      BY <3>1, DivUnique
  <2>5. f = h[d] * w[d] + r[d] /\ h[d] = h[d - 1] * s[d] + x[d] /\ RowMajor(s)[d] = w[d]
    BY <1>2, <1>5, <1>6, <2>1
  <2> QED
    BY <2>3, <2>4, <2>5
<1>8. At(s, f) = [d \in 1 .. n |-> (f \div RowMajor(s)[d]) % s[d]]
  BY <1>1 DEF At
<1> QED
  BY <1>7, <1>8 DEF n, f

\* Different coordinates, different elements.
LEMMA FlatInjective ==
  ASSUME NEW s, Shape(s), NEW x \in Coords(s), NEW y \in Coords(s), Flat(s, x) = Flat(s, y)
  PROVE  x = y
<1>1. \A z \in Coords(s) : z \in Seq(Nat) /\ Len(z) = Len(s) /\ Within(z, s)
  BY CoordsFacts
<1>2. \A z \in Coords(s) : z = [d \in 1 .. Len(s) |-> z[d]]
  BY <1>1
<1>3. At(s, Flat(s, x)) = x /\ At(s, Flat(s, y)) = y
  BY <1>1, <1>2, AtFlat
<1> QED
  BY <1>3

-----------------------------------------------------------------------------
(* One turn of the odometer. *)

\* A dot product with a single 1.
LEMMA SingleDot ==
  ASSUME NEW n \in Nat, NEW s, Ints(s, n), NEW i \in 0 .. n
  PROVE  Dot([d \in 1 .. n |-> IF d = i THEN 1 ELSE 0], s) = IF i = 0 THEN 0 ELSE s[i]
<1> DEFINE c == [d \in 1 .. n |-> IF d = i THEN 1 ELSE 0]
           p == Products(c, s)
           T == {d \in 1 .. n : d = i}
<1>1. Vector(c, n)
  BY DEF Vector
<1>2. /\ IsFiniteSet(1 .. n)
      /\ \A d \in 1 .. n : p[d] \in Int /\ p[d] = c[d] * s[d]
      /\ Dot(c, s) = SumFunctionOnSet(p, 1 .. n)
  BY <1>1, ProductsFacts
<1>3. \A d \in 1 .. n : s[d] \in Int
  BY DEF Ints
<1> HIDE DEF p
<1>4. ASSUME NEW d \in 1 .. n PROVE p[d] = IF d = i THEN s[d] ELSE 0
  <2>1. p[d] = c[d] * s[d] /\ s[d] \in Int
    BY <1>2, <1>3
  <2>2. c[d] = IF d = i THEN 1 ELSE 0
    OBVIOUS
  <2> HIDE DEF c
  <2>3. 1 * s[d] = s[d] /\ 0 * s[d] = 0
    BY <2>1
  <2> QED
    BY <2>1, <2>2, <2>3
<1> HIDE DEF c
<1>5. SumFunctionOnSet(p, 1 .. n) = SumFunctionOnSet(p, T)
  <2>1. T \in SUBSET (1 .. n) /\ \A d \in (1 .. n) \ T : p[d] = 0
    BY <1>4
  <2> QED
    BY <1>2, <2>1, SumSupport
<1>6. IsFiniteSet(T) /\ \A d \in T : p[d] \in Int
  BY <1>2, FS_Subset
<1>7. SumFunctionOnSet(p, {}) = 0 /\ \A d \in T : SumFunctionOnSet(p, T) = p[d] + SumFunctionOnSet(p, T \ {d})
  BY <1>6, SumFacts
<1>8. CASE i = 0
  <2>1. T = {}
    BY <1>8
  <2> QED
    BY <1>2, <1>5, <1>7, <1>8, <2>1 DEF c
<1>9. CASE i # 0
  <2>1. i \in T /\ T \ {i} = {}
    BY <1>9
  <2>2. SumFunctionOnSet(p, T) = p[i] + 0 /\ p[i] \in Int /\ p[i] = s[i]
    BY <1>4, <1>6, <1>7, <2>1
  <2>3. Dot(c, s) = s[i]
    BY <1>2, <1>5, <2>2
  <2> QED
    BY <1>9, <2>3 DEF c
<1> QED
  BY <1>8, <1>9

\* Where the increment stops carrying: all coordinates behind are at their last value.
Carries(c, s, stop) ==
  /\ stop \in 0 .. Len(s)
  /\ stop # 0 => c[stop] + 1 < s[stop]
  /\ \A d \in stop + 1 .. Len(s) : c[d] = s[d] - 1

\* kernels_ref.c:106-112: where the carry of the odometer stops.
LEMMA StopFacts ==
  ASSUME NEW s, Shape(s), Within(coords, s)
  PROVE  Carries(coords, s, CarryStop(s))
<1> DEFINE n == Len(s)
           stops == {d \in DOMAIN s : coords[d] + 1 < s[d]}
<1>1. n \in Nat /\ DOMAIN s = 1 .. n /\ \A d \in 1 .. n : s[d] \in Nat
  BY ShapeFacts
<1>2. \A d \in 1 .. n : coords[d] \in 0 .. s[d] - 1
  BY DEF Within
<1> HIDE DEF n
<1>3. CASE stops = {}
  <2>1. CarryStop(s) = 0
    BY <1>3 DEF CarryStop
  <2>2. \A d \in 1 .. n : coords[d] = s[d] - 1
    <3> SUFFICES ASSUME NEW d \in 1 .. n PROVE coords[d] = s[d] - 1
      OBVIOUS
    <3>1. ~(coords[d] + 1 < s[d])
      BY <1>1, <1>3
    <3>2. coords[d] \in 0 .. s[d] - 1 /\ s[d] \in Nat
      BY <1>1, <1>2
    <3> QED
      BY <3>1, <3>2
  <2> QED
    BY <1>1, <2>1, <2>2 DEF Carries, n
<1>4. CASE stops # {}
  <2>1. stops \subseteq Int /\ IsFiniteSet(stops)
    <3>1. stops \in SUBSET (1 .. n) /\ IsFiniteSet(1 .. n)
      BY <1>1, FS_Interval
    <3> QED
      BY <1>1, <3>1, FS_Subset
  <2>2. \E d \in stops : \A e \in stops : e <= d
    BY <1>4, <2>1, MaxFacts
  <2> DEFINE stop == CHOOSE d \in stops : \A e \in stops : e <= d
  <2>3. stop \in stops /\ \A e \in stops : e <= stop
    BY <2>2
  <2>4. CarryStop(s) = stop
    BY <1>4 DEF CarryStop
  <2> HIDE DEF stop
  <2>5. stop \in 1 .. n /\ coords[stop] + 1 < s[stop]
    BY <1>1, <2>3
  <2>6. ASSUME NEW d \in stop + 1 .. n PROVE coords[d] = s[d] - 1
    <3>1. d \in 1 .. n /\ ~(d <= stop)
      BY <1>1, <2>5
    <3>2. ~(coords[d] + 1 < s[d])
      BY <1>1, <2>3, <3>1
    <3>3. coords[d] \in 0 .. s[d] - 1 /\ s[d] \in Nat
      BY <1>1, <1>2, <3>1
    <3> QED
      BY <3>2, <3>3
  <2>7. stop \in 0 .. n
    BY <1>1, <2>5
  <2> QED
    BY <2>4, <2>5, <2>6, <2>7 DEF Carries, n
<1> QED
  BY <1>3, <1>4

Turned(c, s, stop) ==
  [d \in DOMAIN s |-> IF d > stop THEN 0 ELSE IF d = stop THEN c[d] + 1 ELSE c[d]]

\* The strides that wrapping takes back.
Wrapped(s, stop) == [d \in DOMAIN s |-> IF d > stop THEN s[d] - 1 ELSE 0]

\* The next coordinates are coordinates.
LEMMA TurnFacts ==
  ASSUME NEW s, Shape(s), NEW c, Within(c, s), NEW stop, Carries(c, s, stop)
  PROVE  /\ Within(Turned(c, s, stop), s)
         /\ Vector(Wrapped(s, stop), Len(s))
<1>1. Len(s) \in Nat /\ DOMAIN s = 1 .. Len(s) /\ \A d \in 1 .. Len(s) : s[d] \in Nat /\ s[d] > 0
  BY ShapeFacts
<1>2. /\ stop \in 0 .. Len(s)
      /\ stop # 0 => c[stop] + 1 < s[stop]
  BY DEF Carries
<1>3. \A d \in 1 .. Len(s) : c[d] \in 0 .. s[d] - 1
  BY DEF Within
<1>4. ASSUME NEW d \in 1 .. Len(s) PROVE Turned(c, s, stop)[d] \in 0 .. s[d] - 1
  <2>1. Turned(c, s, stop)[d] = IF d > stop THEN 0 ELSE IF d = stop THEN c[d] + 1 ELSE c[d]
    BY <1>1 DEF Turned
  <2>2. s[d] \in Nat /\ s[d] > 0 /\ c[d] \in 0 .. s[d] - 1
    BY <1>1, <1>3
  <2>3. d = stop => c[d] + 1 < s[d]
    BY <1>2
  <2> QED
    BY <2>1, <2>2, <2>3
<1>5. DOMAIN Turned(c, s, stop) = 1 .. Len(s)
  BY <1>1 DEF Turned
<1>6. \A d \in 1 .. Len(s) : Wrapped(s, stop)[d] \in Int
  BY <1>1 DEF Wrapped
<1>7. DOMAIN Wrapped(s, stop) = 1 .. Len(s)
  BY <1>1 DEF Wrapped
<1> QED
  BY <1>4, <1>5, <1>6, <1>7 DEF Within, Vector

\* A turn adds the stride where the carry stops and takes back those behind it.
LEMMA TurnDot ==
  ASSUME NEW s, Shape(s), NEW c, Within(c, s), NEW stop, Carries(c, s, stop),
         NEW t, Ints(t, Len(s))
  PROVE  /\ Dot(Turned(c, s, stop), t)
              = Dot(c, t) + (IF stop = 0 THEN 0 ELSE t[stop]) - Dot(Wrapped(s, stop), t)
         /\ Dot(c, t) \in Int /\ Dot(Wrapped(s, stop), t) \in Int
<1> DEFINE n == Len(s)
           e == Turned(c, s, stop)
           v == Wrapped(s, stop)
           one == [d \in 1 .. n |-> IF d = stop THEN 1 ELSE 0]
           m == [d \in 1 .. n |-> e[d] + v[d]]
<1>1. n \in Nat /\ DOMAIN s = 1 .. n /\ \A d \in 1 .. n : s[d] \in Nat
  BY ShapeFacts
<1>2. stop \in 0 .. n /\ \A d \in stop + 1 .. n : c[d] = s[d] - 1
  BY DEF Carries
<1>3. Vector(c, n) /\ Vector(e, n) /\ Vector(v, n)
  BY TurnFacts, WithinIsVector
<1>4. Vector(one, n)
  BY DEF Vector
<1>5. \A d \in 1 .. n : e[d] \in Int /\ v[d] \in Int /\ c[d] \in Int /\ t[d] \in Int
  BY <1>3 DEF Vector, Ints
<1>6. ASSUME NEW d \in 1 .. n PROVE e[d] + v[d] = c[d] + one[d]
  <2>1. /\ e[d] = IF d > stop THEN 0 ELSE IF d = stop THEN c[d] + 1 ELSE c[d]
        /\ v[d] = IF d > stop THEN s[d] - 1 ELSE 0
        /\ one[d] = IF d = stop THEN 1 ELSE 0
    BY <1>1 DEF Turned, Wrapped
  <2>2. d > stop => c[d] = s[d] - 1
    BY <1>1, <1>2
  <2>3. c[d] \in Int /\ s[d] \in Int
    BY <1>1, <1>5
  <2> HIDE DEF e, v, one
  <2> QED
    BY <1>2, <2>1, <2>2, <2>3
<1>7. \A d \in 1 .. n : m[d] = e[d] + v[d] /\ m[d] = c[d] + one[d]
  BY <1>6
<1>8. \A d \in 1 .. n : one[d] \in Int
  OBVIOUS
<1>9. Vector(m, n)
  BY <1>5 DEF Vector
<1> HIDE DEF e, v, one, m, n
<1>10. ASSUME NEW a \in Int, NEW b \in Int, NEW f \in Int PROVE (a + b) * f = a * f + b * f
  OBVIOUS
<1>11. Dot(m, t) = Dot(e, t) + Dot(v, t)
  <2>1. \A d \in 1 .. n : m[d] * t[d] = e[d] * t[d] + v[d] * t[d]
    <3> SUFFICES ASSUME NEW d \in 1 .. n PROVE m[d] * t[d] = e[d] * t[d] + v[d] * t[d]
      OBVIOUS
    <3>1. e[d] \in Int /\ v[d] \in Int /\ t[d] \in Int /\ m[d] = e[d] + v[d]
      BY <1>5, <1>7
    <3> QED
      BY <1>10, <3>1
  <2>2. Ints(t, n)
    BY DEF n
  <2> QED
    BY <1>1, <1>3, <1>9, <2>1, <2>2, DotAdds
<1>12. Dot(m, t) = Dot(c, t) + Dot(one, t)
  <2>1. \A d \in 1 .. n : m[d] * t[d] = c[d] * t[d] + one[d] * t[d]
    <3> SUFFICES ASSUME NEW d \in 1 .. n PROVE m[d] * t[d] = c[d] * t[d] + one[d] * t[d]
      OBVIOUS
    <3>1. c[d] \in Int /\ one[d] \in Int /\ t[d] \in Int /\ m[d] = c[d] + one[d]
      BY <1>5, <1>7, <1>8
    <3> QED
      BY <1>10, <3>1
  <2>2. Ints(t, n)
    BY DEF n
  <2> QED
    BY <1>1, <1>3, <1>4, <1>9, <2>1, <2>2, DotAdds
<1>13. Dot(one, t) = IF stop = 0 THEN 0 ELSE t[stop]
  BY <1>1, <1>2, SingleDot DEF one, n
<1>14. Dot(e, t) \in Int /\ Dot(v, t) \in Int /\ Dot(c, t) \in Int /\ Dot(one, t) \in Int
  BY <1>1, <1>3, <1>4, ProductsFacts DEF n
<1>15. Dot(e, t) = Dot(c, t) + Dot(one, t) - Dot(v, t)
  BY <1>11, <1>12, <1>14
<1> QED
  BY <1>13, <1>14, <1>15 DEF e, v

\* What is taken back, counted in elements, is one less than a step at the stop.
LEMMA WrappedCounts ==
  ASSUME NEW s, Shape(s), NEW stop \in 0 .. Len(s), Vector(Wrapped(s, stop), Len(s))
  PROVE  Dot(Wrapped(s, stop), RowMajor(s)) = Weight(s)[stop] - 1
<1> DEFINE n == Len(s)
           w == Weight(s)
           v == Wrapped(s, stop)
           r == [j \in 0 .. n |-> Rest(v, RowMajor(s), n, j)]
<1>1. n \in Nat /\ \A d \in 1 .. n : s[d] \in Nat
  BY ShapeFacts
<1>2. /\ Ints(RowMajor(s), n)
      /\ \A d \in 0 .. n : w[d] \in Nat
      /\ w[n] = 1
      /\ \A d \in 1 .. n : w[d - 1] = s[d] * w[d] /\ RowMajor(s)[d] = w[d]
  BY WeightsOfShape
<1>3. \A d \in 1 .. n : v[d] = IF d > stop THEN s[d] - 1 ELSE 0
  BY <1>1, ShapeFacts DEF Wrapped
<1>4. /\ Rest(v, RowMajor(s), n, n) = 0 /\ Rest(v, RowMajor(s), n, 0) = Dot(v, RowMajor(s))
      /\ \A j \in 0 .. n : Rest(v, RowMajor(s), n, j) \in Int
      /\ \A j \in 1 .. n : Rest(v, RowMajor(s), n, j - 1)
                             = v[j] * RowMajor(s)[j] + Rest(v, RowMajor(s), n, j)
  <2>1. n \in Nat /\ Vector(v, n) /\ Ints(RowMajor(s), n)
    BY <1>1, <1>2
  <2> HIDE DEF v, n
  <2> QED
    BY <2>1, RestFacts
<1>0. stop \in 0 .. n
  OBVIOUS
<1> HIDE DEF n, w, v
<1>5. /\ r[n] = 0 /\ r[0] = Dot(v, RowMajor(s))
      /\ \A j \in 0 .. n : r[j] \in Int
      /\ \A j \in 1 .. n : r[j - 1] = v[j] * w[j] + r[j]
  <2>1. \A j \in 1 .. n : j - 1 \in 0 .. n /\ j \in 0 .. n
    BY <1>1
  <2>2. n \in 0 .. n /\ 0 \in 0 .. n
    BY <1>1
  <2> QED
    BY <1>2, <1>4, <2>1, <2>2
<1> DEFINE G == {j \in 0 .. n : r[j] = IF j >= stop THEN w[j] - 1 ELSE w[stop] - 1}
<1> HIDE DEF r
<1>6. n \in G
  BY <1>0, <1>1, <1>2, <1>5
<1>7. ASSUME NEW j \in 1 .. n, j \in G PROVE j - 1 \in G
  <2>1. j - 1 \in 0 .. n /\ j \in 0 .. n
    BY <1>1
  <2>2. r[j] = IF j >= stop THEN w[j] - 1 ELSE w[stop] - 1
    BY <1>7
  <2> HIDE DEF G
  <2>3. /\ r[j - 1] = v[j] * w[j] + r[j] /\ w[j - 1] = s[j] * w[j]
        /\ v[j] = IF j > stop THEN s[j] - 1 ELSE 0
        /\ s[j] \in Int /\ w[j] \in Int /\ r[j] \in Int
    BY <1>1, <1>2, <1>3, <1>5, <2>1
  <2>4. CASE j > stop
    <3>0. ASSUME NEW a \in Int, NEW b \in Int PROVE (a - 1) * b = a * b - b /\ a * b \in Int
      OBVIOUS
    <3>1. (s[j] - 1) * w[j] = s[j] * w[j] - w[j] /\ s[j] * w[j] \in Int
      BY <2>3, <3>0
    <3>2. r[j - 1] = s[j] * w[j] - w[j] + (w[j] - 1)
      <4>1. j >= stop
        BY <1>0, <2>4
      <4> QED
        BY <2>2, <2>3, <2>4, <3>1, <4>1
    <3>3. r[j - 1] = w[j - 1] - 1
      BY <2>3, <3>1, <3>2
    <3>4. j - 1 >= stop
      BY <1>0, <2>4
    <3> QED
      BY <2>1, <3>3, <3>4 DEF G
  <2>5. CASE ~(j > stop)
    <3>1. 0 * w[j] + r[j] = r[j]
      BY <2>3
    <3>2. r[j - 1] = r[j]
      BY <2>3, <2>5, <3>1
    <3>3. ~(j - 1 >= stop) /\ (j >= stop => j = stop)
      BY <1>0, <2>5
    <3> QED
      BY <2>1, <2>2, <3>2, <3>3 DEF G
  <2> QED
    BY <2>4, <2>5
<1> HIDE DEF G
<1>8. \A j \in 0 .. n : j \in G
  BY <1>1, <1>6, <1>7, Downwards
<1>9. 0 \in G /\ (0 >= stop => stop = 0)
  BY <1>0, <1>1, <1>8
<1>10. r[0] = w[stop] - 1
  BY <1>9 DEF G
<1> QED
  BY <1>5, <1>10 DEF v, w

\* The odometer counts.
LEMMA TurnCounts ==
  ASSUME NEW s, Shape(s), NEW c, Within(c, s), NEW stop, Carries(c, s, stop)
  PROVE  IF stop = 0 THEN Flat(s, c) = Numel(s) - 1
         ELSE Flat(s, Turned(c, s, stop)) = Flat(s, c) + 1
<1> DEFINE n == Len(s)
           v == Wrapped(s, stop)
<1>1. stop \in 0 .. Len(s) /\ \A d \in stop + 1 .. Len(s) : c[d] = s[d] - 1
  BY DEF Carries
<1>2. Vector(v, n) /\ Vector(c, n) /\ n \in Nat /\ DOMAIN s = 1 .. n
  BY TurnFacts, WithinIsVector, ShapeFacts
<1>3. Ints(RowMajor(s), n) /\ Weight(s)[0] = Numel(s)
      /\ \A d \in 1 .. n : RowMajor(s)[d] = Weight(s)[d]
  BY WeightsOfShape
<1>4. Dot(v, RowMajor(s)) = Weight(s)[stop] - 1
  BY <1>1, <1>2, WrappedCounts
<1>5. CASE stop = 0
  <2>1. \A d \in 1 .. n : v[d] = c[d]
    BY <1>1, <1>2, <1>5 DEF Wrapped
  <2>2. \A d \in 1 .. n : c[d] * RowMajor(s)[d] = v[d] * RowMajor(s)[d]
    BY <2>1
  <2>3. Dot(c, RowMajor(s)) = Dot(v, RowMajor(s))
    BY <1>2, <1>3, <2>2, DotEqual
  <2> QED
    BY <1>3, <1>4, <1>5, <2>3 DEF Flat
<1>6. CASE stop # 0
  <2>1. stop \in 1 .. n /\ stop \in 0 .. n
    BY <1>1, <1>6
  <2>2. /\ Dot(Turned(c, s, stop), RowMajor(s))
             = Dot(c, RowMajor(s)) + RowMajor(s)[stop] - Dot(v, RowMajor(s))
        /\ Dot(c, RowMajor(s)) \in Int
    BY <1>3, <1>6, TurnDot
  <2>3. RowMajor(s)[stop] = Weight(s)[stop] /\ Weight(s)[stop] \in Nat
    BY <1>3, <2>1, WeightsOfShape
  <2> HIDE DEF v
  <2>4. Dot(Turned(c, s, stop), RowMajor(s)) = Dot(c, RowMajor(s)) + 1
    BY <1>4, <2>2, <2>3
  <2> QED
    BY <1>6, <2>4 DEF Flat
<1> QED
  BY <1>5, <1>6

-----------------------------------------------------------------------------
(* Sums in another order. *)

\* A sum does not depend on what its terms are numbered by.
LEMMA SumRenumbered ==
  ASSUME NEW S, IsFiniteSet(S), NEW R, IsFiniteSet(R), NEW f, NEW g, NEW p,
         \A x \in S : f[x] \in Int /\ p[x] \in R /\ g[p[x]] = f[x],
         \A x, y \in S : p[x] = p[y] => x = y
  PROVE  SumFunctionOnSet(f, S) = SumFunctionOnSet(g, {p[x] : x \in S})
<1> DEFINE Im(T) == {p[x] : x \in T}
           G == {T \in SUBSET S : SumFunctionOnSet(f, T) = SumFunctionOnSet(g, Im(T))}
<1>1. ASSUME NEW T \in SUBSET S, \A x \in T : T \ {x} \in G PROVE T \in G
  <2>1. IsFiniteSet(T) /\ \A x \in T : f[x] \in Int
    BY FS_Subset
  <2>2. IsFiniteSet(Im(T)) /\ \A y \in Im(T) : g[y] \in Int
    <3>1. Im(T) \in SUBSET R
      OBVIOUS
    <3> QED
      BY <3>1, FS_Subset
  <2>3. CASE T = {}
    <3>1. Im(T) = {}
      BY <2>3
    <3>2. SumFunctionOnSet(f, {}) = 0 /\ SumFunctionOnSet(g, {}) = 0
      BY <2>1, <2>2, SumFacts
    <3> QED
      BY <2>3, <3>1, <3>2
  <2>4. ASSUME NEW x \in T PROVE T \in G
    <3>1. SumFunctionOnSet(f, T) = f[x] + SumFunctionOnSet(f, T \ {x})
      BY <2>1, SumFacts
    <3>2. p[x] \in Im(T)
      OBVIOUS
    <3>3. Im(T) \ {p[x]} = Im(T \ {x})
      <4>1. \A y \in T \ {x} : p[y] # p[x]
        OBVIOUS
      <4> QED
        BY <4>1
    <3>4. g[p[x]] = f[x]
      OBVIOUS
    <3>5. SumFunctionOnSet(f, T \ {x}) = SumFunctionOnSet(g, Im(T \ {x}))
      BY <1>1
    <3> HIDE DEF Im, G
    <3>6. SumFunctionOnSet(g, Im(T)) = g[p[x]] + SumFunctionOnSet(g, Im(T) \ {p[x]})
      BY <2>2, <3>2, SumFacts
    <3>7. SumFunctionOnSet(f, T) = SumFunctionOnSet(g, Im(T))
      BY <3>1, <3>3, <3>4, <3>5, <3>6
    <3> QED
      BY <3>7 DEF G
  <2> QED
    BY <2>3, <2>4
<1> HIDE DEF G
<1>2. \A T \in SUBSET S : T \in G
  BY <1>1, FiniteInductive
<1>3. S \in G
  BY <1>2
<1> QED
  BY <1>3 DEF G

\* So one dot product is another if the dimensions that count correspond.
Renumbers(p, S, a, s, n, b, t, m) ==
  /\ S \in SUBSET (1 .. n)
  /\ \A d \in S : p[d] \in 1 .. m /\ b[p[d]] * t[p[d]] = a[d] * s[d]
  /\ \A d, e \in S : p[d] = p[e] => d = e
  /\ \A d \in (1 .. n) \ S : a[d] * s[d] = 0
  /\ \A e \in 1 .. m : (\A d \in S : p[d] # e) => b[e] * t[e] = 0

\* Then the products are those of the other, in another order.
LEMMA DotRenumbered ==
  ASSUME NEW n \in Nat, NEW a, NEW s, Vector(a, n), Ints(s, n),
         NEW m \in Nat, NEW b, NEW t, Vector(b, m), Ints(t, m),
         NEW S, NEW p, Renumbers(p, S, a, s, n, b, t, m)
  PROVE  Dot(a, s) = Dot(b, t)
<1> DEFINE f == Products(a, s)
           g == Products(b, t)
           Im == {p[d] : d \in S}
<1>1. /\ IsFiniteSet(1 .. n)
      /\ \A d \in 1 .. n : f[d] \in Int /\ f[d] = a[d] * s[d]
      /\ Dot(a, s) = SumFunctionOnSet(f, 1 .. n)
  BY ProductsFacts
<1>2. /\ IsFiniteSet(1 .. m)
      /\ \A d \in 1 .. m : g[d] \in Int /\ g[d] = b[d] * t[d]
      /\ Dot(b, t) = SumFunctionOnSet(g, 1 .. m)
  BY ProductsFacts
<1> HIDE DEF f, g
<1>3. SumFunctionOnSet(f, 1 .. n) = SumFunctionOnSet(f, S)
  <2>1. S \in SUBSET (1 .. n) /\ \A d \in (1 .. n) \ S : f[d] = 0
    BY <1>1 DEF Renumbers
  <2> QED
    BY <1>1, <2>1, SumSupport
<1>4. SumFunctionOnSet(g, 1 .. m) = SumFunctionOnSet(g, Im)
  <2>1. Im \in SUBSET (1 .. m)
    BY DEF Renumbers
  <2>2. ASSUME NEW e \in (1 .. m) \ Im PROVE g[e] = 0
    <3>1. \A d \in S : p[d] # e
      OBVIOUS
    <3>2. b[e] * t[e] = 0
      BY <3>1 DEF Renumbers
    <3> QED
      BY <1>2, <3>2
  <2> HIDE DEF Im
  <2> QED
    BY <1>2, <2>1, <2>2, SumSupport
<1>5. SumFunctionOnSet(f, S) = SumFunctionOnSet(g, Im)
  <2>1. IsFiniteSet(S)
    BY <1>1, FS_Subset DEF Renumbers
  <2>2. ASSUME NEW d \in S PROVE f[d] \in Int /\ p[d] \in 1 .. m /\ g[p[d]] = f[d]
    <3>1. d \in 1 .. n /\ p[d] \in 1 .. m /\ b[p[d]] * t[p[d]] = a[d] * s[d]
      BY DEF Renumbers
    <3> QED
      BY <1>1, <1>2, <3>1
  <2>3. \A d, e \in S : p[d] = p[e] => d = e
    BY DEF Renumbers
  <2> QED
    BY <1>2, <2>1, <2>2, <2>3, SumRenumbered
<1> QED
  BY <1>1, <1>2, <1>3, <1>4, <1>5

-----------------------------------------------------------------------------
(* Broadcasting. *)

\* The first m dimensions of a result, and the operand stretched along them:
\* where the operand is 1 there is a single element, and behind the m
\* dimensions the first.
Along(in, out, m) ==
  /\ Len(in) <= Len(out) /\ m \in 0 .. Len(out)
  /\ \A d \in 1 .. m : d > Len(out) - Len(in)
                         => in[d - (Len(out) - Len(in))] \in {1, out[d]}

Folded(in, shift, m, x) ==
  [e \in 1 .. Len(in) |-> IF e + shift > m \/ in[e] = 1 THEN 0 ELSE x[e + shift]]

\* kernels_ref.c:65-84: a stride of 0 repeats the single element of an operand.
LEMMA StretchedDot ==
  ASSUME NEW in, Shape(in), NEW out, Shape(out), NEW m, Along(in, out, m),
         NEW x, DOMAIN x = 1 .. m, \A d \in 1 .. m : x[d] \in 0 .. out[d] - 1
  PROVE  /\ Within(Folded(in, Len(out) - Len(in), m, x), in)
         /\ Ints(BcastStrides(in, out), Len(out))
         /\ Dot(x, BcastStrides(in, out)) = Flat(in, Folded(in, Len(out) - Len(in), m, x))
<1> DEFINE n == Len(in)
           shift == Len(out) - Len(in)
           y == Folded(in, shift, m, x)
           s == BcastStrides(in, out)
           w == RowMajor(in)
<1>1. /\ n \in Nat /\ \A d \in 1 .. n : in[d] \in Nat /\ in[d] > 0
      /\ DOMAIN in = 1 .. n
  BY ShapeFacts
<1>2. /\ Len(out) \in Nat /\ \A d \in 1 .. Len(out) : out[d] \in Nat /\ out[d] > 0
      /\ DOMAIN out = 1 .. Len(out)
  BY ShapeFacts
<1>3. n <= Len(out) /\ m \in 0 .. Len(out)
      /\ \A d \in 1 .. m : d > shift => in[d - shift] \in {1, out[d]}
  BY DEF Along
<1>4. Ints(w, n)
  BY WeightsOfShape
<1>5. shift \in Nat /\ Len(out) = n + shift
  BY <1>1, <1>2, <1>3
<1>6. \A d \in 1 .. Len(out) :
        s[d] = IF d > shift /\ in[d - shift] = out[d] THEN w[d - shift] ELSE 0
  <2> SUFFICES ASSUME NEW d \in 1 .. Len(out)
               PROVE s[d] = IF d > shift /\ in[d - shift] = out[d] THEN w[d - shift] ELSE 0
    OBVIOUS
  <2>1. s[d] = IF d > shift /\ in[d - shift] = out[d] /\ out[d] > 0 THEN w[d - shift] ELSE 0
    BY <1>2 DEF BcastStrides
  <2> QED
    BY <1>2, <2>1
<1>7. \A e \in 1 .. n : y[e] = IF e + shift > m \/ in[e] = 1 THEN 0 ELSE x[e + shift]
  BY DEF Folded
<1>8. DOMAIN y = 1 .. n
  BY DEF Folded
<1> HIDE DEF n, shift, y, s, w
<1>9. Ints(s, Len(out))
  <2> SUFFICES ASSUME NEW d \in 1 .. Len(out) PROVE s[d] \in Int
    BY DEF Ints
  <2>0. d \in Int /\ d <= n + shift /\ n \in Int /\ shift \in Int
    BY <1>1, <1>5
  <2>1. d > shift => d - shift \in 1 .. n
    BY <2>0
  <2>2. d > shift => w[d - shift] \in Int
    BY <1>4, <2>1 DEF Ints
  <2> QED
    BY <1>6, <2>2
<1>10. ASSUME NEW e \in 1 .. n PROVE y[e] \in 0 .. in[e] - 1
  <2>1. in[e] \in Nat /\ in[e] > 0
    BY <1>1
  <2>2. CASE e + shift > m \/ in[e] = 1
    BY <1>7, <2>1, <2>2
  <2>3. CASE ~(e + shift > m \/ in[e] = 1)
    <3>1. e + shift \in 1 .. m /\ e + shift > shift /\ (e + shift) - shift = e
      BY <1>3, <1>5, <2>3
    <3>2. in[e] = out[e + shift] /\ x[e + shift] \in 0 .. out[e + shift] - 1
      BY <1>3, <2>3, <3>1
    <3> QED
      BY <1>7, <2>3, <3>2
  <2> QED
    BY <2>2, <2>3
<1>11. Within(y, in)
  BY <1>8, <1>10 DEF Within, n
<1>12. Vector(y, n) /\ Vector(x, m) /\ Ints(s, m)
  <2>1. Vector(y, n)
    BY <1>11, WithinIsVector DEF n
  <2>2. Vector(x, m)
    <3> SUFFICES ASSUME NEW d \in 1 .. m PROVE x[d] \in Int
      BY DEF Vector
    <3>1. d \in 1 .. Len(out)
      BY <1>2, <1>3
    <3> QED
      BY <1>2, <3>1
  <2>3. Ints(s, m)
    BY <1>2, <1>3, <1>9 DEF Ints
  <2> QED
    BY <2>1, <2>2, <2>3
<1> DEFINE S == {d \in 1 .. m : d > shift /\ in[d - shift] # 1}
           p == [d \in 1 .. m |-> d - shift]
<1>13. m \in Nat
  BY <1>2, <1>3
<1>14. ASSUME NEW d \in S PROVE p[d] \in 1 .. n /\ y[p[d]] * w[p[d]] = x[d] * s[d]
  <2>0. d \in 1 .. m /\ d > shift /\ in[d - shift] # 1 /\ p[d] = d - shift
    OBVIOUS
  <2> HIDE DEF S, p
  <2>1. /\ d \in 1 .. m /\ d > shift /\ in[d - shift] # 1 /\ p[d] = d - shift
        /\ d \in 1 .. Len(out) /\ d - shift \in 1 .. n /\ (d - shift) + shift = d
    BY <1>1, <1>3, <1>5, <1>13, <2>0
  <2> HIDE DEF p
  <2>2. in[d - shift] = out[d]
    BY <1>3, <2>1
  <2>3. s[d] = w[d - shift] /\ y[d - shift] = x[d]
    <3>1. ~(d > m)
      BY <1>13, <2>1
    <3> QED
      BY <1>6, <1>7, <2>1, <2>2, <3>1
  <2> QED
    BY <2>1, <2>3
<1>15. \A d, e \in S : p[d] = p[e] => d = e
  BY <1>5
<1>16. ASSUME NEW d \in (1 .. m) \ S PROVE x[d] * s[d] = 0
  <2>0. d \in 1 .. m /\ d \in 1 .. Len(out) /\ ~(d > shift /\ in[d - shift] # 1)
    BY <1>2, <1>3
  <2>1. x[d] \in 0 .. out[d] - 1 /\ s[d] \in Int /\ out[d] \in Nat
    BY <1>2, <1>9, <2>0 DEF Ints
  <2>2. x[d] = 0 \/ s[d] = 0
    <3>1. CASE ~(d > shift)
      BY <1>6, <2>0, <3>1
    <3>2. CASE d > shift /\ in[d - shift] = 1 /\ out[d] # 1
      BY <1>6, <2>0, <3>2
    <3>3. CASE out[d] = 1
      BY <2>1, <3>3
    <3> QED
      BY <2>0, <3>1, <3>2, <3>3
  <2>3. x[d] \in Int
    BY <2>1
  <2>4. ASSUME NEW u \in Int, NEW v \in Int, u = 0 \/ v = 0 PROVE u * v = 0
    BY <2>4
  <2> QED
    BY <2>1, <2>2, <2>3, <2>4
<1>17. ASSUME NEW e \in 1 .. n, \A d \in S : p[d] # e PROVE y[e] * w[e] = 0
  <2>1. y[e] = 0
    <3>1. CASE e + shift > m \/ in[e] = 1
      BY <1>7, <3>1
    <3>2. CASE ~(e + shift > m \/ in[e] = 1)
      <4>1. e + shift \in 1 .. m /\ e + shift > shift /\ (e + shift) - shift = e
        BY <1>3, <1>5, <3>2
      <4>2. e + shift \in S /\ p[e + shift] = e
        BY <3>2, <4>1
      <4> QED
        BY <1>17, <4>2
    <3> QED
      BY <3>1, <3>2
  <2>2. w[e] \in Int
    BY <1>4 DEF Ints
  <2>3. 0 * w[e] = 0
    BY <2>2
  <2> QED
    BY <2>1, <2>3
<1>18. S \in SUBSET (1 .. m)
  OBVIOUS
<1> HIDE DEF S, p
<1>20. Renumbers(p, S, x, s, m, y, w, n)
  BY <1>14, <1>15, <1>16, <1>17, <1>18 DEF Renumbers
<1>19. Dot(x, s) = Dot(y, w)
  BY <1>1, <1>4, <1>12, <1>13, <1>20, DotRenumbered
<1> QED
  BY <1>9, <1>11, <1>19 DEF Flat, n, shift, y, s, w

-----------------------------------------------------------------------------
(* The walks of the kernels. *)

\* The offsets at coordinates x.
Offset(c, x) == [k \in DOMAIN Strides(c) |-> Origin(c)[k] + Dot(x, Strides(c)[k])]

\* What they index.
Indexed(c, k) == IF c.kernel = "ReduceMean" THEN c.out ELSE c.ins[k]

WalksOver(c) ==
  /\ Shape(Walked(c)) /\ DOMAIN Origin(c) = DOMAIN Strides(c)
  /\ \A k \in DOMAIN Strides(c) : Ints(Strides(c)[k], Len(Walked(c))) /\ Origin(c)[k] \in Int

StaysInside(c) ==
  \A x : Within(x, Walked(c)) =>
    \A k \in DOMAIN Strides(c) : Offset(c, x)[k] \in 0 .. Numel(Indexed(c, k)) - 1

\* A call has shapes, and an operand.
LEMMA CallFacts ==
  ASSUME NEW c, IsCall(c)
  PROVE  /\ Shape(c.out) /\ Len(c.ins) \in Nat /\ Len(c.ins) > 0 /\ DOMAIN c.ins = 1 .. Len(c.ins)
         /\ \A k \in 1 .. Len(c.ins) : Shape(c.ins[k])
         /\ Shape(c.ins[1])
<1>1. c.out \in Seq(Positive) /\ c.ins \in Seq(Seq(Positive)) /\ c.ins # << >>
  BY DEF IsCall
<1>2. Len(c.ins) \in Nat /\ DOMAIN c.ins = 1 .. Len(c.ins) /\ Len(c.ins) > 0
  BY <1>1
<1>3. \A k \in 1 .. Len(c.ins) : c.ins[k] \in Seq(Positive)
  BY <1>1, ElementOf
<1>4. 1 \in 1 .. Len(c.ins)
  BY <1>2
<1> QED
  BY <1>1, <1>2, <1>3, <1>4 DEF Shape

\* The first elements of a sequence.
LEMMA Prefix ==
  ASSUME NEW T, NEW s \in Seq(T), NEW m \in 0 .. Len(s)
  PROVE  SubSeq(s, 1, m) \in Seq(T) /\ Len(SubSeq(s, 1, m)) = m
         /\ \A d \in 1 .. m : SubSeq(s, 1, m)[d] = s[d]
OBVIOUS

\* The batch dimensions are all but the last two.
LEMMA BatchFacts ==
  ASSUME NEW s, Shape(s), Len(s) >= 2
  PROVE  /\ Shape(BatchShape(s)) /\ Len(BatchShape(s)) = Len(s) - 2
         /\ \A d \in 1 .. Len(s) - 2 : BatchShape(s)[d] = s[d]
<1>1. s \in Seq(Positive) /\ Len(s) \in Nat
  BY ShapeFacts DEF Shape
<1> DEFINE b == SubSeq(s, 1, Len(s) - 2)
<1>3. Len(s) - 2 \in 0 .. Len(s)
  BY <1>1
<1>2. b \in Seq(Positive) /\ Len(b) = Len(s) - 2 /\ \A d \in 1 .. Len(s) - 2 : b[d] = s[d]
  BY <1>1, <1>3, Prefix
<1> QED
  BY <1>2 DEF BatchShape, Shape

\* What ONNX lets an operand be stretched to, in the numbering from behind.
LEMMA StretchesAlong ==
  ASSUME NEW in, Shape(in), NEW out, Shape(out), Stretches(in, out)
  PROVE  Along(in, out, Len(out))
<1>1. Len(in) \in Nat /\ DOMAIN in = 1 .. Len(in) /\ Len(out) \in Nat
  BY ShapeFacts
<1>2. /\ Len(in) <= Len(out)
      /\ \A d \in 1 .. Len(in) : in[d] \in {1, out[d + Len(out) - Len(in)]}
  BY <1>1 DEF Stretches
<1>3. ASSUME NEW d \in 1 .. Len(out), d > Len(out) - Len(in)
      PROVE  in[d - (Len(out) - Len(in))] \in {1, out[d]}
  <2> DEFINE e == d - (Len(out) - Len(in))
  <2>1. e \in 1 .. Len(in) /\ e + Len(out) - Len(in) = d
    BY <1>1, <1>2, <1>3
  <2> HIDE DEF e
  <2>2. in[e] \in {1, out[d]}
    BY <1>2, <2>1
  <2> QED
    BY <2>2 DEF e
<1> QED
  BY <1>1, <1>2, <1>3 DEF Along

\* The same for the batch dimensions of a matrix product.
LEMMA BatchAlong ==
  ASSUME NEW in, Shape(in), NEW out, Shape(out), Len(in) >= 2, Len(out) >= 2,
         Stretches(BatchShape(in), BatchShape(out))
  PROVE  Along(in, out, Len(out) - 2)
<1>1. Len(in) \in Nat /\ Len(out) \in Nat
  BY ShapeFacts
<1>2. /\ Shape(BatchShape(in)) /\ Len(BatchShape(in)) = Len(in) - 2
      /\ \A d \in 1 .. Len(in) - 2 : BatchShape(in)[d] = in[d]
  BY BatchFacts
<1>3. /\ Shape(BatchShape(out)) /\ Len(BatchShape(out)) = Len(out) - 2
      /\ \A d \in 1 .. Len(out) - 2 : BatchShape(out)[d] = out[d]
  BY BatchFacts
<1> DEFINE m == Len(out) - 2
           l == Len(in) - 2
<1>4. Along(BatchShape(in), BatchShape(out), m)
  BY <1>2, <1>3, StretchesAlong
<1>5. m - l = Len(out) - Len(in) /\ l \in Nat /\ m \in Nat
  BY <1>1
<1>6. /\ l <= m /\ m \in 0 .. m
      /\ \A d \in 1 .. m : d > m - l => BatchShape(in)[d - (m - l)] \in {1, BatchShape(out)[d]}
  BY <1>2, <1>3, <1>4 DEF Along
<1>7. ASSUME NEW d \in 1 .. m, d > Len(out) - Len(in)
      PROVE  in[d - (Len(out) - Len(in))] \in {1, out[d]}
  <2> DEFINE e == d - (m - l)
  <2>1. e \in 1 .. l /\ e = d - (Len(out) - Len(in))
    BY <1>1, <1>6, <1>7
  <2>2. BatchShape(in)[e] \in {1, BatchShape(out)[d]}
    BY <1>5, <1>6, <1>7
  <2> HIDE DEF e
  <2>3. BatchShape(in)[e] = in[e] /\ BatchShape(out)[d] = out[d]
    BY <1>2, <1>3, <2>1
  <2> QED
    BY <2>1, <2>2, <2>3
<1>8. Len(in) <= Len(out) /\ m \in 0 .. Len(out)
  BY <1>1, <1>6
<1> QED
  BY <1>7, <1>8 DEF Along

\* Both operands of a broadcasting or batched kernel are stretched along its walk.
LEMMA TwoOperands ==
  ASSUME NEW c, IsCall(c), c.kernel \in Broadcasting \cup Batched
  PROVE  /\ Shape(Walked(c))
         /\ \A k \in {1, 2} : Shape(c.ins[k]) /\ Along(c.ins[k], c.out, Len(Walked(c)))
         /\ \A d \in 1 .. Len(Walked(c)) : Walked(c)[d] = c.out[d]
         /\ Strides(c) = [k \in 1 .. 2 |-> BcastStrides(c.ins[k], c.out)]
         /\ DOMAIN Strides(c) = 1 .. 2 /\ DOMAIN Origin(c) = 1 .. 2
         /\ \A k \in 1 .. 2 : Origin(c)[k] = 0
<1>1. Shape(c.out) /\ Len(c.ins) \in Nat /\ \A k \in 1 .. Len(c.ins) : Shape(c.ins[k])
  BY CallFacts
<1>2. /\ Strides(c) = [k \in 1 .. 2 |-> BcastStrides(c.ins[k], c.out)]
      /\ Origin(c) = [k \in DOMAIN Strides(c) |-> 0]
  BY DEF Strides, Origin, Broadcasting, Batched
<1>3. DOMAIN Strides(c) = 1 .. 2 /\ DOMAIN Origin(c) = 1 .. 2 /\ \A k \in 1 .. 2 : Origin(c)[k] = 0
  BY <1>2
<1>4. CASE c.kernel \in Broadcasting
  <2>1. Len(c.ins) = 2 /\ Stretches(c.ins[1], c.out) /\ Stretches(c.ins[2], c.out)
    BY <1>4 DEF IsCall, Broadcasting
  <2>2. Walked(c) = c.out
    BY <1>4 DEF Walked, Broadcasting, Batched
  <2>3. \A k \in {1, 2} : Shape(c.ins[k]) /\ Stretches(c.ins[k], c.out)
    BY <1>1, <2>1
  <2>4. \A k \in {1, 2} : Along(c.ins[k], c.out, Len(c.out))
    BY <1>1, <2>3, StretchesAlong
  <2> QED
    BY <1>1, <1>2, <1>3, <2>2, <2>3, <2>4
<1>5. CASE c.kernel \in Batched
  <2>1. Len(c.ins) \in {2, 3} /\ Multiplies(c.ins[1], c.ins[2], c.out)
    BY <1>5 DEF IsCall, Batched, Broadcasting
  <2>2. Walked(c) = BatchShape(c.out)
    BY <1>5 DEF Walked
  <2>3. Shape(c.ins[1]) /\ Shape(c.ins[2])
    BY <1>1, <2>1
  <2>4. /\ Len(c.ins[1]) >= 2 /\ Len(c.ins[2]) >= 2 /\ Len(c.out) >= 2
        /\ Stretches(BatchShape(c.ins[1]), BatchShape(c.out))
        /\ Stretches(BatchShape(c.ins[2]), BatchShape(c.out))
    BY <2>1 DEF Multiplies
  <2>5. /\ Shape(BatchShape(c.out)) /\ Len(BatchShape(c.out)) = Len(c.out) - 2
        /\ \A d \in 1 .. Len(c.out) - 2 : BatchShape(c.out)[d] = c.out[d]
    BY <1>1, <2>4, BatchFacts
  <2>6. Along(c.ins[1], c.out, Len(c.out) - 2) /\ Along(c.ins[2], c.out, Len(c.out) - 2)
    BY <1>1, <2>3, <2>4, BatchAlong
  <2> QED
    BY <1>2, <1>3, <2>2, <2>3, <2>5, <2>6
<1> QED
  BY <1>4, <1>5

\* kernels_ref.c:87-119, 315-403: such kernels stay inside their operands.
LEMMA TwoOperandsWalk ==
  ASSUME NEW c, IsCall(c), c.kernel \in Broadcasting \cup Batched
  PROVE  WalksOver(c) /\ StaysInside(c)
<1> DEFINE s == Walked(c)
<1>1. /\ Shape(s)
      /\ \A k \in {1, 2} : Shape(c.ins[k]) /\ Along(c.ins[k], c.out, Len(s))
      /\ \A d \in 1 .. Len(s) : s[d] = c.out[d]
      /\ Strides(c) = [k \in 1 .. 2 |-> BcastStrides(c.ins[k], c.out)]
      /\ DOMAIN Strides(c) = 1 .. 2 /\ DOMAIN Origin(c) = 1 .. 2
      /\ \A k \in 1 .. 2 : Origin(c)[k] = 0
  BY TwoOperands
<1>2. Shape(c.out)
  BY CallFacts
<1> HIDE DEF s
<1>3. ASSUME NEW x, Within(x, s), NEW k \in 1 .. 2
      PROVE  /\ Ints(BcastStrides(c.ins[k], c.out), Len(c.out))
             /\ Dot(x, BcastStrides(c.ins[k], c.out)) \in 0 .. Numel(c.ins[k]) - 1
  <2>1. Shape(c.ins[k]) /\ Along(c.ins[k], c.out, Len(s))
    BY <1>1
  <2>2. DOMAIN x = 1 .. Len(s) /\ \A d \in 1 .. Len(s) : x[d] \in 0 .. c.out[d] - 1
    BY <1>1, <1>3 DEF Within
  <2> DEFINE y == Folded(c.ins[k], Len(c.out) - Len(c.ins[k]), Len(s), x)
  <2>3. /\ Within(y, c.ins[k])
        /\ Ints(BcastStrides(c.ins[k], c.out), Len(c.out))
        /\ Dot(x, BcastStrides(c.ins[k], c.out)) = Flat(c.ins[k], y)
    BY <1>2, <2>1, <2>2, StretchedDot
  <2>4. Flat(c.ins[k], y) \in 0 .. Numel(c.ins[k]) - 1
    BY <2>1, <2>3, FlatInRange
  <2> QED
    BY <2>3, <2>4
<1>4. ASSUME NEW k \in 1 .. 2 PROVE Ints(Strides(c)[k], Len(s)) /\ Origin(c)[k] \in Int
  <2>1. Len(s) \in Nat /\ Len(c.out) \in Nat /\ Along(c.ins[k], c.out, Len(s))
    BY <1>1, <1>2, ShapeFacts
  <2>2. Len(s) <= Len(c.out)
    BY <2>1 DEF Along
  <2> DEFINE x == [d \in 1 .. Len(s) |-> 0]
  <2>3. Within(x, s)
    <3>1. \A d \in 1 .. Len(s) : s[d] \in Nat /\ s[d] > 0
      BY <1>1, ShapeFacts
    <3>2. \A d \in 1 .. Len(s) : 0 \in 0 .. s[d] - 1
      BY <3>1
    <3> QED
      BY <3>2 DEF Within
  <2>4. Ints(BcastStrides(c.ins[k], c.out), Len(c.out))
    BY <1>3, <2>3
  <2>5. Ints(BcastStrides(c.ins[k], c.out), Len(s))
    BY <2>1, <2>2, <2>4 DEF Ints
  <2> QED
    BY <1>1, <2>5
<1>5. WalksOver(c)
  BY <1>1, <1>4 DEF WalksOver, s
<1>6. ASSUME NEW x, Within(x, s), NEW k \in 1 .. 2
      PROVE  Offset(c, x)[k] \in 0 .. Numel(Indexed(c, k)) - 1
  <2>1. Indexed(c, k) = c.ins[k]
    BY DEF Indexed, Broadcasting, Batched
  <2>2. Offset(c, x)[k] = 0 + Dot(x, BcastStrides(c.ins[k], c.out))
    BY <1>1 DEF Offset
  <2>3. Dot(x, BcastStrides(c.ins[k], c.out)) \in 0 .. Numel(c.ins[k]) - 1
    BY <1>3, <1>6
  <2>4. Offset(c, x)[k] = Dot(x, BcastStrides(c.ins[k], c.out))
    BY <2>2, <2>3
  <2> QED
    BY <2>1, <2>3, <2>4
<1>7. StaysInside(c)
  BY <1>1, <1>6 DEF StaysInside, s
<1> QED
  BY <1>5, <1>7

-----------------------------------------------------------------------------
(* Transpose. *)

\* What is needed of a permutation p of the dimensions of in, numbered from 1.
Permutes(c, p) ==
  /\ Walked(c) = c.out /\ DOMAIN c.out = 1 .. Len(c.ins[1]) /\ Len(c.out) = Len(c.ins[1])
  /\ \A d \in 1 .. Len(c.ins[1]) :
       /\ p[d] \in 1 .. Len(c.ins[1]) /\ p[d] = Perm(c)[d] + 1
       /\ c.out[d] = c.ins[1][p[d]]
       /\ Strides(c)[1][d] = RowMajor(c.ins[1])[p[d]]
  /\ \A d, e \in 1 .. Len(c.ins[1]) : p[d] = p[e] => d = e
  /\ \A e \in 1 .. Len(c.ins[1]) : \E d \in 1 .. Len(c.ins[1]) : p[d] = e
  /\ DOMAIN Strides(c) = 1 .. 1 /\ DOMAIN Origin(c) = 1 .. 1 /\ Origin(c)[1] = 0

\* What Transpose is called with is one.
LEMMA TransposeFacts ==
  ASSUME NEW c, IsCall(c), c.kernel = "Transpose"
  PROVE  \E p : Permutes(c, p)
<1> DEFINE in == c.ins[1]
           n == Len(in)
           p == [d \in 1 .. n |-> Perm(c)[d] + 1]
<1>1. /\ Shape(c.out) /\ Shape(in)
      /\ DOMAIN c.out = 1 .. Len(c.out) /\ DOMAIN in = 1 .. n /\ n \in Nat
  BY CallFacts, ShapeFacts
<1>2. IsTranspose(c)
  BY DEF IsCall, Broadcasting
<1> HIDE DEF n, in
<1>3. /\ Perm(c) \in [1 .. n -> {d - 1 : d \in 1 .. n}]
      /\ \A d, e \in 1 .. n : Perm(c)[d] = Perm(c)[e] => d = e
      /\ \A e \in 1 .. n : \E d \in 1 .. n : Perm(c)[d] = e - 1
      /\ c.out = [d \in 1 .. n |-> in[Perm(c)[d] + 1]]
  BY <1>1, <1>2 DEF IsTranspose, in
<1>0. ASSUME NEW d \in 1 .. n PROVE \E e \in 1 .. n : Perm(c)[d] = e - 1
  <2>1. Perm(c)[d] \in {e - 1 : e \in 1 .. n}
    BY <1>3
  <2> QED
    BY <2>1
<1>4. ASSUME NEW d \in 1 .. n PROVE p[d] \in 1 .. n /\ p[d] = Perm(c)[d] + 1
  <2>1. PICK e \in 1 .. n : Perm(c)[d] = e - 1
    BY <1>0
  <2> QED
    BY <2>1
<1>5. DOMAIN c.out = 1 .. n /\ Len(c.out) = n
  <2>1. DOMAIN c.out = 1 .. n
    BY <1>3
  <2>2. Len(c.out) \in Nat /\ 1 .. Len(c.out) = 1 .. n
    BY <1>1, <2>1, ShapeFacts
  <2> QED
    BY <1>1, <2>1, <2>2
<1>6. Strides(c) = <<[d \in 1 .. n |-> RowMajor(in)[Perm(c)[d] + 1]]>>
  BY <1>5 DEF Strides, Broadcasting, Batched, in
<1>7. Strides(c)[1] = [d \in 1 .. n |-> RowMajor(in)[Perm(c)[d] + 1]] /\ DOMAIN Strides(c) = 1 .. 1
  BY <1>6
<1>8. Origin(c) = [k \in DOMAIN Strides(c) |-> 0]
  BY DEF Origin
<1>9. \A d, e \in 1 .. n : p[d] = p[e] => d = e
  <2> SUFFICES ASSUME NEW d \in 1 .. n, NEW e \in 1 .. n, p[d] = p[e] PROVE d = e
    OBVIOUS
  <2>1. PICK a \in 1 .. n : Perm(c)[d] = a - 1
    BY <1>0
  <2>2. PICK b \in 1 .. n : Perm(c)[e] = b - 1
    BY <1>0
  <2>3. Perm(c)[d] = Perm(c)[e]
    BY <2>1, <2>2
  <2> QED
    BY <1>3, <2>3
<1>10. \A e \in 1 .. n : \E d \in 1 .. n : p[d] = e
  <2> SUFFICES ASSUME NEW e \in 1 .. n PROVE \E d \in 1 .. n : p[d] = e
    OBVIOUS
  <2>1. PICK d \in 1 .. n : Perm(c)[d] = e - 1
    BY <1>3
  <2>2. p[d] = e
    BY <2>1
  <2> QED
    BY <2>2
<1>11. Walked(c) = c.out
  BY DEF Walked, Batched
<1>12. \A d \in 1 .. n : c.out[d] = in[p[d]] /\ Strides(c)[1][d] = RowMajor(in)[p[d]]
  BY <1>3, <1>4, <1>7
<1>14. DOMAIN Origin(c) = 1 .. 1 /\ Origin(c)[1] = 0
  BY <1>7, <1>8
<1> HIDE DEF p
<1>13. Permutes(c, p)
  BY <1>4, <1>5, <1>7, <1>9, <1>10, <1>11, <1>12, <1>14 DEF Permutes, n, in
<1> QED
  BY <1>13

\* The input coordinates of a result element, and their offset.
LEMMA TransposeDot ==
  ASSUME NEW c, IsCall(c), NEW p, Permutes(c, p), NEW x, Within(x, c.out),
         NEW z, Within(z, c.ins[1]), \A d \in 1 .. Len(c.ins[1]) : z[p[d]] = x[d]
  PROVE  /\ Ints(Strides(c)[1], Len(c.out))
         /\ Dot(x, Strides(c)[1]) = Flat(c.ins[1], z)
<1> DEFINE in == c.ins[1]
           n == Len(in)
           s == Strides(c)[1]
           w == RowMajor(in)
<1>1. Shape(in) /\ Shape(c.out) /\ n \in Nat
  BY CallFacts, ShapeFacts
<1>2. Ints(w, n) /\ Vector(z, n) /\ Vector(x, Len(c.out))
  BY <1>1, WeightsOfShape, WithinIsVector
<1>3. /\ Len(c.out) = n
      /\ \A d \in 1 .. n : p[d] \in 1 .. n /\ s[d] = w[p[d]]
      /\ \A d, e \in 1 .. n : p[d] = p[e] => d = e
      /\ \A e \in 1 .. n : \E d \in 1 .. n : p[d] = e
  BY DEF Permutes
<1>4. Ints(s, n)
  BY <1>2, <1>3 DEF Ints
<1>5. Renumbers(p, 1 .. n, x, s, n, z, w, n)
  BY <1>3 DEF Renumbers
<1> HIDE DEF in, n, s, w
<1>6. Dot(x, s) = Dot(z, w)
  BY <1>1, <1>2, <1>3, <1>4, <1>5, DotRenumbered
<1> QED
  BY <1>3, <1>4, <1>6 DEF Flat, in, n, s, w

\* Every element of the result is an element of the operand.
LEMMA TransposeBack ==
  ASSUME NEW c, IsCall(c), NEW p, Permutes(c, p), NEW x, Within(x, c.out)
  PROVE  \E z \in Coords(c.ins[1]) : \A d \in 1 .. Len(c.ins[1]) : z[p[d]] = x[d]
<1> DEFINE in == c.ins[1]
           n == Len(in)
           inv == [e \in 1 .. n |-> CHOOSE d \in 1 .. n : p[d] = e]
           z == [e \in 1 .. n |-> x[inv[e]]]
<1>1. Shape(in) /\ n \in Nat
  BY CallFacts, ShapeFacts
<1>2. /\ Len(c.out) = n
      /\ \A d \in 1 .. n : p[d] \in 1 .. n /\ c.out[d] = in[p[d]]
      /\ \A d, e \in 1 .. n : p[d] = p[e] => d = e
      /\ \A e \in 1 .. n : \E d \in 1 .. n : p[d] = e
  BY DEF Permutes
<1>3. \A e \in 1 .. n : inv[e] \in 1 .. n /\ p[inv[e]] = e
  BY <1>2
<1> HIDE DEF inv, in, n
<1>4. ASSUME NEW d \in 1 .. n PROVE inv[p[d]] = d
  <2>1. p[d] \in 1 .. n
    BY <1>2
  <2>2. inv[p[d]] \in 1 .. n /\ p[inv[p[d]]] = p[d]
    BY <1>3, <2>1
  <2> QED
    BY <1>2, <2>2
<1>5. \A d \in 1 .. n : x[d] \in 0 .. c.out[d] - 1
  BY <1>2 DEF Within
<1>6. ASSUME NEW e \in 1 .. n PROVE x[inv[e]] \in 0 .. in[e] - 1
  <2>1. inv[e] \in 1 .. n /\ p[inv[e]] = e
    BY <1>3
  <2>3. c.out[inv[e]] = in[p[inv[e]]]
    BY <1>2, <2>1
  <2>2. c.out[inv[e]] = in[e]
    BY <2>1, <2>3
  <2> QED
    BY <1>5, <2>1, <2>2
<1>7. Within(z, in)
  BY <1>6 DEF Within, n
<1> DEFINE xi == [e \in 1 .. n |-> x[inv[e]]]
<1>8. z = [e \in 1 .. n |-> xi[e]]
  OBVIOUS
<1>9. z \in Coords(in)
  <2> HIDE DEF xi
  <2>1. Within([d \in 1 .. Len(in) |-> xi[d]], in)
    BY <1>7, <1>8 DEF n
  <2>2. [d \in 1 .. Len(in) |-> xi[d]] \in Coords(in)
    BY <1>1, <2>1, CoordsFacts
  <2> QED
    BY <1>8, <2>2 DEF n
<1>10. \A d \in 1 .. n : z[p[d]] = x[d]
  BY <1>2, <1>4
<1> QED
  BY <1>9, <1>10 DEF n, in

\* Transpose stays inside its operand.
LEMMA TransposeWalks ==
  ASSUME NEW c, IsCall(c), c.kernel = "Transpose"
  PROVE  WalksOver(c) /\ StaysInside(c)
<1>1. PICK p : Permutes(c, p)
  BY TransposeFacts
<1>2. Shape(c.out) /\ Shape(c.ins[1])
  BY CallFacts
<1>3. Walked(c) = c.out /\ DOMAIN Strides(c) = 1 .. 1 /\ DOMAIN Origin(c) = 1 .. 1 /\ Origin(c)[1] = 0
  BY <1>1 DEF Permutes
<1>4. ASSUME NEW x, Within(x, c.out)
      PROVE  Ints(Strides(c)[1], Len(c.out)) /\ Dot(x, Strides(c)[1]) \in 0 .. Numel(c.ins[1]) - 1
  <2>1. PICK z \in Coords(c.ins[1]) : \A d \in 1 .. Len(c.ins[1]) : z[p[d]] = x[d]
    BY <1>1, <1>4, TransposeBack
  <2>2. Within(z, c.ins[1])
    BY <1>2, CoordsFacts
  <2>3. /\ Ints(Strides(c)[1], Len(c.out))
        /\ Dot(x, Strides(c)[1]) = Flat(c.ins[1], z)
    BY <1>1, <1>4, <2>1, <2>2, TransposeDot
  <2> QED
    BY <1>2, <2>2, <2>3, FlatInRange
<1>5. Within([d \in 1 .. Len(c.out) |-> 0], c.out)
  <2>1. \A d \in 1 .. Len(c.out) : c.out[d] \in Nat /\ c.out[d] > 0
    BY <1>2, ShapeFacts
  <2>2. \A d \in 1 .. Len(c.out) : 0 \in 0 .. c.out[d] - 1
    BY <2>1
  <2> QED
    BY <2>2 DEF Within
<1>6. Ints(Strides(c)[1], Len(c.out))
  BY <1>4, <1>5
<1>7. WalksOver(c)
  BY <1>2, <1>3, <1>6 DEF WalksOver
<1>8. ASSUME NEW x, Within(x, c.out) PROVE Offset(c, x)[1] \in 0 .. Numel(Indexed(c, 1)) - 1
  <2>1. Dot(x, Strides(c)[1]) \in 0 .. Numel(c.ins[1]) - 1
    BY <1>4, <1>8
  <2>2. Offset(c, x)[1] = 0 + Dot(x, Strides(c)[1])
    BY <1>3 DEF Offset
  <2>3. Offset(c, x)[1] = Dot(x, Strides(c)[1])
    BY <2>1, <2>2
  <2> QED
    BY <2>1, <2>3 DEF Indexed
<1>9. StaysInside(c)
  BY <1>3, <1>8 DEF StaysInside
<1> QED
  BY <1>7, <1>9

-----------------------------------------------------------------------------
(* Slice. *)

\* An int64_t is kept if it fits, and never grows if it is not negative.
LEMMA ToIntFacts ==
  ASSUME NEW v \in Int, CallsAssumption
  PROVE  /\ ToInt(v) \in Int /\ ToInt(v) < IntSpan - IntSpan \div 2
         /\ v >= 0 => ToInt(v) <= v
         /\ v \in -(IntSpan \div 2) .. IntSpan - IntSpan \div 2 - 1 => ToInt(v) = v
<1> DEFINE n == IntSpan
           h == IntSpan \div 2
           u == v + h
<1>1. n \in Int /\ n > 0
  BY DEF CallsAssumption
<1>2. h \in Int /\ 0 <= h /\ h <= n
  BY <1>1
<1> HIDE DEF n, h
<1>3. u \in Int
  BY <1>2
<1>4. ToInt(v) = (u % n) - h
  BY DEF ToInt, n, h
<1> HIDE DEF u
<1>5. u \div n \in Int /\ u % n \in 0 .. n - 1 /\ u = (u \div n) * n + (u % n)
  BY <1>1, <1>3, DivMod
<1>6. u >= 0 => u % n <= u
  BY <1>1, <1>3
<1>7. u \in 0 .. n - 1 => u % n = u
  BY <1>1, <1>3
<1> QED
  BY <1>1, <1>2, <1>4, <1>5, <1>6, <1>7 DEF n, h, u

\* A clamped bound is inside the dimension.
LEMMA ClampFacts ==
  ASSUME NEW v \in Int, NEW dim \in Nat
  PROVE  Clamp(v, dim) \in 0 .. dim
BY DEF Clamp

\* The dimensions of a slice and what is selected from them.
LEMMA SliceFacts ==
  ASSUME NEW c, IsCall(c), c.kernel = "Slice"
  PROVE  /\ Len(c.out) = Len(c.ins[1])
         /\ Walked(c) = c.out
         /\ DOMAIN Strides(c) = 1 .. 1 /\ DOMAIN Origin(c) = 1 .. 1
         /\ Origin(c)[1] = Dot([d \in 1 .. Len(c.out) |-> Selection(c, d).start], RowMajor(c.ins[1]))
         /\ \A d \in 1 .. Len(c.out) :
              Strides(c)[1][d] = Selection(c, d).step * RowMajor(c.ins[1])[d]
<1>1. Shape(c.out) /\ Shape(c.ins[1]) /\ IsSlice(c)
  BY CallFacts DEF IsCall, Broadcasting
<1>2. DOMAIN c.out = 1 .. Len(c.out) /\ DOMAIN c.ins[1] = 1 .. Len(c.ins[1])
      /\ Len(c.out) \in Nat /\ Len(c.ins[1]) \in Nat
  BY <1>1, ShapeFacts
<1>3. c.out = [d \in DOMAIN c.ins[1] |-> Cardinality(Positions(c, d))]
  BY <1>1 DEF IsSlice
<1>4. DOMAIN c.out = DOMAIN c.ins[1]
  BY <1>3
<1>5. Len(c.out) = Len(c.ins[1])
  BY <1>2, <1>4
<1>6. Walked(c) = c.out
  BY DEF Walked, Batched
<1>7. Strides(c) = <<[d \in 1 .. Len(c.out) |-> Selection(c, d).step * RowMajor(c.ins[1])[d]]>>
  BY <1>2 DEF Strides, Broadcasting, Batched
<1>8. Origin(c) = <<Dot([d \in 1 .. Len(c.out) |-> Selection(c, d).start], RowMajor(c.ins[1]))>>
  BY <1>2, <1>5 DEF Origin
<1> QED
  BY <1>5, <1>6, <1>7, <1>8

\* What a slice selects of a dimension lies inside it, in steps forward.
LEMMA SelectionFacts ==
  ASSUME NEW c, IsCall(c), c.kernel = "Slice", CallsAssumption, NEW d \in 1 .. Len(c.out)
  PROVE  /\ Selection(c, d).start \in Nat /\ Selection(c, d).end \in Nat
         /\ Selection(c, d).start <= Selection(c, d).end /\ Selection(c, d).end <= c.ins[1][d]
         /\ Selection(c, d).step \in Nat /\ Selection(c, d).step >= 1
         /\ c.ins[1][d] \in Nat
<1> DEFINE dim == c.ins[1][d]
           sel == {k \in DOMAIN c.starts : Named(c, k) = d}
           k == CHOOSE x \in sel : \A y \in sel : y <= x
<1>1. dim \in Nat
  BY SliceFacts, CallFacts, ShapeFacts
<1>2. IsSlice(c)
  BY DEF IsCall, Broadcasting
<1>3. /\ c.starts \in Seq(Int) /\ c.ends \in Seq(Int) /\ c.steps \in Seq(Int)
      /\ Len(c.ends) = Len(c.starts) /\ Len(c.steps) = Len(c.starts)
  BY <1>2 DEF IsSlice
<1> HIDE DEF dim
<1>4. CASE sel = {}
  <2>1. Selection(c, d) = [start |-> 0, end |-> dim, step |-> 1]
    BY <1>4 DEF Selection, dim
  <2> QED
    BY <1>1, <2>1 DEF dim
<1>5. CASE sel # {}
  <2>0. Len(c.starts) \in Nat /\ DOMAIN c.starts = 1 .. Len(c.starts)
    BY <1>3
  <2>10. IsFiniteSet(1 .. Len(c.starts))
    BY <2>0, FS_Interval
  <2>1. sel \in SUBSET (1 .. Len(c.starts)) /\ IsFiniteSet(1 .. Len(c.starts)) /\ Len(c.starts) \in Nat
    BY <2>0, <2>10
  <2>2. IsFiniteSet(sel) /\ sel \subseteq Int
    BY <2>1, FS_Subset
  <2>3. \E x \in sel : \A y \in sel : y <= x
    BY <1>5, <2>2, MaxFacts
  <2>4. k \in sel
    BY <2>3
  <2>5. k \in 1 .. Len(c.starts)
    BY <2>1, <2>4
  <2> DEFINE s == Clamp(ToInt(c.starts[k]), dim)
             e == Clamp(ToInt(c.ends[k]), dim)
             step == ToInt(c.steps[k])
  <2>6. Selection(c, d) = [start |-> s, end |-> IF e < s THEN s ELSE e,
                           step |-> IF step <= 0 THEN 1 ELSE step]
    BY <1>5 DEF Selection, dim
  <2> HIDE DEF k, sel
  <2>7. c.starts[k] \in Int /\ c.ends[k] \in Int /\ c.steps[k] \in Int
    BY <1>3, <2>5, ElementOf
  <2>8. ToInt(c.starts[k]) \in Int /\ ToInt(c.ends[k]) \in Int /\ step \in Int
    BY <2>7, ToIntFacts
  <2>9. s \in 0 .. dim /\ e \in 0 .. dim
    BY <1>1, <2>8, ClampFacts
  <2> HIDE DEF s, e, step
  <2> QED
    BY <1>1, <2>6, <2>8, <2>9 DEF dim
<1> QED
  BY <1>4, <1>5

\* The positions a dimension is read at stay below its end.
LEMMA SelectionInside ==
  ASSUME NEW start \in Nat, NEW end \in Nat, NEW step \in Nat, start <= end, step >= 1,
         CallsAssumption,
         NEW i \in Nat, i < Extent([start |-> start, end |-> end, step |-> step])
  PROVE  start + i * step \in Nat /\ start + i * step < end
<1> DEFINE v == end - start + step - 1
           t == ToInt(v)
           q == t \div step
<1>1. v \in Int /\ v >= 0
  OBVIOUS
<1> HIDE DEF v
<1>2. t \in Int /\ t <= v
  BY <1>1, ToIntFacts
<1> HIDE DEF t
<1>3. q \in Int /\ t % step \in 0 .. step - 1 /\ t = q * step + (t % step)
  BY <1>2, DivMod
<1>4. i < q
  BY DEF Extent, v, t
<1> HIDE DEF q
<1>5. (i + 1) * step \in Int /\ q * step \in Int /\ (i + 1) * step <= q * step
  <2>1. i + 1 \in Int /\ q \in Int /\ step \in Nat /\ i + 1 <= q
    BY <1>3, <1>4
  <2> QED
    BY <2>1, TimesMonotone
<1>6. (i + 1) * step = i * step + step /\ i * step \in Nat
  <2>1. ASSUME NEW a \in Int, NEW b \in Int PROVE (a + 1) * b = a * b + b
    OBVIOUS
  <2> QED
    BY <2>1, TimesNat
<1> DEFINE p == i * step
           m == q * step
           r == t % step
<1>9. p \in Nat /\ p + step <= m /\ m \in Int /\ r \in Int /\ r >= 0 /\ t = m + r
  BY <1>3, <1>5, <1>6
<1> HIDE DEF p, m, r
<1>7. p \in Nat /\ p + step <= v
  BY <1>1, <1>2, <1>9
<1>8. start + p \in Nat /\ start + p < end
  BY <1>7 DEF v
<1> QED
  BY <1>8 DEF p

\* The input coordinates of a result element.
Picked(c, x) ==
  [d \in 1 .. Len(c.out) |-> Selection(c, d).start + x[d] * Selection(c, d).step]

\* The offset of a slice is the flat index of those coordinates.
LEMMA SliceDot ==
  ASSUME NEW c, IsCall(c), c.kernel = "Slice", CallsAssumption, ~Mismatch(c),
         NEW x, Within(x, c.out)
  PROVE  /\ Within(Picked(c, x), c.ins[1])
         /\ Ints(Strides(c)[1], Len(c.out)) /\ Origin(c)[1] \in Int
         /\ Origin(c)[1] + Dot(x, Strides(c)[1]) = Flat(c.ins[1], Picked(c, x))
<1> DEFINE n == Len(c.out)
           in == c.ins[1]
           z == Picked(c, x)
           a == [d \in 1 .. n |-> Selection(c, d).start]
           b == [d \in 1 .. n |-> Selection(c, d).step]
           w == RowMajor(in)
           s == Strides(c)[1]
<1>1. Shape(in) /\ Shape(c.out) /\ n \in Nat /\ Len(in) = n /\ DOMAIN c.out = 1 .. n
  BY CallFacts, ShapeFacts, SliceFacts
<1>2. \A d \in 1 .. n : /\ a[d] \in Nat /\ b[d] \in Nat
                        /\ Selection(c, d).start = a[d] /\ Selection(c, d).step = b[d]
  BY SelectionFacts
<1>3. \A d \in 1 .. n : x[d] \in 0 .. c.out[d] - 1 /\ c.out[d] \in Nat
  BY <1>1, ShapeFacts DEF Within
<1>4. ASSUME NEW d \in 1 .. n PROVE a[d] + x[d] * b[d] \in 0 .. in[d] - 1
  <2> DEFINE r == Selection(c, d)
  <2>1. /\ r.start \in Nat /\ r.end \in Nat /\ r.start <= r.end /\ r.end <= in[d]
        /\ r.step \in Nat /\ r.step >= 1 /\ in[d] \in Nat
    BY SelectionFacts
  <2>2. c.out[d] = Extent(r)
    BY <1>1 DEF Mismatch
  <2>3. Extent(r) = Extent([start |-> r.start, end |-> r.end, step |-> r.step])
    BY DEF Extent
  <2>4. a[d] = r.start /\ b[d] = r.step
    OBVIOUS
  <2> HIDE DEF r, a, b
  <2>5. x[d] \in Nat /\ x[d] < Extent(r)
    BY <1>3, <2>2
  <2>6. r.start + x[d] * r.step \in Nat /\ r.start + x[d] * r.step < r.end
    BY <2>1, <2>3, <2>5, SelectionInside
  <2> QED
    BY <2>1, <2>4, <2>6
<1>5. \A d \in 1 .. n : z[d] = a[d] + x[d] * b[d]
  BY DEF Picked
<1>6. DOMAIN z = 1 .. n
  BY DEF Picked
<1>7. s \in {s} /\ \A d \in 1 .. n : s[d] = b[d] * w[d]
  BY SliceFacts
<1>8. Origin(c)[1] = Dot(a, w)
  BY SliceFacts
<1>16. DOMAIN a = 1 .. n
  OBVIOUS
<1>17. Within(x, c.out) /\ n = Len(c.out)
  OBVIOUS
<1> HIDE DEF n, in, z, a, b, w, s
<1>9. Vector(a, n)
  BY <1>2, <1>16 DEF Vector
<1>10. Within(z, in)
  BY <1>1, <1>4, <1>5, <1>6 DEF Within
<1>11. Vector(z, n) /\ Vector(x, n) /\ Ints(w, n)
  <2>1. Vector(z, n)
    BY <1>1, <1>10, WithinIsVector
  <2>2. Vector(x, n)
    BY <1>1, <1>17, WithinIsVector
  <2>3. Ints(w, n)
    BY <1>1, WeightsOfShape DEF w
  <2> QED
    BY <2>1, <2>2, <2>3
<1>12. ASSUME NEW d \in 1 .. n
       PROVE  s[d] \in Int /\ z[d] * w[d] = a[d] * w[d] + x[d] * s[d]
  <2>1. a[d] \in Int /\ b[d] \in Int /\ w[d] \in Int /\ x[d] \in Int
    BY <1>2, <1>3, <1>11 DEF Ints
  <2>2. ASSUME NEW i \in Int, NEW j \in Int, NEW k \in Int, NEW l \in Int
        PROVE  (i + j * k) * l = i * l + j * (k * l) /\ k * l \in Int
    OBVIOUS
  <2>3. s[d] = b[d] * w[d] /\ z[d] = a[d] + x[d] * b[d]
    BY <1>5, <1>7
  <2> QED
    BY <2>1, <2>2, <2>3
<1>13. Ints(s, n)
  BY <1>12 DEF Ints
<1>14. Dot(z, w) = Dot(a, w) + Dot(x, s)
  BY <1>1, <1>9, <1>11, <1>12, <1>13, DotAdds
<1>15. Dot(a, w) \in Int
  BY <1>1, <1>9, <1>11, ProductsFacts
<1> QED
  BY <1>8, <1>10, <1>13, <1>14, <1>15 DEF Flat, n, in, z, a, b, w, s

\* Slice stays inside its operand if it is not refused.
LEMMA SliceWalks ==
  ASSUME NEW c, IsCall(c), c.kernel = "Slice", CallsAssumption, ~Mismatch(c)
  PROVE  WalksOver(c) /\ StaysInside(c)
<1>1. /\ Len(c.out) = Len(c.ins[1]) /\ Walked(c) = c.out
      /\ DOMAIN Strides(c) = 1 .. 1 /\ DOMAIN Origin(c) = 1 .. 1
  BY SliceFacts
<1>2. Shape(c.out) /\ Shape(c.ins[1])
  BY CallFacts
<1>3. Within([d \in 1 .. Len(c.out) |-> 0], c.out)
  <2>1. \A d \in 1 .. Len(c.out) : c.out[d] \in Nat /\ c.out[d] > 0
    BY <1>2, ShapeFacts
  <2>2. \A d \in 1 .. Len(c.out) : 0 \in 0 .. c.out[d] - 1
    BY <2>1
  <2> QED
    BY <2>2 DEF Within
<1>4. Ints(Strides(c)[1], Len(c.out)) /\ Origin(c)[1] \in Int
  BY <1>3, SliceDot
<1>5. WalksOver(c)
  BY <1>1, <1>2, <1>4 DEF WalksOver
<1>6. ASSUME NEW x, Within(x, c.out) PROVE Offset(c, x)[1] \in 0 .. Numel(Indexed(c, 1)) - 1
  <2>1. /\ Within(Picked(c, x), c.ins[1])
        /\ Origin(c)[1] + Dot(x, Strides(c)[1]) = Flat(c.ins[1], Picked(c, x))
    BY <1>6, SliceDot
  <2>2. Flat(c.ins[1], Picked(c, x)) \in 0 .. Numel(c.ins[1]) - 1
    BY <1>2, <2>1, FlatInRange
  <2>3. Offset(c, x)[1] = Origin(c)[1] + Dot(x, Strides(c)[1])
    BY <1>1 DEF Offset
  <2> QED
    BY <2>1, <2>2, <2>3 DEF Indexed
<1>7. StaysInside(c)
  BY <1>1, <1>6 DEF StaysInside
<1> QED
  BY <1>5, <1>7

-----------------------------------------------------------------------------
(* ReduceMean. *)

\* How many of the first d dimensions a reduction keeps.
Counts(c, P) ==
  /\ P = [d \in 0 .. Len(c.ins[1]) |-> Place(c, d)]
  /\ Reduced(c) \subseteq 1 .. Len(c.ins[1])
  /\ P[0] = 0 /\ \A d \in 0 .. Len(c.ins[1]) : P[d] \in Nat
  /\ \A d \in 1 .. Len(c.ins[1]) : P[d] = P[d - 1] + (IF d \in Reduced(c) THEN 0 ELSE 1)

\* Counting dimension by dimension is counting the kept ones.
LEMMA PlaceCounts ==
  ASSUME NEW c, Shape(c.ins[1])
  PROVE  \E P : Counts(c, P)
<1> DEFINE n == Len(c.ins[1])
           R == Reduced(c)
           P == [d \in 0 .. n |-> Place(c, d)]
<1>1. n \in Nat
  BY ShapeFacts
<1>2. R \subseteq 1 .. n
  BY DEF Reduced
<1>3. \A d \in 0 .. n : P[d] = Cardinality(1 .. d \ R)
  BY DEF Place
<1>4. \A d \in 0 .. n : IsFiniteSet(1 .. d \ R)
  <2> SUFFICES ASSUME NEW d \in 0 .. n PROVE IsFiniteSet(1 .. d \ R)
    OBVIOUS
  <2>1. IsFiniteSet(1 .. d)
    BY FS_Interval
  <2>2. 1 .. d \ R \in SUBSET (1 .. d)
    OBVIOUS
  <2> QED
    BY <2>1, <2>2, FS_Subset
<1> HIDE DEF n, R, P
<1>5. \A d \in 0 .. n : P[d] \in Nat
  BY <1>3, <1>4, FS_CardinalityType
<1>6. P[0] = 0
  <2>1. 0 \in 0 .. n /\ 1 .. 0 \ R = {}
    BY <1>1
  <2> QED
    BY <1>3, <2>1, FS_EmptySet
<1>7. ASSUME NEW d \in 1 .. n PROVE P[d] = P[d - 1] + (IF d \in R THEN 0 ELSE 1)
  <2>1. d \in 0 .. n /\ d - 1 \in 0 .. n /\ d \in Int
    BY <1>1
  <2>2. CASE d \in R
    <3>1. 1 .. d \ R = 1 .. (d - 1) \ R
      BY <2>1, <2>2
    <3>2. P[d] = P[d - 1] /\ P[d - 1] \in Nat
      BY <1>3, <1>5, <2>1, <3>1
    <3> QED
      BY <2>2, <3>2
  <2>3. CASE d \notin R
    <3>1. 1 .. d \ R = (1 .. (d - 1) \ R) \cup {d} /\ d \notin 1 .. (d - 1) \ R
      BY <2>1, <2>3
    <3>2. Cardinality(1 .. d \ R) = Cardinality(1 .. (d - 1) \ R) + 1
      BY <1>4, <2>1, <3>1, FS_AddElement
    <3> QED
      BY <1>3, <2>1, <2>3, <3>2
  <2> QED
    BY <2>2, <2>3
<1>8. P = [d \in 0 .. n |-> Place(c, d)]
  BY DEF P
<1>9. Counts(c, P)
  BY <1>2, <1>5, <1>6, <1>7, <1>8 DEF Counts, n, R
<1> QED
  BY <1>9

\* Places number the kept dimensions in their order.
LEMMA PlaceOrder ==
  ASSUME NEW c, Shape(c.ins[1]), NEW P, Counts(c, P)
  PROVE  /\ \A d \in 1 .. Len(c.ins[1]), e \in 1 .. Len(c.ins[1]) :
              d < e /\ e \notin Reduced(c) => P[d] < P[e]
         /\ \A e \in 1 .. Len(c.ins[1]) : e \notin Reduced(c) => P[e] \in 1 .. P[Len(c.ins[1])]
         /\ \A k \in 1 .. P[Len(c.ins[1])] :
              \E e \in 1 .. Len(c.ins[1]) : e \notin Reduced(c) /\ P[e] = k
<1> DEFINE n == Len(c.ins[1])
           R == Reduced(c)
           G == {i \in Nat : \A d \in 0 .. n : d + i <= n => P[d] <= P[d + i]}
           H == {d \in Nat : d <= n => \A k \in 1 .. P[d] : \E e \in 1 .. n : e \notin R /\ P[e] = k}
<1>1. n \in Nat
  BY ShapeFacts
<1>2. /\ P[0] = 0 /\ \A d \in 0 .. n : P[d] \in Nat
      /\ \A d \in 1 .. n : P[d] = P[d - 1] + (IF d \in R THEN 0 ELSE 1)
  BY DEF Counts
<1> HIDE DEF n, R
<1>3. 0 \in G
  <2>1. \A d \in 0 .. n : d + 0 = d /\ P[d] <= P[d]
    BY <1>2
  <2> QED
    BY <2>1
<1>4. ASSUME NEW i \in Nat, i \in G PROVE i + 1 \in G
  <2> SUFFICES ASSUME NEW d \in 0 .. n, d + (i + 1) <= n PROVE P[d] <= P[d + (i + 1)]
    OBVIOUS
  <2>1. d + (i + 1) \in 1 .. n /\ (d + (i + 1)) - 1 = d + i /\ d + i <= n /\ d + i \in 0 .. n
        /\ d + (i + 1) \in 0 .. n
    BY <1>1
  <2>2. P[d] <= P[d + i]
    BY <1>4, <2>1
  <2>3. P[d + (i + 1)] = P[d + i] + (IF d + (i + 1) \in R THEN 0 ELSE 1)
    BY <1>2, <2>1
  <2>4. P[d] \in Nat /\ P[d + i] \in Nat
    BY <1>2, <2>1
  <2> QED
    BY <2>2, <2>3, <2>4
<1> HIDE DEF G
<1>5. Nat \subseteq G
  BY <1>3, <1>4, NatInductive
<1>6. ASSUME NEW d \in 0 .. n, NEW e \in 0 .. n, d <= e PROVE P[d] <= P[e]
  <2>1. e - d \in Nat /\ d + (e - d) = e /\ e <= n
    BY <1>1, <1>6
  <2>2. e - d \in G
    BY <1>5, <2>1
  <2> QED
    BY <2>1, <2>2 DEF G
<1>7. ASSUME NEW d \in 0 .. n, NEW e \in 1 .. n, d < e, e \notin R PROVE P[d] < P[e]
  <2>1. e - 1 \in 0 .. n /\ d <= e - 1
    BY <1>1, <1>7
  <2>2. P[d] <= P[e - 1] /\ P[e] = P[e - 1] + 1 /\ P[d] \in Nat /\ P[e - 1] \in Nat
    BY <1>2, <1>6, <1>7, <2>1
  <2> QED
    BY <2>2
<1>8. ASSUME NEW e \in 1 .. n, e \notin R PROVE P[e] \in 1 .. P[n]
  <2>1. 0 \in 0 .. n /\ 0 < e /\ e \in 0 .. n /\ n \in 0 .. n /\ e <= n
    BY <1>1
  <2>2. P[0] < P[e] /\ P[e] <= P[n] /\ P[e] \in Nat /\ P[n] \in Nat
    BY <1>2, <1>6, <1>7, <1>8, <2>1
  <2> QED
    BY <1>2, <2>2
<1>9. 0 \in H
  BY <1>2
<1>10. ASSUME NEW i \in Nat, i \in H PROVE i + 1 \in H
  <2> SUFFICES ASSUME i + 1 <= n, NEW k \in 1 .. P[i + 1]
               PROVE  \E e \in 1 .. n : e \notin R /\ P[e] = k
    OBVIOUS
  <2>1. i + 1 \in 1 .. n /\ (i + 1) - 1 = i /\ i <= n /\ i \in 0 .. n
    BY <1>1
  <2>2. P[i + 1] = P[i] + (IF i + 1 \in R THEN 0 ELSE 1) /\ P[i] \in Nat
    BY <1>2, <2>1
  <2>3. CASE k <= P[i]
    <3>1. k \in 1 .. P[i]
      BY <2>2, <2>3
    <3> QED
      BY <1>10, <2>1, <3>1
  <2>4. CASE ~(k <= P[i])
    <3>1. i + 1 \notin R /\ P[i + 1] = k
      BY <2>2, <2>4
    <3> QED
      BY <2>1, <3>1
  <2> QED
    BY <2>3, <2>4
<1> HIDE DEF H
<1>11. Nat \subseteq H
  BY <1>9, <1>10, NatInductive
<1>12. ASSUME NEW k \in 1 .. P[n] PROVE \E e \in 1 .. n : e \notin R /\ P[e] = k
  BY <1>1, <1>11 DEF H
<1>13. \A d, e \in 1 .. n : d < e /\ e \notin R => P[d] < P[e]
  BY <1>1, <1>7
<1> QED
  BY <1>8, <1>12, <1>13 DEF n, R

\* The shape that is kept has the kept extents in their order.
LEMMA KeptFacts ==
  ASSUME NEW c, Shape(c.ins[1]), NEW P, Counts(c, P)
  PROVE  /\ Shape(KeptShape(c)) /\ Len(KeptShape(c)) = P[Len(c.ins[1])]
         /\ \A d \in 1 .. Len(c.ins[1]) : d \notin Reduced(c) => KeptShape(c)[P[d]] = c.ins[1][d]
<1> DEFINE in == c.ins[1]
           n == Len(in)
           R == Reduced(c)
           kept == DOMAIN in \ R
           K == KeptShape(c)
           at == [k \in 1 .. P[n] |-> CHOOSE d \in kept : Place(c, d) = k]
<1>1. n \in Nat /\ DOMAIN in = 1 .. n /\ \A d \in 1 .. n : in[d] \in Positive
  BY ShapeFacts DEF Positive
<1>2. /\ P = [d \in 0 .. n |-> Place(c, d)] /\ \A d \in 0 .. n : P[d] \in Nat
      /\ R \subseteq 1 .. n
  BY DEF Counts
<1>3. /\ \A d \in 1 .. n, e \in 1 .. n : d < e /\ e \notin R => P[d] < P[e]
      /\ \A e \in 1 .. n : e \notin R => P[e] \in 1 .. P[n]
      /\ \A k \in 1 .. P[n] : \E e \in 1 .. n : e \notin R /\ P[e] = k
  BY PlaceOrder
<1>0. n \in 0 .. n
  BY <1>1
<1>4. P[n] \in Nat /\ n \in 0 .. n
  BY <1>0, <1>2
<1>5. Cardinality(kept) = P[n]
  BY <1>1, <1>2, <1>4 DEF Place
<1>6. \A d \in kept : Place(c, d) = P[d] /\ d \in 1 .. n
  BY <1>1, <1>2
<1>7. K = [k \in 1 .. P[n] |-> in[CHOOSE d \in kept : Place(c, d) = k]]
  BY <1>5 DEF KeptShape
<1>9. K = [k \in 1 .. P[n] |-> in[at[k]]]
  BY <1>7
<1>10. ASSUME NEW k \in 1 .. P[n] PROVE at[k] \in kept /\ P[at[k]] = k
  <2>1. PICK d \in 1 .. n : d \notin R /\ P[d] = k
    BY <1>3
  <2>2. \E e \in kept : Place(c, e) = k
    BY <1>1, <1>6, <2>1
  <2>3. at[k] \in kept /\ Place(c, at[k]) = k
    BY <2>2
  <2> QED
    BY <1>6, <2>3
<1> HIDE DEF at, kept, K, R, n, in
<1>11. ASSUME NEW k \in 1 .. P[n] PROVE at[k] \in 1 .. n /\ at[k] \notin R
  BY <1>1, <1>10 DEF kept
<1>12. K \in Seq(Positive) /\ Len(K) = P[n]
  <2>1. \A k \in 1 .. P[n] : in[at[k]] \in Positive
    BY <1>1, <1>11
  <2>2. K \in [1 .. P[n] -> Positive]
    BY <1>9, <2>1
  <2> QED
    BY <1>4, <2>2
<1>13. ASSUME NEW d \in 1 .. n, d \notin R PROVE K[P[d]] = in[d]
  <2>1. P[d] \in 1 .. P[n]
    BY <1>3, <1>13
  <2> DEFINE e == at[P[d]]
  <2>2. e \in 1 .. n /\ e \notin R /\ P[e] = P[d]
    BY <1>10, <1>11, <2>1
  <2>3. P[d] \in Nat
    BY <1>1, <1>2
  <2> HIDE DEF e
  <2>4. ~(P[d] < P[e]) /\ ~(P[e] < P[d])
    BY <2>2, <2>3
  <2>5. ~(d < e) /\ ~(e < d)
    BY <1>3, <1>13, <2>2, <2>4
  <2>6. d = e
    BY <1>1, <2>2, <2>5
  <2> QED
    BY <1>9, <2>1, <2>6 DEF e
<1> QED
  BY <1>12, <1>13 DEF Shape, K, n, in, R

\* The shape of the result with its reduced dimensions kept as 1.
Full(c) == [d \in 1 .. Len(c.ins[1]) |-> IF d \in Reduced(c) THEN 1 ELSE c.ins[1][d]]

\* With 1 for each reduced dimension it has the same elements.
LEMMA FullFacts ==
  ASSUME NEW c, Shape(c.ins[1]), NEW P, Counts(c, P)
  PROVE  /\ Shape(Full(c)) /\ Len(Full(c)) = Len(c.ins[1])
         /\ Numel(Full(c)) = Numel(KeptShape(c))
         /\ DOMAIN ProjStrides(c) = 1 .. Len(c.ins[1])
         /\ \A d \in 1 .. Len(c.ins[1]) :
              /\ d \notin Reduced(c) => RowMajor(Full(c))[d] = RowMajor(KeptShape(c))[P[d]]
              /\ ProjStrides(c)[d] = IF d \in Reduced(c) THEN 0 ELSE RowMajor(Full(c))[d]
<1> DEFINE in == c.ins[1]
           n == Len(in)
           R == Reduced(c)
           K == KeptShape(c)
           F == Full(c)
           w == Weight(F)
           v == Weight(K)
<1>1. n \in Nat /\ DOMAIN in = 1 .. n /\ \A d \in 1 .. n : in[d] \in Positive
  BY ShapeFacts DEF Positive
<1>2. /\ P = [d \in 0 .. n |-> Place(c, d)] /\ P[0] = 0 /\ \A d \in 0 .. n : P[d] \in Nat
      /\ \A d \in 1 .. n : P[d] = P[d - 1] + (IF d \in R THEN 0 ELSE 1)
  BY DEF Counts
<1>3. \A e \in 1 .. n : e \notin R => P[e] \in 1 .. P[n]
  BY PlaceOrder
<1>4. Shape(K) /\ Len(K) = P[n] /\ \A d \in 1 .. n : d \notin R => K[P[d]] = in[d]
  BY KeptFacts
<1>5. F \in Seq(Positive) /\ Len(F) = n
  <2>1. 1 \in Positive
    BY DEF Positive
  <2>2. F \in [1 .. n -> Positive]
    BY <1>1, <2>1 DEF Full
  <2> QED
    BY <1>1, <2>2
<1>6. Shape(F)
  BY <1>5 DEF Shape
<1>7. \A d \in 1 .. n : F[d] = IF d \in R THEN 1 ELSE in[d]
  BY DEF Full
<1>8. ProjStrides(c) = [d \in 1 .. n |-> IF d \in R THEN 0 ELSE RowMajor(K)[Place(c, d)]]
  BY <1>1 DEF ProjStrides
<1> HIDE DEF in, n, R, K, F, w, v
<1>9. /\ \A d \in 0 .. n : w[d] \in Nat
      /\ w[n] = 1 /\ w[0] = Numel(F)
      /\ \A d \in 1 .. n : w[d - 1] = F[d] * w[d] /\ RowMajor(F)[d] = w[d]
  BY <1>5, <1>6, WeightsOfShape DEF w
<1>10. /\ \A k \in 0 .. P[n] : v[k] \in Nat
       /\ v[P[n]] = 1 /\ v[0] = Numel(K)
       /\ \A k \in 1 .. P[n] : v[k - 1] = K[k] * v[k] /\ RowMajor(K)[k] = v[k]
  BY <1>4, WeightsOfShape DEF v
<1> DEFINE G == {d \in 0 .. n : w[d] = v[P[d]]}
<1>11. n \in G
  BY <1>1, <1>9, <1>10
<1>12. ASSUME NEW d \in 1 .. n, d \in G PROVE d - 1 \in G
  <2>1. d - 1 \in 0 .. n /\ w[d] = v[P[d]]
    BY <1>1, <1>12
  <2> HIDE DEF G
  <2>5. d \in 0 .. n
    BY <1>1
  <2>6. w[d - 1] = F[d] * w[d] /\ P[d] = P[d - 1] + (IF d \in R THEN 0 ELSE 1)
    BY <1>2, <1>9
  <2>2. w[d - 1] = F[d] * w[d] /\ P[d] = P[d - 1] + (IF d \in R THEN 0 ELSE 1)
        /\ w[d] \in Nat /\ P[d - 1] \in Nat
    BY <1>2, <1>9, <2>1, <2>5, <2>6
  <2>3. CASE d \in R
    <3>1. F[d] = 1 /\ 1 * w[d] = w[d] /\ P[d - 1] = P[d]
      BY <1>7, <2>2, <2>3
    <3> QED
      BY <2>1, <2>2, <3>1 DEF G
  <2>4. CASE d \notin R
    <3>1. F[d] = in[d] /\ P[d] \in 1 .. P[n] /\ K[P[d]] = in[d]
      BY <1>3, <1>4, <1>7, <2>4
    <3>2. P[d] - 1 = P[d - 1]
      BY <2>2, <2>4
    <3>3. v[P[d] - 1] = K[P[d]] * v[P[d]]
      BY <1>10, <3>1
    <3> QED
      BY <2>1, <2>2, <3>1, <3>2, <3>3 DEF G
  <2> QED
    BY <2>3, <2>4
<1> HIDE DEF G
<1>13. \A d \in 0 .. n : d \in G
  BY <1>1, <1>11, <1>12, Downwards
<1>14. \A d \in 0 .. n : w[d] = v[P[d]]
  BY <1>13 DEF G
<1>15. Numel(F) = Numel(K)
  <2>1. 0 \in 0 .. n
    BY <1>1
  <2> QED
    BY <1>2, <1>9, <1>10, <1>14, <2>1
<1>16. ASSUME NEW d \in 1 .. n
       PROVE  /\ d \notin R => RowMajor(F)[d] = RowMajor(K)[P[d]]
              /\ ProjStrides(c)[d] = IF d \in R THEN 0 ELSE RowMajor(F)[d]
  <2>1. d \in 0 .. n
    BY <1>1
  <2>2. d \notin R => RowMajor(F)[d] = RowMajor(K)[P[d]]
    BY <1>3, <1>9, <1>10, <1>14, <2>1
  <2>3. P[d] = Place(c, d)
    BY <1>2, <2>1
  <2>4. ProjStrides(c)[d] = IF d \in R THEN 0 ELSE RowMajor(K)[P[d]]
    BY <1>8, <2>3
  <2> QED
    BY <2>2, <2>4
<1>17. DOMAIN ProjStrides(c) = 1 .. n
  BY <1>8
<1> QED
  BY <1>5, <1>6, <1>15, <1>16, <1>17 DEF in, n, R, K, F

\* The coordinates of an input element along the kept dimensions.
Projected(c, x) == [d \in 1 .. Len(c.ins[1]) |-> IF d \in Reduced(c) THEN 0 ELSE x[d]]

\* What ReduceMean is called with and walks.
LEMMA ReduceFacts ==
  ASSUME NEW c, IsCall(c), c.kernel = "ReduceMean"
  PROVE  /\ Shape(c.ins[1]) /\ Shape(c.out) /\ IsReduction(c)
         /\ Walked(c) = c.ins[1] /\ Strides(c) = <<ProjStrides(c)>>
         /\ DOMAIN Strides(c) = 1 .. 1 /\ DOMAIN Origin(c) = 1 .. 1 /\ Origin(c)[1] = 0
         /\ c.out = IF c.keepdims THEN Full(c) ELSE KeptShape(c)
<1>1. Shape(c.ins[1]) /\ Shape(c.out) /\ IsReduction(c)
  BY CallFacts DEF IsCall, Broadcasting
<1>2. DOMAIN c.ins[1] = 1 .. Len(c.ins[1])
  BY <1>1, ShapeFacts
<1>3. Walked(c) = c.ins[1] /\ Strides(c) = <<ProjStrides(c)>>
  BY DEF Walked, Strides, Broadcasting, Batched
<1>4. DOMAIN Strides(c) = 1 .. 1
  BY <1>3
<1>5. Origin(c) = [k \in DOMAIN Strides(c) |-> 0]
  BY DEF Origin
<1>6. DOMAIN Origin(c) = 1 .. 1 /\ Origin(c)[1] = 0
  BY <1>4, <1>5
<1>7. c.out = IF c.keepdims THEN Full(c) ELSE KeptShape(c)
  BY <1>1, <1>2 DEF IsReduction, Full
<1> QED
  BY <1>1, <1>3, <1>4, <1>6, <1>7

\* A reduced dimension has stride 0: the offset is that of the projected coordinates.
LEMMA ReduceDot ==
  ASSUME NEW c, IsCall(c), c.kernel = "ReduceMean", NEW x, Within(x, c.ins[1])
  PROVE  /\ Within(Projected(c, x), Full(c))
         /\ Ints(ProjStrides(c), Len(c.ins[1]))
         /\ Dot(x, ProjStrides(c)) = Flat(Full(c), Projected(c, x))
<1> DEFINE in == c.ins[1]
           n == Len(in)
           F == Full(c)
           y == Projected(c, x)
           s == ProjStrides(c)
           w == RowMajor(F)
           R == Reduced(c)
<1>1. Shape(in)
  BY CallFacts
<1>2. PICK P : Counts(c, P)
  BY <1>1, PlaceCounts
<1>3. /\ Shape(F) /\ Len(F) = n
      /\ \A d \in 1 .. n : s[d] = IF d \in R THEN 0 ELSE w[d]
  BY <1>1, <1>2, FullFacts
<1>4. \A d \in 1 .. n : y[d] = IF d \in R THEN 0 ELSE x[d]
  BY DEF Projected
<1>5. \A d \in 1 .. n : F[d] = IF d \in R THEN 1 ELSE in[d]
  BY DEF Full
<1>6. DOMAIN y = 1 .. n
  BY DEF Projected
<1>7. \A d \in 1 .. n : x[d] \in 0 .. in[d] - 1
  BY DEF Within
<1>8. Vector(x, n) /\ n \in Nat
  BY <1>1, WithinIsVector, ShapeFacts
<1> HIDE DEF in, n, F, y, s, w, R
<1>9. Within(y, F)
  <2>1. \A d \in 1 .. n : y[d] \in 0 .. F[d] - 1
    BY <1>4, <1>5, <1>7
  <2> QED
    BY <1>3, <1>6, <2>1 DEF Within
<1>10. Vector(y, n) /\ Ints(w, n)
  BY <1>3, <1>9, WithinIsVector, WeightsOfShape DEF w
<1>11. ASSUME NEW d \in 1 .. n PROVE s[d] \in Int /\ x[d] * s[d] = y[d] * w[d]
  <2>1. w[d] \in Int /\ x[d] \in Int
    BY <1>8, <1>10 DEF Ints, Vector
  <2>2. ASSUME NEW i \in Int PROVE i * 0 = 0 /\ 0 * i = 0
    OBVIOUS
  <2>3. CASE d \in R
    <3>1. s[d] = 0 /\ y[d] = 0
      BY <1>3, <1>4, <2>3
    <3> QED
      BY <2>1, <2>2, <3>1
  <2>4. CASE d \notin R
    <3>1. s[d] = w[d] /\ y[d] = x[d]
      BY <1>3, <1>4, <2>4
    <3> QED
      BY <2>1, <3>1
  <2> QED
    BY <2>3, <2>4
<1>12. Ints(s, n)
  BY <1>11 DEF Ints
<1>13. Dot(x, s) = Dot(y, w)
  BY <1>8, <1>10, <1>11, <1>12, DotEqual
<1> QED
  BY <1>9, <1>12, <1>13 DEF Flat, in, n, F, y, s, w

\* The result has one element for each of the kept ones.
LEMMA ReduceNumel ==
  ASSUME NEW c, IsCall(c), c.kernel = "ReduceMean"
  PROVE  Numel(c.out) = Numel(Full(c)) /\ Numel(KeptShape(c)) = Numel(Full(c)) /\ Shape(Full(c))
<1>1. Shape(c.ins[1]) /\ c.out = IF c.keepdims THEN Full(c) ELSE KeptShape(c)
  BY ReduceFacts
<1>2. PICK P : Counts(c, P)
  BY <1>1, PlaceCounts
<1>3. Numel(Full(c)) = Numel(KeptShape(c)) /\ Shape(Full(c))
  BY <1>1, <1>2, FullFacts
<1> QED
  BY <1>1, <1>3

\* ReduceMean stays inside its result.
LEMMA ReduceWalks ==
  ASSUME NEW c, IsCall(c), c.kernel = "ReduceMean"
  PROVE  WalksOver(c) /\ StaysInside(c)
<1>1. /\ Shape(c.ins[1]) /\ Walked(c) = c.ins[1] /\ Strides(c)[1] = ProjStrides(c)
      /\ DOMAIN Strides(c) = 1 .. 1 /\ DOMAIN Origin(c) = 1 .. 1 /\ Origin(c)[1] = 0
  BY ReduceFacts
<1>2. Within([d \in 1 .. Len(c.ins[1]) |-> 0], c.ins[1])
  <2>1. \A d \in 1 .. Len(c.ins[1]) : c.ins[1][d] \in Nat /\ c.ins[1][d] > 0
    BY <1>1, ShapeFacts
  <2>2. \A d \in 1 .. Len(c.ins[1]) : 0 \in 0 .. c.ins[1][d] - 1
    BY <2>1
  <2> QED
    BY <2>2 DEF Within
<1>3. Ints(ProjStrides(c), Len(c.ins[1]))
  BY <1>2, ReduceDot
<1>4. WalksOver(c)
  BY <1>1, <1>3 DEF WalksOver
<1>5. ASSUME NEW x, Within(x, c.ins[1]) PROVE Offset(c, x)[1] \in 0 .. Numel(Indexed(c, 1)) - 1
  <2>1. /\ Within(Projected(c, x), Full(c))
        /\ Dot(x, ProjStrides(c)) = Flat(Full(c), Projected(c, x))
    BY <1>5, ReduceDot
  <2>2. Numel(c.out) = Numel(Full(c)) /\ Shape(Full(c))
    BY ReduceNumel
  <2>3. Flat(Full(c), Projected(c, x)) \in 0 .. Numel(c.out) - 1
    BY <2>1, <2>2, FlatInRange
  <2>4. Offset(c, x)[1] = 0 + Dot(x, ProjStrides(c))
    BY <1>1 DEF Offset
  <2>5. Offset(c, x)[1] = Dot(x, ProjStrides(c))
    BY <2>1, <2>3, <2>4
  <2> QED
    BY <2>1, <2>3, <2>5 DEF Indexed
<1>6. StaysInside(c)
  BY <1>1, <1>5 DEF StaysInside
<1> QED
  BY <1>4, <1>6

\* So every kernel that walks stays inside what it indexes.
LEMMA Walks ==
  ASSUME NEW c, IsCall(c), CallsAssumption, c.kernel \in Walking, ~Mismatch(c)
  PROVE  WalksOver(c) /\ StaysInside(c)
<1>1. c.kernel \in Broadcasting \cup Batched \/ c.kernel \in {"Transpose", "Slice", "ReduceMean"}
  BY DEF Walking, Recomputing
<1> QED
  BY <1>1, TwoOperandsWalk, TransposeWalks, SliceWalks, ReduceWalks

-----------------------------------------------------------------------------
(* Where the odometer begins. *)

\* Coordinates that are all 0 add nothing.
LEMMA DotZero ==
  ASSUME NEW n \in Nat, NEW x, Vector(x, n), NEW s, Ints(s, n), \A d \in 1 .. n : x[d] = 0
  PROVE  Dot(x, s) = 0
<1>1. /\ IsFiniteSet(1 .. n)
      /\ \A d \in 1 .. n : Products(x, s)[d] \in Int /\ Products(x, s)[d] = x[d] * s[d]
      /\ Dot(x, s) = SumFunctionOnSet(Products(x, s), 1 .. n)
  BY ProductsFacts
<1>2. ASSUME NEW d \in 1 .. n PROVE Products(x, s)[d] = 0
  <2>1. x[d] = 0 /\ s[d] \in Int
    BY DEF Ints
  <2>2. 0 * s[d] = 0
    BY <2>1
  <2> QED
    BY <1>1, <2>1, <2>2
<1>3. SumFunctionOnSet(Products(x, s), 1 .. n) = SumFunctionOnSet(Products(x, s), {})
  <2>1. {} \in SUBSET (1 .. n)
    OBVIOUS
  <2> QED
    BY <1>1, <1>2, <2>1, SumSupport
<1>4. SumFunctionOnSet(Products(x, s), {}) = 0
  BY <1>1, SumFacts
<1> QED
  BY <1>1, <1>3, <1>4

\* Where a walk begins.
LEMMA Beginning ==
  ASSUME NEW c, WalksOver(c), NEW x, x = [d \in DOMAIN Walked(c) |-> 0]
  PROVE  /\ x \in Coords(Walked(c)) /\ Flat(Walked(c), x) = 0
         /\ Offset(c, x) = Origin(c)
         /\ Numel(Walked(c)) \in Nat /\ Numel(Walked(c)) > 0
<1> DEFINE s == Walked(c)
           n == Len(s)
<1>1. /\ Shape(s) /\ DOMAIN Origin(c) = DOMAIN Strides(c)
      /\ \A k \in DOMAIN Strides(c) : Ints(Strides(c)[k], n) /\ Origin(c)[k] \in Int
  BY DEF WalksOver
<1>2. n \in Nat /\ DOMAIN s = 1 .. n /\ \A d \in 1 .. n : s[d] \in Nat /\ s[d] > 0
  BY <1>1, ShapeFacts
<1> HIDE DEF n, s
<1>3. x = [d \in 1 .. n |-> x[d]] /\ DOMAIN x = 1 .. n /\ \A d \in 1 .. n : x[d] = 0
  BY <1>2 DEF s
<1>4. Within(x, s)
  BY <1>2, <1>3 DEF Within, n
<1>5. x \in Coords(s)
  <2>1. [d \in 1 .. Len(s) |-> x[d]] = x
    BY <1>3 DEF n
  <2>2. Within([d \in 1 .. Len(s) |-> x[d]], s)
    BY <1>4, <2>1
  <2>3. [d \in 1 .. Len(s) |-> x[d]] \in Coords(s)
    BY <1>1, <2>2, CoordsFacts
  <2> QED
    BY <2>1, <2>3
<1>6. Vector(x, n)
  BY <1>1, <1>4, WithinIsVector DEF n
<1>7. Flat(s, x) = 0
  <2>1. Ints(RowMajor(s), n)
    BY <1>1, WeightsOfShape DEF n
  <2> QED
    BY <1>2, <1>3, <1>6, <2>1, DotZero DEF Flat
<1>8. \A k \in DOMAIN Strides(c) : Origin(c)[k] + Dot(x, Strides(c)[k]) = Origin(c)[k]
  <2> SUFFICES ASSUME NEW k \in DOMAIN Strides(c)
               PROVE  Origin(c)[k] + Dot(x, Strides(c)[k]) = Origin(c)[k]
    OBVIOUS
  <2>1. Dot(x, Strides(c)[k]) = 0 /\ Origin(c)[k] \in Int
    BY <1>1, <1>2, <1>3, <1>6, DotZero
  <2> QED
    BY <2>1
<1>9. Origin(c) = [k \in DOMAIN Strides(c) |-> Origin(c)[k]]
  <2>1. CASE c.kernel = "Slice"
    <3>1. \E v : Origin(c) = <<v>>
      BY <2>1 DEF Origin
    <3> QED
      BY <1>1, <3>1
  <2>2. CASE c.kernel # "Slice"
    BY <2>2 DEF Origin
  <2> QED
    BY <2>1, <2>2
<1>10. Offset(c, x) = Origin(c)
  BY <1>8, <1>9 DEF Offset
<1>11. Numel(s) \in Nat /\ Numel(s) > 0
  BY <1>1, <1>4, FlatInRange
<1> QED
  BY <1>5, <1>7, <1>10, <1>11 DEF s

-----------------------------------------------------------------------------
(* The odometer, its offsets and the count of its turns stay together. *)

Walk == pc = "loop" /\ call.kernel \in Walking /\ ~Mismatch(call)

OdometerInv ==
  /\ call \in Calls
  /\ Walk =>
       /\ coords \in Coords(Walked(call))
       /\ off = Offset(call, coords)
       /\ flat \in 0 .. Numel(Walked(call))
       /\ flat < Numel(Walked(call)) => Flat(Walked(call), coords) = flat

\* It holds at the first turn.
LEMMA OdometerInit == Init => OdometerInv
<1> SUFFICES ASSUME Init PROVE OdometerInv
  OBVIOUS
<1>1. call \in Calls /\ IsCall(call)
  BY ShapesAssumption DEF Init
<1>2. ASSUME Walk PROVE /\ coords \in Coords(Walked(call))
                        /\ off = Offset(call, coords)
                        /\ flat \in 0 .. Numel(Walked(call))
                        /\ flat < Numel(Walked(call)) => Flat(Walked(call), coords) = flat
  <2>1. WalksOver(call)
    BY <1>1, <1>2, CallsAssumption, Walks DEF Walk
  <2>2. coords = [d \in DOMAIN Walked(call) |-> 0] /\ off = Origin(call) /\ flat = 0
    BY <1>2 DEF Walk, Init
  <2>3. /\ coords \in Coords(Walked(call)) /\ Flat(Walked(call), coords) = 0
        /\ Offset(call, coords) = Origin(call)
        /\ Numel(Walked(call)) \in Nat /\ Numel(Walked(call)) > 0
    BY <2>1, <2>2, Beginning
  <2> QED
    BY <2>2, <2>3
<1> QED
  BY <1>1, <1>2 DEF OdometerInv

\* What a turn does to the odometer.
LEMMA TurnOfCoords ==
  ASSUME NEW s, Shape(s), coords \in Coords(s), NEW e, e = Turned(coords, s, CarryStop(s))
  PROVE  /\ e \in Coords(s) /\ Within(e, s)
         /\ Flat(s, coords) < Numel(s) - 1 => Flat(s, e) = Flat(s, coords) + 1
<1>1. Within(coords, s)
  BY CoordsFacts
<1>2. Carries(coords, s, CarryStop(s))
  BY <1>1, StopFacts
<1>3. Within(e, s)
  BY <1>1, <1>2, TurnFacts
<1>4. e = [d \in 1 .. Len(s) |-> e[d]]
  BY ShapeFacts DEF Turned
<1>5. e \in Coords(s)
  <2>1. Within([d \in 1 .. Len(s) |-> e[d]], s)
    BY <1>3, <1>4
  <2>2. [d \in 1 .. Len(s) |-> e[d]] \in Coords(s)
    BY <2>1, CoordsFacts
  <2> QED
    BY <1>4, <2>2
<1>6. Flat(s, coords) \in 0 .. Numel(s) - 1 /\ Numel(s) \in Nat
  BY <1>1, FlatInRange
<1>7. IF CarryStop(s) = 0 THEN Flat(s, coords) = Numel(s) - 1
      ELSE Flat(s, e) = Flat(s, coords) + 1
  BY <1>1, <1>2, TurnCounts
<1>8. Flat(s, coords) < Numel(s) - 1 => Flat(s, e) = Flat(s, coords) + 1
  BY <1>6, <1>7
<1> QED
  BY <1>3, <1>5, <1>8

\* What a turn does to the offsets.
LEMMA TurnOfOffsets ==
  ASSUME OdometerInv, Turn
  PROVE  /\ coords' = Turned(coords, Walked(call), CarryStop(Walked(call)))
         /\ off' = Offset(call, coords')
<1> DEFINE s == Walked(call)
           stop == CarryStop(s)
<1>1. Walk /\ flat < Numel(s) /\ call \in Calls /\ IsCall(call)
  BY ShapesAssumption DEF Turn, Walk, OdometerInv
<1>2. WalksOver(call)
  BY <1>1, CallsAssumption, Walks DEF Walk
<1>3. /\ Shape(s) /\ coords \in Coords(s) /\ off = Offset(call, coords)
      /\ \A k \in DOMAIN Strides(call) : Ints(Strides(call)[k], Len(s)) /\ Origin(call)[k] \in Int
  BY <1>1, <1>2 DEF WalksOver, OdometerInv
<1>4. DOMAIN off = DOMAIN Strides(call)
      /\ \A k \in DOMAIN Strides(call) : off[k] = Origin(call)[k] + Dot(coords, Strides(call)[k])
  BY <1>3 DEF Offset
<1>5. Within(coords, s) /\ Carries(coords, s, stop)
  BY <1>3, CoordsFacts, StopFacts
<1>6. CASE call.kernel \in Recomputing
  <2>1. Recompute(s, Strides(call))
    BY <1>6 DEF Turn
  <2>2. coords' = Turned(coords, s, stop)
    BY <2>1 DEF Recompute, Turned
  <2>3. off' = [k \in DOMAIN off |-> Origin(call)[k] + Dot(coords', Strides(call)[k])]
    BY <2>1 DEF Recompute
  <2>4. off' = Offset(call, coords')
    BY <1>4, <2>3 DEF Offset
  <2> QED
    BY <2>2, <2>4
<1>7. CASE call.kernel \notin Recomputing
  <2>1. Advance(s, Strides(call))
    BY <1>7 DEF Turn
  <2>2. coords' = Turned(coords, s, stop)
    BY <2>1 DEF Advance, Turned
  <2>3. off' = [k \in DOMAIN off |->
                  off[k] + (IF stop = 0 THEN 0 ELSE Strides(call)[k][stop])
                    - Dot(Wrapped(s, stop), Strides(call)[k])]
    BY <2>1 DEF Advance, Wrapped
  <2> HIDE DEF s, stop
  <2>4. ASSUME NEW k \in DOMAIN Strides(call)
        PROVE  off[k] + (IF stop = 0 THEN 0 ELSE Strides(call)[k][stop])
                    - Dot(Wrapped(s, stop), Strides(call)[k])
               = Origin(call)[k] + Dot(coords', Strides(call)[k])
    <3> DEFINE t == Strides(call)[k]
               g == IF stop = 0 THEN 0 ELSE t[stop]
    <3>1. Ints(t, Len(s)) /\ Origin(call)[k] \in Int
      BY <1>3
    <3>2. /\ Dot(coords', t) = Dot(coords, t) + g - Dot(Wrapped(s, stop), t)
          /\ Dot(coords, t) \in Int /\ Dot(Wrapped(s, stop), t) \in Int
      BY <1>3, <1>5, <2>2, <3>1, TurnDot
    <3>3. off[k] = Origin(call)[k] + Dot(coords, t)
      BY <1>4
    <3>4. g \in Int
      <4>1. stop \in 0 .. Len(s) /\ Len(s) \in Nat
        BY <1>3, <1>5, ShapeFacts DEF Carries
      <4>2. stop # 0 => stop \in 1 .. Len(s)
        BY <4>1
      <4> QED
        BY <3>1, <4>2 DEF Ints
    <3> HIDE DEF g, t
    <3>5. off[k] + g - Dot(Wrapped(s, stop), t) = Origin(call)[k] + Dot(coords', t)
      BY <3>1, <3>2, <3>3, <3>4
    <3> QED
      BY <3>5 DEF g, t
  <2>5. off' = [k \in DOMAIN Strides(call) |-> Origin(call)[k] + Dot(coords', Strides(call)[k])]
    BY <1>4, <2>3, <2>4
  <2>6. off' = Offset(call, coords')
    BY <2>5 DEF Offset
  <2> QED
    BY <2>2, <2>6 DEF s, stop
<1> QED
  BY <1>6, <1>7

\* It holds from one turn to the next.
LEMMA OdometerNext == OdometerInv /\ [Next]_vars => OdometerInv'
<1> SUFFICES ASSUME OdometerInv, [Next]_vars PROVE OdometerInv'
  OBVIOUS
<1>1. CASE Turn
  <2>1. Walk /\ flat < Numel(Walked(call)) /\ call \in Calls /\ IsCall(call)
    BY <1>1, ShapesAssumption DEF Turn, Walk, OdometerInv
  <2>2. WalksOver(call)
    BY <2>1, CallsAssumption, Walks DEF Walk
  <2>3. Shape(Walked(call)) /\ coords \in Coords(Walked(call)) /\ Flat(Walked(call), coords) = flat
        /\ flat \in 0 .. Numel(Walked(call))
    BY <2>1, <2>2 DEF OdometerInv, WalksOver
  <2>4. /\ coords' = Turned(coords, Walked(call), CarryStop(Walked(call)))
        /\ off' = Offset(call, coords')
    BY <1>1, TurnOfOffsets
  <2>5. /\ coords' \in Coords(Walked(call))
        /\ flat < Numel(Walked(call)) - 1 => Flat(Walked(call), coords') = flat + 1
    BY <2>3, <2>4, TurnOfCoords
  <2>6. call' = call /\ flat' = flat + 1
    BY <1>1 DEF Turn
  <2>7. Numel(Walked(call)) \in Nat
    <3>1. Within(coords, Walked(call))
      BY <2>3, CoordsFacts
    <3> QED
      BY <2>3, <3>1, FlatInRange
  <2>8. flat + 1 \in 0 .. Numel(Walked(call))
        /\ (flat + 1 < Numel(Walked(call)) => Flat(Walked(call), coords') = flat + 1)
    BY <2>1, <2>3, <2>5, <2>7
  <2>9. Walked(call)' = Walked(call) /\ Offset(call, coords)' = Offset(call, coords')
    BY <2>6 DEF Offset
  <2> QED
    BY <2>1, <2>4, <2>5, <2>6, <2>8 DEF OdometerInv
<1>2. CASE Return \/ Refuse \/ Run
  <2>1. call' = call /\ pc' # "loop"
    BY <1>2 DEF Return, Refuse, Run
  <2> QED
    BY <2>1 DEF OdometerInv, Walk
<1>3. CASE UNCHANGED vars
  BY <1>3 DEF OdometerInv, Walk, vars, Offset
<1> QED
  BY <1>1, <1>2, <1>3 DEF Next

\* So it holds throughout a call.
LEMMA OdometerSafe == Spec => []OdometerInv
<1> QED
  BY OdometerInit, OdometerNext, PTL DEF Spec

\* kernels_ref.c:54-59: the offsets of a walking kernel are at every turn those
\* of its coordinates, and inside what they index, for every shape, broadcast,
\* permutation, slice and reduction there is.
THEOREM OffsetsFollow == Spec => []OffsetsFollowCoords
<1>1. OdometerInv => OffsetsFollowCoords
  <2> SUFFICES ASSUME OdometerInv, Walk, flat < Numel(Walked(call)), NEW k \in DOMAIN off
               PROVE  /\ off[k] = Origin(call)[k] + Dot(coords, Strides(call)[k])
                      /\ off[k] \in 0 .. Numel(IF call.kernel = "ReduceMean" THEN call.out
                                               ELSE call.ins[k]) - 1
    BY DEF OffsetsFollowCoords, Walk
  <2>1. WalksOver(call) /\ StaysInside(call)
    BY CallsAssumption, ShapesAssumption, Walks DEF Walk, OdometerInv
  <2>2. coords \in Coords(Walked(call)) /\ off = Offset(call, coords) /\ Shape(Walked(call))
    BY <2>1 DEF OdometerInv, WalksOver
  <2>3. Within(coords, Walked(call)) /\ k \in DOMAIN Strides(call)
    BY <2>2, CoordsFacts DEF Offset
  <2>4. off[k] \in 0 .. Numel(Indexed(call, k)) - 1
    BY <2>1, <2>2, <2>3 DEF StaysInside
  <2>5. off[k] = Origin(call)[k] + Dot(coords, Strides(call)[k])
    BY <2>2, <2>3 DEF Offset
  <2> QED
    BY <2>4, <2>5 DEF Indexed
<1> QED
  BY <1>1, OdometerSafe, PTL

\* An operand of the result's own shape is walked as the result is.
LEMMA SameShape ==
  ASSUME NEW s, Shape(s), NEW x \in Coords(s)
  PROVE  Dot(x, BcastStrides(s, s)) = Flat(s, x)
<1> DEFINE n == Len(s)
<1>1. n \in Nat /\ DOMAIN s = 1 .. n /\ \A d \in 1 .. n : s[d] > 0
  BY ShapeFacts
<1>2. Within(x, s)
  BY CoordsFacts
<1>3. Vector(x, n) /\ Ints(RowMajor(s), n)
  BY <1>2, WithinIsVector, WeightsOfShape
<1>4. ASSUME NEW d \in 1 .. n PROVE BcastStrides(s, s)[d] = RowMajor(s)[d]
  <2> DEFINE shift == n - n
  <2>1. shift = 0 /\ d > shift /\ d - shift = d
    BY <1>1
  <2>2. BcastStrides(s, s)[d] = IF d > shift /\ s[d - shift] = s[d] /\ s[d] > 0
                                THEN RowMajor(s)[d - shift] ELSE 0
    BY <1>1 DEF BcastStrides
  <2> QED
    BY <1>1, <2>1, <2>2
<1>5. Ints(BcastStrides(s, s), n) /\ \A d \in 1 .. n : x[d] * BcastStrides(s, s)[d] = x[d] * RowMajor(s)[d]
  BY <1>3, <1>4 DEF Ints
<1> QED
  BY <1>1, <1>3, <1>5, DotEqual DEF Flat

\* alias_analysis.py:100-108: an elementwise kernel may write its result over a
\* first operand of the same shape, whatever that shape is.
THEOREM InPlaceSafe == Spec => []InPlaceReadsFirst
<1>1. OdometerInv => InPlaceReadsFirst
  <2> SUFFICES ASSUME OdometerInv, pc = "loop", call.kernel \in Broadcasting,
                      call.ins[1] = call.out, flat < Numel(Walked(call))
               PROVE  off[1] = flat
    BY DEF InPlaceReadsFirst
  <2>1. IsCall(call) /\ Walk /\ call.kernel \in Broadcasting \cup Batched
    BY ShapesAssumption DEF OdometerInv, Walk, Walking, Mismatch, Broadcasting
  <2>2. Walked(call) = call.out
    BY DEF Walked, Broadcasting, Batched
  <2>3. /\ coords \in Coords(call.out) /\ off = Offset(call, coords)
        /\ Flat(call.out, coords) = flat
    BY <2>1, <2>2 DEF OdometerInv
  <2>4. /\ Strides(call) = [k \in 1 .. 2 |-> BcastStrides(call.ins[k], call.out)]
        /\ Origin(call)[1] = 0
    BY <2>1, TwoOperands
  <2>5. off[1] = 0 + Dot(coords, BcastStrides(call.out, call.out))
    BY <2>3, <2>4 DEF Offset
  <2>6. Dot(coords, BcastStrides(call.out, call.out)) = flat
    BY <2>1, <2>3, CallFacts, SameShape
  <2>7. flat \in Int
    BY <2>1 DEF OdometerInv
  <2> QED
    BY <2>5, <2>6, <2>7
<1> QED
  BY <1>1, OdometerSafe, PTL

-----------------------------------------------------------------------------
(* The elements of walking kernels. *)

\* Coordinates of a shape, as functions and as sequences.
LEMMA CoordsFunction ==
  ASSUME NEW s, Shape(s), NEW x \in Coords(s)
  PROVE  /\ x = [d \in 1 .. Len(s) |-> x[d]] /\ DOMAIN x = 1 .. Len(s) /\ Len(x) = Len(s)
         /\ Within(x, s) /\ Vector(x, Len(s)) /\ x \in Seq(Nat)
         /\ \A d \in 1 .. Len(s) : x[d] \in 0 .. s[d] - 1 /\ x[d] \in Nat
<1>1. x \in Seq(Nat) /\ Len(x) = Len(s) /\ Within(x, s)
  BY CoordsFacts
<1>2. x = [d \in 1 .. Len(s) |-> x[d]] /\ DOMAIN x = 1 .. Len(s)
  BY <1>1
<1>3. Vector(x, Len(s))
  BY <1>1, WithinIsVector
<1>4. \A d \in 1 .. Len(s) : x[d] \in 0 .. s[d] - 1
  BY <1>1 DEF Within
<1>5. \A d \in 1 .. Len(s) : x[d] \in Nat
  BY <1>1, <1>2
<1> QED
  BY <1>1, <1>2, <1>3, <1>4, <1>5

\* A function on the dimensions that stays within a shape is a coordinate.
LEMMA IsCoords ==
  ASSUME NEW s, Shape(s), NEW x, x = [d \in 1 .. Len(s) |-> x[d]],
         \A d \in 1 .. Len(s) : x[d] \in 0 .. s[d] - 1
  PROVE  x \in Coords(s)
<1>1. Within([d \in 1 .. Len(s) |-> x[d]], s)
  BY DEF Within
<1>2. [d \in 1 .. Len(s) |-> x[d]] \in Coords(s)
  BY <1>1, CoordsFacts
<1> QED
  BY <1>2

\* Coordinates are equal where their numbers are.
LEMMA SameCoords ==
  ASSUME NEW s, Shape(s), NEW x \in Coords(s), NEW y \in Coords(s),
         \A d \in 1 .. Len(s) : x[d] = y[d]
  PROVE  x = y
<1>1. x = [d \in 1 .. Len(s) |-> x[d]] /\ y = [d \in 1 .. Len(s) |-> y[d]]
  BY CoordsFunction
<1> QED
  BY <1>1

\* An operand is stretched as the operator has it.
LEMMA StretchedIs ==
  ASSUME NEW in, Shape(in), NEW out, Shape(out), Stretches(in, out), NEW x \in Coords(out)
  PROVE  Dot(x, BcastStrides(in, out)) = Stretched(in, x)
<1> DEFINE shift == Len(out) - Len(in)
           y == Folded(in, shift, Len(out), x)
           z == [d \in DOMAIN in |-> IF in[d] = 1 THEN 0 ELSE x[d + Len(x) - Len(in)]]
<1>1. Along(in, out, Len(out))
  BY StretchesAlong
<1>2. /\ DOMAIN x = 1 .. Len(out) /\ Len(x) = Len(out)
      /\ \A d \in 1 .. Len(out) : x[d] \in 0 .. out[d] - 1
  BY CoordsFunction
<1>3. Dot(x, BcastStrides(in, out)) = Flat(in, y)
  BY <1>1, <1>2, StretchedDot
<1>4. Len(in) \in Nat /\ Len(out) \in Nat /\ DOMAIN in = 1 .. Len(in)
  BY ShapeFacts
<1>5. \A e \in 1 .. Len(in) : e + shift <= Len(out) /\ e + shift = e + Len(x) - Len(in)
  BY <1>2, <1>4
<1>6. \A e \in 1 .. Len(in) :
        (IF e + shift > Len(out) \/ in[e] = 1 THEN 0 ELSE x[e + shift])
          = (IF in[e] = 1 THEN 0 ELSE x[e + Len(x) - Len(in)])
  <2> SUFFICES ASSUME NEW e \in 1 .. Len(in)
               PROVE  (IF e + shift > Len(out) \/ in[e] = 1 THEN 0 ELSE x[e + shift])
                        = (IF in[e] = 1 THEN 0 ELSE x[e + Len(x) - Len(in)])
    OBVIOUS
  <2>1. ~(e + shift > Len(out)) /\ e + shift = e + Len(x) - Len(in)
    BY <1>4, <1>5
  <2> HIDE DEF shift
  <2> QED
    BY <2>1
<1>7. y = z
  BY <1>4, <1>6 DEF Folded
<1> QED
  BY <1>3, <1>7 DEF Stretched

\* A pair is a function on 1 and 2.
LEMMA PairIs ==
  ASSUME NEW f
  PROVE  [k \in 1 .. 2 |-> f[k]] = <<f[1], f[2]>>
OBVIOUS

\* Elementwise kernels combine the elements that broadcasting pairs.
LEMMA BroadcastMeans ==
  ASSUME NEW c, IsCall(c), c.kernel \in Broadcasting, NEW x \in Coords(c.out)
  PROVE  {Offset(c, x)} = Meaning(c, x)
<1>1. /\ Strides(c) = [k \in 1 .. 2 |-> BcastStrides(c.ins[k], c.out)]
      /\ DOMAIN Strides(c) = 1 .. 2 /\ \A k \in 1 .. 2 : Origin(c)[k] = 0
      /\ \A k \in {1, 2} : Shape(c.ins[k])
  BY TwoOperands
<1>2. Shape(c.out) /\ Stretches(c.ins[1], c.out) /\ Stretches(c.ins[2], c.out)
  BY CallFacts DEF IsCall, Broadcasting
<1> DEFINE f == [k \in 1 .. 2 |-> Stretched(c.ins[k], x)]
<1>3. ASSUME NEW k \in 1 .. 2 PROVE Origin(c)[k] + Dot(x, Strides(c)[k]) = f[k]
  <2>1. Shape(c.ins[k]) /\ Stretches(c.ins[k], c.out)
    BY <1>1, <1>2
  <2>2. Dot(x, BcastStrides(c.ins[k], c.out)) = Stretched(c.ins[k], x)
    BY <1>2, <2>1, StretchedIs
  <2>3. Stretched(c.ins[k], x) \in Int
    <3>1. Along(c.ins[k], c.out, Len(c.out))
      BY <1>2, <2>1, StretchesAlong
    <3>2. DOMAIN x = 1 .. Len(c.out) /\ \A d \in 1 .. Len(c.out) : x[d] \in 0 .. c.out[d] - 1
      BY <1>2, CoordsFunction
    <3> DEFINE y == Folded(c.ins[k], Len(c.out) - Len(c.ins[k]), Len(c.out), x)
    <3>3. Within(y, c.ins[k]) /\ Dot(x, BcastStrides(c.ins[k], c.out)) = Flat(c.ins[k], y)
      BY <1>2, <2>1, <3>1, <3>2, StretchedDot
    <3>4. Flat(c.ins[k], y) \in 0 .. Numel(c.ins[k]) - 1 /\ Numel(c.ins[k]) \in Nat
      BY <2>1, <3>3, FlatInRange
    <3> HIDE DEF y
    <3>5. Flat(c.ins[k], y) \in Int
      BY <3>4
    <3> QED
      BY <2>2, <3>3, <3>5
  <2> QED
    BY <1>1, <2>2, <2>3
<1>4. Offset(c, x) = [k \in 1 .. 2 |-> f[k]]
  BY <1>1, <1>3 DEF Offset
<1>5. Offset(c, x) = <<f[1], f[2]>>
  BY <1>4, PairIs
<1>6. Meaning(c, x) = {<<Stretched(c.ins[1], x), Stretched(c.ins[2], x)>>}
  BY DEF Meaning, Broadcasting, Batched
<1> QED
  BY <1>5, <1>6

\* A copy of the one element z of the first operand that P describes.
LEMMA TransposeMeans ==
  ASSUME NEW c, IsCall(c), c.kernel = "Transpose", NEW x \in Coords(c.out)
  PROVE  {Offset(c, x)} = Meaning(c, x)
<1> DEFINE in == c.ins[1]
           n == Len(in)
           Matching == {y \in Coords(in) : \A d \in 1 .. n : y[Perm(c)[d] + 1] = x[d]}
<1>1. PICK p : Permutes(c, p)
  BY TransposeFacts
<1>2. Shape(c.out) /\ Shape(in)
  BY CallFacts
<1>3. /\ Len(c.out) = n
      /\ \A d \in 1 .. n : p[d] = Perm(c)[d] + 1
      /\ \A d, e \in 1 .. n : p[d] = p[e] => d = e
      /\ \A e \in 1 .. n : \E d \in 1 .. n : p[d] = e
      /\ DOMAIN Strides(c) = 1 .. 1 /\ Origin(c)[1] = 0
  BY <1>1 DEF Permutes
<1>4. Within(x, c.out) /\ Len(x) = n
  BY <1>2, <1>3, CoordsFunction
<1>5. PICK z \in Coords(in) : \A d \in 1 .. n : z[p[d]] = x[d]
  BY <1>1, <1>4, TransposeBack
<1> HIDE DEF in, n
<1>6. Matching = {z}
  <2>1. z \in Matching
    BY <1>3, <1>5
  <2>2. ASSUME NEW y \in Matching PROVE y = z
    <3>1. ASSUME NEW e \in 1 .. n PROVE y[e] = z[e]
      <4>1. PICK d \in 1 .. n : p[d] = e
        BY <1>3
      <4>2. y[p[d]] = x[d] /\ z[p[d]] = x[d]
        BY <1>3, <1>5
      <4> QED
        BY <4>1, <4>2
    <3> QED
      BY <1>2, <3>1, SameCoords DEF n
  <2> QED
    BY <2>1, <2>2
<1>7. Within(z, in)
  BY <1>2, CoordsFacts
<1>8. Dot(x, Strides(c)[1]) = Flat(in, z) /\ Flat(in, z) \in Int
  <2>1. Dot(x, Strides(c)[1]) = Flat(in, z)
    BY <1>1, <1>4, <1>5, <1>7, TransposeDot DEF in, n
  <2> QED
    BY <1>2, <1>7, <2>1, FlatInRange
<1>9. Offset(c, x) = <<Flat(in, z)>>
  <2>1. Origin(c)[1] + Dot(x, Strides(c)[1]) = Flat(in, z)
    BY <1>3, <1>8
  <2>2. Offset(c, x) = [k \in 1 .. 1 |-> Flat(in, z)]
    BY <1>3, <2>1 DEF Offset
  <2> QED
    BY <2>2
<1>10. Meaning(c, x) = {<<Flat(in, y)>> : y \in Matching}
  <2>1. Len(x) = n
    BY <1>4
  <2>2. Meaning(c, x) = Copied(c, LAMBDA y : \A d \in 1 .. Len(x) : y[Perm(c)[d] + 1] = x[d])
    BY DEF Meaning, Broadcasting, Batched
  <2> QED
    BY <2>1, <2>2 DEF Copied, in
<1> QED
  BY <1>6, <1>9, <1>10

-----------------------------------------------------------------------------
(* What a slice selects. *)

\* The first m numbers from s in steps of t.
Progression(s, t, m) == {s + i * t : i \in 0 .. m - 1}

\* It has m elements, in their order.
LEMMA ProgressionFacts ==
  ASSUME NEW s \in Int, NEW t \in Nat, t >= 1
  PROVE  /\ \A m \in Nat : IsFiniteSet(Progression(s, t, m)) /\ Cardinality(Progression(s, t, m)) = m
         /\ \A i \in Int, j \in Int : s + i * t \in Int /\ (s + i * t < s + j * t <=> i < j)
<1>1. ASSUME NEW i \in Int, NEW j \in Int
      PROVE  s + i * t \in Int /\ (i < j => s + i * t < s + j * t)
  <2>1. i * t \in Int /\ j * t \in Int
    OBVIOUS
  <2>2. CASE i < j
    <3>1. (i + 1) * t <= j * t
      <4>1. i + 1 \in Int /\ i + 1 <= j
        BY <2>2
      <4> QED
        BY <4>1, TimesMonotone
    <3>2. ASSUME NEW a \in Int, NEW b \in Int PROVE (a + 1) * b = a * b + b
      OBVIOUS
    <3>3. (i + 1) * t = i * t + t
      BY <3>2
    <3> DEFINE u == i * t
               v == j * t
               z == (i + 1) * t
    <3>4. u \in Int /\ v \in Int /\ z <= v /\ z = u + t
      BY <2>1, <3>1, <3>3
    <3> HIDE DEF u, v, z
    <3>5. s + u < s + v
      BY <3>4
    <3>6. s + u \in Int
      BY <3>4
    <3> QED
      BY <3>5, <3>6 DEF u, v
  <2>3. s + i * t \in Int
    BY <2>1
  <2> QED
    BY <2>2, <2>3
<1>2. ASSUME NEW i \in Int, NEW j \in Int PROVE s + i * t < s + j * t <=> i < j
  <2> DEFINE u == s + i * t
             v == s + j * t
  <2>1. u \in Int /\ v \in Int /\ (i < j => u < v) /\ (j < i => v < u) /\ (i = j => u = v)
    BY <1>1
  <2> HIDE DEF u, v
  <2>2. u < v <=> i < j
    BY <2>1
  <2> QED
    BY <2>2 DEF u, v
<1>3. ASSUME NEW m \in Nat
      PROVE  IsFiniteSet(Progression(s, t, m)) /\ Cardinality(Progression(s, t, m)) = m
  <2> DEFINE S == 0 .. m - 1
             T == Progression(s, t, m)
             f == [i \in S |-> s + i * t]
  <2>1. IsFiniteSet(S) /\ Cardinality(S) = m
    <3>1. IsFiniteSet(S) /\ Cardinality(S) = IF 0 > m - 1 THEN 0 ELSE m - 1 - 0 + 1
      BY FS_Interval
    <3> QED
      BY <3>1
  <2>2. f \in Surjection(S, T)
    BY DEF Surjection, Progression
  <2>3. f \in Injection(S, T)
    <3>1. \A i, j \in S : f[i] = f[j] => i = j
      <4> SUFFICES ASSUME NEW i \in S, NEW j \in S, f[i] = f[j] PROVE i = j
        OBVIOUS
      <4>1. i \in Int /\ j \in Int /\ s + i * t = s + j * t
        OBVIOUS
      <4>2. s + i * t \in Int /\ s + j * t \in Int
        BY <1>1, <4>1
      <4> DEFINE u == s + i * t
                 v == s + j * t
      <4>3. u \in Int /\ v \in Int /\ u = v /\ (i < j => u < v) /\ (j < i => v < u)
        BY <1>1, <4>1, <4>2
      <4> HIDE DEF u, v
      <4> QED
        BY <4>1, <4>3
    <3>2. f \in [S -> T]
      BY DEF Progression
    <3> HIDE DEF f, S, T
    <3> QED
      BY <3>1, <3>2 DEF Injection, IsInjective
  <2>4. ExistsBijection(S, T)
    BY <2>2, <2>3 DEF ExistsBijection, Bijection
  <2> HIDE DEF S, T, f
  <2>5. IsFiniteSet(T) /\ Cardinality(T) = m
    BY <2>1, <2>4, FS_Bijection
  <2> QED
    BY <2>5 DEF T
<1> QED
  BY <1>1, <1>2, <1>3

\* The number of steps of t that stay below length l.
Steps(l, t) == IF l > 0 THEN (l + t - 1) \div t ELSE 0

\* How many steps it takes to pass a length.
LEMMA StepsFacts ==
  ASSUME NEW l \in Int, NEW t \in Nat, t >= 1
  PROVE  /\ Steps(l, t) \in Nat
         /\ \A q \in Nat : q * t \in Nat /\ (q < Steps(l, t) <=> q * t < l)
<1>1. CASE l > 0
  <2> DEFINE v == l + t - 1
             m == v \div t
             r == v % t
             w == m * t
  <2>1. v \in Int /\ t \in Int /\ t > 0
    OBVIOUS
  <2>2. m \in Int /\ r \in 0 .. t - 1 /\ v = w + r
    <3> HIDE DEF v
    <3> QED
      BY <2>1, DivMod
  <2>3. Steps(l, t) = m
    BY <1>1 DEF Steps
  <2> HIDE DEF m, r, v
  <2>4. w \in Int
    BY <2>2
  <2>5. m >= 0
    <3>1. CASE m < 0
      <4>1. m <= -1 /\ -1 \in Int /\ (-1) * t = -t
        BY <2>2, <3>1
      <4>2. w <= -t
        BY <2>2, <4>1, TimesMonotone
      <4> HIDE DEF w
      <4> QED
        BY <1>1, <2>1, <2>2, <2>4, <4>2 DEF v
    <3> QED
      BY <2>2, <3>1
  <2>6. ASSUME NEW q \in Nat PROVE q * t \in Nat /\ (q < m <=> q * t < l)
    <3> DEFINE u == q * t
    <3>1. u \in Nat
      BY TimesNat
    <3>2. q < m => u + t <= w
      <4>1. CASE q < m
        <5>1. q + 1 \in Int /\ q + 1 <= m
          BY <2>2, <4>1
        <5>2. (q + 1) * t <= w
          BY <2>2, <5>1, TimesMonotone
        <5>3. ASSUME NEW a \in Int, NEW b \in Int PROVE (a + 1) * b = a * b + b
          OBVIOUS
        <5>4. (q + 1) * t = u + t
          BY <5>3
        <5> QED
          BY <5>2, <5>4
      <4> QED
        BY <4>1
    <3>3. q >= m => u >= w
      <4>1. CASE q >= m
        <5>1. m \in Int /\ q \in Int /\ m <= q
          BY <2>2, <4>1
        <5>2. m * t <= q * t
          BY <5>1, TimesMonotone
        <5>3. w \in Int /\ u \in Int
          BY <2>4, <3>1
        <5> HIDE DEF w, u
        <5> QED
          BY <5>2, <5>3 DEF w, u
      <4> QED
        BY <4>1
    <3> HIDE DEF u, w
    <3>4. q < m <=> u < l
      BY <2>1, <2>2, <2>4, <3>1, <3>2, <3>3 DEF v
    <3> QED
      BY <3>1, <3>4 DEF u
  <2> QED
    BY <2>2, <2>3, <2>5, <2>6
<1>2. CASE ~(l > 0)
  <2>1. Steps(l, t) = 0
    BY <1>2 DEF Steps
  <2>2. \A q \in Nat : q * t \in Nat
    BY TimesNat
  <2>3. \A q \in Nat : ~(q < 0) /\ ~(q * t < l)
    BY <1>2, <2>2
  <2> QED
    BY <2>1, <2>2, <2>3
<1> QED
  BY <1>1, <1>2

\* What a forward slice selects, and where it ends.
Ascending(s, dim, end, t) == {p \in s .. dim - 1 : p < end /\ (p - s) % t = 0}

Short(end, dim) == IF end < dim THEN end ELSE dim

\* The positions a forward slice selects, one by one.
LEMMA PositionsAscend ==
  ASSUME NEW s \in Nat, NEW dim \in Nat, NEW end \in Int, NEW t \in Nat, t >= 1
  PROVE  Ascending(s, dim, end, t) = Progression(s, t, Steps(Short(end, dim) - s, t))
<1> DEFINE l == Short(end, dim) - s
           m == Steps(l, t)
<1>1. l \in Int /\ \A a \in Int : (s + a <= dim - 1 /\ s + a < end) <=> a < l
  BY DEF Short
<1> HIDE DEF l
<1>2. m \in Nat /\ \A q \in Nat : q * t \in Nat /\ (q < m <=> q * t < l)
  BY <1>1, StepsFacts
<1> HIDE DEF m
<1>3. ASSUME NEW p \in s .. dim - 1, p < end, (p - s) % t = 0 PROVE p \in Progression(s, t, m)
  <2> DEFINE q == (p - s) \div t
             r == (p - s) % t
  <2>1. p - s \in Nat /\ t > 0 /\ t \in Int
    OBVIOUS
  <2>2. q \in Int /\ p - s = q * t + r
    BY <2>1, DivMod
  <2>3. q * t \in Int /\ q * t = p - s
    BY <1>3, <2>1, <2>2
  <2> HIDE DEF q, r
  <2>4. q >= 0
    <3>1. CASE q < 0
      <4>1. q <= -1 /\ -1 \in Int /\ (-1) * t = -t
        BY <2>2, <3>1
      <4>2. q * t <= -t
        BY <2>2, <4>1, TimesMonotone
      <4> QED
        BY <2>1, <2>3, <4>2
    <3> QED
      BY <2>2, <3>1
  <2>5. q \in Nat /\ q * t < l /\ s + q * t = p
    <3>1. s + (p - s) = p /\ s + (p - s) <= dim - 1 /\ s + (p - s) < end /\ p - s \in Int
      BY <1>3
    <3>2. p - s < l
      BY <1>1, <3>1
    <3> QED
      BY <2>2, <2>3, <2>4, <3>1, <3>2
  <2>6. q \in 0 .. m - 1
    BY <1>2, <2>5
  <2> QED
    BY <2>5, <2>6 DEF Progression
<1>4. ASSUME NEW q \in 0 .. m - 1
      PROVE  s + q * t \in s .. dim - 1 /\ s + q * t < end /\ ((s + q * t) - s) % t = 0
  <2> DEFINE u == q * t
  <2>1. u \in Nat /\ u < l
    BY <1>2
  <2>2. (q * t + 0) % t = 0
    <3>1. q \in Int /\ 0 \in Int /\ t \in Int /\ 0 <= 0 /\ 0 < t
      OBVIOUS
    <3> QED
      BY <3>1, DivUnique
  <2>3. u + 0 = u
    BY <2>1
  <2>4. u % t = 0
    BY <2>2, <2>3
  <2> HIDE DEF u
  <2>5. (s + u) - s = u /\ s + u \in s .. dim - 1 /\ s + u < end
    BY <1>1, <2>1
  <2>6. s + u \in s .. dim - 1 /\ s + u < end /\ ((s + u) - s) % t = 0
    BY <2>4, <2>5
  <2> QED
    BY <2>6 DEF u
<1>5. Ascending(s, dim, end, t) = Progression(s, t, m)
  BY <1>3, <1>4 DEF Progression, Ascending
<1> QED
  BY <1>5 DEF m, l

\* What a dimension that no selection names keeps, and what the one that names
\* it says of a dimension.
Untouched(c, d) ==
  /\ \A k \in DOMAIN c.starts : Named(c, k) # d
  /\ Selection(c, d) = [start |-> 0, end |-> c.ins[1][d], step |-> 1]
  /\ Positions(c, d) = 0 .. c.ins[1][d] - 1

FirstOf(a, step, dim) ==
  IF a < 0 THEN 0 ELSE IF step < 0 /\ a >= dim THEN dim - 1 ELSE a

Touched(c, d, k) ==
  LET dim == c.ins[1][d]
      s == Clamp(ToInt(c.starts[k]), dim)
      e == Clamp(ToInt(c.ends[k]), dim)
      step == ToInt(c.steps[k])
      first == FirstOf(Axis(c.starts[k], dim), c.steps[k], dim)
  IN  /\ k \in DOMAIN c.starts /\ k \in DOMAIN c.steps /\ Named(c, k) = d
      /\ \A l \in DOMAIN c.starts : Named(c, l) = d => l = k
      /\ c.starts[k] \in Int /\ c.ends[k] \in Int /\ c.steps[k] \in Int /\ c.steps[k] # 0
      /\ Selection(c, d) = [start |-> s, end |-> IF e < s THEN s ELSE e,
                            step |-> IF step <= 0 THEN 1 ELSE step]
      /\ Positions(c, d) =
           IF c.steps[k] > 0
           THEN {p \in first .. dim - 1 : p < Axis(c.ends[k], dim) /\ (p - first) % c.steps[k] = 0}
           ELSE {p \in 0 .. first : p > Axis(c.ends[k], dim) /\ (first - p) % -c.steps[k] = 0}

\* A dimension is named by one selection or by none.
LEMMA NamedOnce ==
  ASSUME NEW c, IsCall(c), c.kernel = "Slice", NEW d \in 1 .. Len(c.out)
  PROVE  Untouched(c, d) \/ \E k : Touched(c, d, k)
<1> DEFINE sel == {k \in DOMAIN c.starts : Named(c, k) = d}
           dim == c.ins[1][d]
<1>1. IsSlice(c)
  BY DEF IsCall, Broadcasting
<1>2. /\ c.starts \in Seq(Int) /\ c.ends \in Seq(Int) /\ c.steps \in Seq(Int)
      /\ Len(c.ends) = Len(c.starts) /\ Len(c.steps) = Len(c.starts)
      /\ \A k \in DOMAIN c.starts : c.steps[k] # 0
      /\ \A k, l \in DOMAIN c.starts : Named(c, k) = Named(c, l) => k = l
  BY <1>1 DEF IsSlice
<1>3. CASE sel = {}
  <2>1. Selection(c, d) = [start |-> 0, end |-> dim, step |-> 1]
    BY <1>3 DEF Selection
  <2>2. Positions(c, d) = 0 .. dim - 1
    BY <1>3 DEF Positions
  <2>3. \A k \in DOMAIN c.starts : Named(c, k) # d
    BY <1>3
  <2> QED
    BY <2>1, <2>2, <2>3 DEF Untouched
<1>4. ASSUME NEW k \in sel PROVE Touched(c, d, k)
  <2>1. k \in DOMAIN c.starts /\ Named(c, k) = d
    OBVIOUS
  <2>2. \A l \in DOMAIN c.starts : Named(c, l) = d => l = k
    BY <1>2, <2>1
  <2>3. sel = {k}
    BY <2>1, <2>2
  <2>4. k \in 1 .. Len(c.starts) /\ k \in 1 .. Len(c.ends) /\ k \in 1 .. Len(c.steps)
        /\ k \in DOMAIN c.steps
    BY <1>2, <2>1
  <2>5. c.starts[k] \in Int /\ c.ends[k] \in Int /\ c.steps[k] \in Int /\ c.steps[k] # 0
    BY <1>2, <2>1, <2>4, ElementOf
  <2>6. (CHOOSE x \in sel : \A y \in sel : y <= x) = k
    <3>1. k <= k
      BY <2>4
    <3>2. \E x \in sel : \A y \in sel : y <= x
      BY <2>3, <3>1
    <3>3. (CHOOSE x \in sel : \A y \in sel : y <= x) \in sel
      BY <3>2
    <3> QED
      BY <2>3, <3>3
  <2>7. (CHOOSE x \in sel : TRUE) = k
    <3>1. (CHOOSE x \in sel : TRUE) \in sel
      BY <2>3
    <3> QED
      BY <2>3, <3>1
  <2> DEFINE s == Clamp(ToInt(c.starts[k]), dim)
             e == Clamp(ToInt(c.ends[k]), dim)
             step == ToInt(c.steps[k])
             first == FirstOf(Axis(c.starts[k], dim), c.steps[k], dim)
  <2>8. Selection(c, d) = [start |-> s, end |-> IF e < s THEN s ELSE e,
                           step |-> IF step <= 0 THEN 1 ELSE step]
    <3> DEFINE top == CHOOSE x \in sel : \A y \in sel : y <= x
               Of(l) == [start |-> Clamp(ToInt(c.starts[l]), dim),
                         end |-> IF Clamp(ToInt(c.ends[l]), dim) < Clamp(ToInt(c.starts[l]), dim)
                                 THEN Clamp(ToInt(c.starts[l]), dim)
                                 ELSE Clamp(ToInt(c.ends[l]), dim),
                         step |-> IF ToInt(c.steps[l]) <= 0 THEN 1 ELSE ToInt(c.steps[l])]
    <3>1. sel # {}
      OBVIOUS
    <3>2. Selection(c, d) = IF sel = {} THEN [start |-> 0, end |-> dim, step |-> 1] ELSE Of(top)
      BY DEF Selection
    <3>3. top = k
      BY <2>6
    <3>4. Selection(c, d) = Of(top)
      BY <3>1, <3>2
    <3>5. Of(k) = [start |-> s, end |-> IF e < s THEN s ELSE e,
                   step |-> IF step <= 0 THEN 1 ELSE step]
      OBVIOUS
    <3> HIDE DEF top, Of
    <3> QED
      BY <3>3, <3>4, <3>5
  <2>9. Positions(c, d) =
           IF c.steps[k] > 0
           THEN {p \in first .. dim - 1 : p < Axis(c.ends[k], dim) /\ (p - first) % c.steps[k] = 0}
           ELSE {p \in 0 .. first : p > Axis(c.ends[k], dim) /\ (first - p) % -c.steps[k] = 0}
    <3>1. sel # {}
      OBVIOUS
    <3> QED
      BY <2>7, <3>1 DEF Positions, FirstOf
  <2> QED
    BY <2>1, <2>2, <2>4, <2>5, <2>8, <2>9 DEF Touched
<1> QED
  BY <1>3, <1>4

\* The sizes that a dimension of a slice has.
LEMMA SliceSizes ==
  ASSUME NEW c, IsCall(c), c.kernel = "Slice", NEW d \in 1 .. Len(c.out)
  PROVE  /\ c.ins[1][d] \in Nat /\ c.ins[1][d] > 0 /\ c.ins[1][d] < IntSpan \div 2
         /\ c.out[d] \in Nat /\ c.out[d] > 0 /\ c.out[d] = Cardinality(Positions(c, d))
<1>1. Shape(c.out) /\ Shape(c.ins[1]) /\ Len(c.out) = Len(c.ins[1]) /\ IsSlice(c)
  BY CallFacts, SliceFacts DEF IsCall, Broadcasting
<1>2. DOMAIN c.ins[1] = 1 .. Len(c.out)
  BY <1>1, ShapeFacts
<1>3. c.ins[1][d] \in Nat /\ c.ins[1][d] > 0 /\ c.out[d] \in Nat /\ c.out[d] > 0
  BY <1>1, ShapeFacts
<1>4. /\ c.ins[1][d] < IntSpan \div 2
      /\ c.out = [e \in 1 .. Len(c.out) |-> Cardinality(Positions(c, e))]
  BY <1>1, <1>2 DEF IsSlice
<1>5. c.out[d] = Cardinality(Positions(c, d))
  BY <1>4
<1> QED
  BY <1>3, <1>4, <1>5

\* A bound that fits is clamped to where the positions begin and end.
LEMMA ClampIs ==
  ASSUME NEW v \in Int, NEW dim \in Nat
  PROVE  /\ Clamp(v, dim) = IF Axis(v, dim) < 0 THEN 0
                            ELSE IF Axis(v, dim) > dim THEN dim ELSE Axis(v, dim)
         /\ Axis(v, dim) \in Int
BY DEF Clamp, Axis

\* Nothing to divide.
LEMMA SmallQuotient ==
  ASSUME NEW r \in Int, NEW b \in Int, 0 <= r, r < b
  PROVE  r \div b = 0 /\ r % b = r
<1>1. (0 * b + r) \div b = 0 /\ (0 * b + r) % b = r
  BY DivUnique
<1>2. 0 * b + r = r
  OBVIOUS
<1> QED
  BY <1>1, <1>2

\* Forwards, a slice selects the positions at multiples of its step.
LEMMA Forwards ==
  ASSUME NEW c, IsCall(c), c.kernel = "Slice", CallsAssumption,
         NEW d \in 1 .. Len(c.out), NEW k, Touched(c, d, k), c.steps[k] > 0
  PROVE  LET dim == c.ins[1][d]
             first == FirstOf(Axis(c.starts[k], dim), c.steps[k], dim)
             end == Axis(c.ends[k], dim)
             l == (IF end < dim THEN end ELSE dim) - first
         IN  /\ first \in Nat /\ end \in Int /\ c.steps[k] \in Nat
             /\ Positions(c, d) = Progression(first, c.steps[k], c.out[d])
             /\ c.out[d] = (l + c.steps[k] - 1) \div c.steps[k] /\ l > 0
             /\ first = Clamp(c.starts[k], dim)
             /\ c.out[d] > 1 => c.steps[k] < dim
<1> DEFINE dim == c.ins[1][d]
           t == c.steps[k]
           a == Axis(c.starts[k], dim)
           first == FirstOf(a, t, dim)
           end == Axis(c.ends[k], dim)
           l == (IF end < dim THEN end ELSE dim) - first
           m == Steps(l, t)
<1>1. dim \in Nat /\ c.out[d] \in Nat /\ c.out[d] > 0 /\ c.out[d] = Cardinality(Positions(c, d))
  BY SliceSizes
<1>2. c.starts[k] \in Int /\ c.ends[k] \in Int /\ t \in Nat /\ t >= 1
  BY DEF Touched
<1>3. a \in Int /\ end \in Int
  BY <1>1, <1>2, ClampIs
<1>4. first = (IF a < 0 THEN 0 ELSE a) /\ first \in Nat
  <2> HIDE DEF a, t, dim
  <2> QED
    BY <1>2, <1>3 DEF FirstOf
<1>5. Positions(c, d) = {p \in first .. dim - 1 : p < end /\ (p - first) % t = 0}
  BY DEF Touched
<1>6. Clamp(c.starts[k], dim) = IF a < 0 THEN 0 ELSE IF a > dim THEN dim ELSE a
  BY <1>1, <1>2, ClampIs
<1> HIDE DEF dim, t, a, first, end
<1>7. Positions(c, d) = Progression(first, t, m)
  <2>1. Ascending(first, dim, end, t) = Progression(first, t, Steps(Short(end, dim) - first, t))
    <3> HIDE DEF l, m
    <3>1. first \in Nat /\ dim \in Nat /\ end \in Int /\ t \in Nat /\ t >= 1
      BY <1>1, <1>2, <1>3, <1>4
    <3> QED
      BY <3>1, PositionsAscend
  <2>2. Positions(c, d) = Ascending(first, dim, end, t)
    BY <1>5 DEF Ascending
  <2> QED
    BY <2>1, <2>2 DEF m, l, Short
<1>8. l \in Int
  BY <1>1, <1>3, <1>4
<1> HIDE DEF l
<1>9. m \in Nat
  BY <1>2, <1>8, StepsFacts
<1>10. Cardinality(Progression(first, t, m)) = m
  <2>1. first \in Int
    BY <1>4
  <2> QED
    BY <1>2, <1>9, <2>1, ProgressionFacts
<1>11. c.out[d] = m
  BY <1>1, <1>7, <1>10
<1>12. l > 0 /\ m = (l + t - 1) \div t
  BY <1>1, <1>8, <1>11 DEF Steps
<1>13. first = Clamp(c.starts[k], dim)
  <2>1. first < dim
    BY <1>1, <1>3, <1>4, <1>12 DEF l
  <2> QED
    BY <1>1, <1>3, <1>4, <1>6, <2>1
<1>14. c.out[d] > 1 => t < dim
  <2>1. CASE c.out[d] > 1
    <3>1. 1 < m /\ 1 \in Nat
      BY <1>11, <2>1
    <3>2. 1 * t < l /\ 1 * t = t
      BY <1>2, <1>8, <3>1, StepsFacts
    <3>3. l <= dim
      BY <1>1, <1>3, <1>4 DEF l
    <3> QED
      BY <1>1, <1>2, <1>8, <3>2, <3>3
  <2> QED
    BY <2>1
<1> QED
  BY <1>2, <1>3, <1>4, <1>7, <1>11, <1>12, <1>13, <1>14 DEF dim, t, a, first, end, l

\* Backwards, the kernel finds nothing to select.
LEMMA Backwards ==
  ASSUME NEW c, IsCall(c), c.kernel = "Slice", CallsAssumption,
         NEW d \in 1 .. Len(c.out), NEW k, Touched(c, d, k), c.steps[k] < 0,
         ToInt(c.starts[k]) = c.starts[k], ToInt(c.ends[k]) = c.ends[k]
  PROVE  Extent(Selection(c, d)) = 0
<1> DEFINE dim == c.ins[1][d]
           a == Axis(c.starts[k], dim)
           b == Axis(c.ends[k], dim)
           first == FirstOf(a, c.steps[k], dim)
           s == Clamp(c.starts[k], dim)
           e == Clamp(c.ends[k], dim)
           u == ToInt(c.steps[k])
           step == IF u <= 0 THEN 1 ELSE u
<1>1. /\ dim \in Nat /\ dim > 0 /\ c.out[d] \in Nat /\ c.out[d] > 0
      /\ c.out[d] = Cardinality(Positions(c, d))
  BY SliceSizes
<1>2. c.starts[k] \in Int /\ c.ends[k] \in Int /\ c.steps[k] \in Int
  BY DEF Touched
<1>3. a \in Int /\ b \in Int
      /\ s = (IF a < 0 THEN 0 ELSE IF a > dim THEN dim ELSE a)
      /\ e = (IF b < 0 THEN 0 ELSE IF b > dim THEN dim ELSE b)
  BY <1>1, <1>2, ClampIs
<1>4. first = IF a < 0 THEN 0 ELSE IF a >= dim THEN dim - 1 ELSE a
  BY DEF FirstOf
<1>5. \A p \in Positions(c, d) : p \in 0 .. first /\ p > b
  <2>1. ~(c.steps[k] > 0)
    BY <1>2
  <2> QED
    BY <2>1 DEF Touched
<1>6. Positions(c, d) # {}
  <2>1. Cardinality({}) = 0
    BY FS_EmptySet
  <2>2. Cardinality(Positions(c, d)) # 0
    BY <1>1
  <2> QED
    BY <2>1, <2>2
<1>7. u \in Int /\ u < IntSpan - IntSpan \div 2
  BY <1>2, ToIntFacts
<1>8. Selection(c, d) = [start |-> s, end |-> IF e < s THEN s ELSE e, step |-> step]
  BY DEF Touched
<1>0. CallsAssumption
  OBVIOUS
<1> HIDE DEF dim, a, b, first, s, e, u
<1>9. s \in Nat /\ e \in Nat /\ e <= s
  <2>1. PICK p \in Positions(c, d) : TRUE
    BY <1>6
  <2>2. p \in 0 .. first /\ p > b
    BY <1>5, <2>1
  <2> QED
    BY <1>1, <1>3, <1>4, <2>2
<1>10. step \in Nat /\ step >= 1 /\ step - 1 \in 0 .. IntSpan - IntSpan \div 2 - 1
  <2> DEFINE h == IntSpan \div 2
             n == IntSpan
  <2>1. n \in Nat /\ n > 0
    BY <1>0 DEF CallsAssumption
  <2>2. h \in Int /\ 0 <= h /\ h < n
    BY <2>1
  <2>3. u \in Int /\ u < n - h
    BY <1>7
  <2> HIDE DEF h, n
  <2>4. step \in Nat /\ step >= 1 /\ step - 1 \in 0 .. n - h - 1
    BY <2>1, <2>2, <2>3
  <2> QED
    BY <2>4 DEF h, n
<1>11. (IF e < s THEN s ELSE e) = s
  BY <1>9
<1> HIDE DEF step
<1>12. Extent(Selection(c, d)) = ToInt(s - s + step - 1) \div step
  BY <1>8, <1>11 DEF Extent
<1>13. s - s + step - 1 = step - 1
  BY <1>9, <1>10
<1>14. ToInt(step - 1) = step - 1
  <2>1. step - 1 \in Int
    BY <1>10
  <2>2. step - 1 \in -(IntSpan \div 2) .. IntSpan - IntSpan \div 2 - 1
    <3> DEFINE h == IntSpan \div 2
               g == IntSpan - h - 1
    <3>1. h \in Int /\ h >= 0
      BY <1>0 DEF CallsAssumption
    <3>2. step - 1 \in 0 .. g /\ g \in Int
      BY <1>0, <1>10, <3>1 DEF CallsAssumption
    <3> HIDE DEF h, g
    <3>3. step - 1 \in -h .. g
      BY <1>10, <3>1, <3>2
    <3> QED
      BY <3>3 DEF h, g
  <2> QED
    BY <1>0, <2>1, <2>2, ToIntFacts
<1>15. (step - 1) \div step = 0
  <2> DEFINE r == step - 1
  <2>1. r \in Int /\ step \in Int /\ 0 <= r /\ r < step
    BY <1>10
  <2> HIDE DEF r
  <2>4. r \div step = 0
    BY <2>1, SmallQuotient
  <2> QED
    BY <2>4 DEF r
<1> QED
  BY <1>12, <1>13, <1>14, <1>15

\* The positions of a dimension, one for each element of the result.
Selects(c, d, t) ==
  /\ t \in Nat /\ t >= 1 /\ ~Descends(c, d)
  /\ Positions(c, d) = Progression(Selection(c, d).start, t, c.out[d])
  /\ c.out[d] > 1 => Selection(c, d).step = t

\* There are such steps, whichever way the bounds were given.
LEMMA SelectedPositions ==
  ASSUME NEW c, IsCall(c), c.kernel = "Slice", CallsAssumption, ~Mismatch(c), ~WrapsAround(c),
         NEW d \in 1 .. Len(c.out)
  PROVE  \E t : Selects(c, d, t)
<1> DEFINE dim == c.ins[1][d]
<1>1. /\ dim \in Nat /\ dim > 0 /\ dim < IntSpan \div 2
      /\ c.out[d] \in Nat /\ c.out[d] > 0 /\ c.out[d] = Cardinality(Positions(c, d))
  BY SliceSizes
<1>2. CASE Untouched(c, d)
  <2>1. /\ Positions(c, d) = 0 .. dim - 1
        /\ Selection(c, d).start = 0 /\ Selection(c, d).step = 1 /\ ~Descends(c, d)
    BY <1>2 DEF Untouched, Descends
  <2> HIDE DEF dim
  <2>2. 0 .. dim - 1 = Progression(0, 1, dim)
    <3>1. ASSUME NEW i \in 0 .. dim - 1 PROVE 0 + i * 1 = i
      OBVIOUS
    <3> QED
      BY <3>1 DEF Progression
  <2>3. Cardinality(Progression(0, 1, dim)) = dim
    <3>1. 0 \in Int /\ 1 \in Nat /\ 1 >= 1
      OBVIOUS
    <3> QED
      BY <1>1, <3>1, ProgressionFacts
  <2>4. Selects(c, d, 1)
    BY <1>1, <2>1, <2>2, <2>3 DEF Selects
  <2> QED
    BY <2>4
<1>3. ASSUME NEW k, Touched(c, d, k) PROVE \E t : Selects(c, d, t)
  <2>1. /\ k \in DOMAIN c.starts /\ Named(c, k) = d /\ c.steps[k] \in Int /\ c.steps[k] # 0
        /\ \A l \in DOMAIN c.starts : Named(c, l) = d => l = k
    BY <1>3 DEF Touched
  <2>2. ToInt(c.starts[k]) = c.starts[k] /\ (c.steps[k] < 0 => ToInt(c.ends[k]) = c.ends[k])
    BY <2>1 DEF WrapsAround
  <2>3. CASE c.steps[k] > 0
    <3> DEFINE t == c.steps[k]
               first == FirstOf(Axis(c.starts[k], dim), t, dim)
    <3>1. /\ t \in Nat /\ Positions(c, d) = Progression(first, t, c.out[d])
          /\ first = Clamp(c.starts[k], dim)
          /\ c.out[d] > 1 => t < dim
      BY <1>3, <2>3, Forwards
    <3>2. Selection(c, d).start = first
      BY <1>3, <2>2, <3>1 DEF Touched
    <3>3. ~Descends(c, d)
      BY <2>1, <2>3 DEF Descends
    <3>4. Selection(c, d).step = IF ToInt(t) <= 0 THEN 1 ELSE ToInt(t)
      BY <1>3 DEF Touched
    <3> HIDE DEF first, t, dim
    <3>5. c.out[d] > 1 => Selection(c, d).step = t
      <4>1. CASE c.out[d] > 1
        <5>1. IntSpan \in Nat /\ IntSpan > 0
          BY DEF CallsAssumption
        <5>2. t \in -(IntSpan \div 2) .. IntSpan - IntSpan \div 2 - 1
          <6> DEFINE h == IntSpan \div 2
          <6>1. h \in Int /\ h >= 0 /\ h + h <= IntSpan
            BY <5>1
          <6>2. t < dim /\ dim < h
            BY <1>1, <3>1, <4>1
          <6> HIDE DEF h
          <6>3. t >= -h /\ t <= IntSpan - h - 1
            BY <1>1, <3>1, <5>1, <6>1, <6>2
          <6>4. -h \in Int /\ IntSpan - h - 1 \in Int
            BY <5>1, <6>1
          <6>5. t \in -h .. IntSpan - h - 1
            BY <3>1, <6>3, <6>4
          <6> QED
            BY <6>5 DEF h
        <5>3. ToInt(t) = t
          BY <3>1, <5>2, ToIntFacts
        <5> QED
          BY <2>3, <3>1, <3>4, <5>3 DEF t
      <4> QED
        BY <4>1
    <3>6. t >= 1
      BY <2>3, <3>1 DEF t
    <3>7. Selects(c, d, t)
      BY <3>1, <3>2, <3>3, <3>5, <3>6 DEF Selects
    <3> QED
      BY <3>7
  <2>4. CASE c.steps[k] < 0
    <3>1. Extent(Selection(c, d)) = 0
      BY <1>3, <2>2, <2>4, Backwards
    <3>2. d \in DOMAIN c.out
      BY CallFacts, ShapeFacts
    <3> QED
      BY <1>1, <3>1, <3>2 DEF Mismatch
  <2> QED
    BY <2>1, <2>3, <2>4
<1> QED
  BY <1>2, <1>3, NamedOnce

\* As many positions come before an element's as its coordinate says.
LEMMA BeforeCounts ==
  ASSUME NEW c, IsCall(c), c.kernel = "Slice", CallsAssumption,
         NEW d \in 1 .. Len(c.out), NEW t, Selects(c, d, t),
         NEW i \in 0 .. c.out[d] - 1
  PROVE  /\ Selection(c, d).start + i * Selection(c, d).step = Selection(c, d).start + i * t
         /\ \A p : p \in Positions(c, d) /\ Cardinality(Before(c, d, p)) = i
                     <=> p = Selection(c, d).start + i * t
<1> DEFINE s == Selection(c, d).start
           u == Selection(c, d).step
           m == c.out[d]
           X == Positions(c, d)
<1>1. s \in Nat /\ u \in Nat
  BY SelectionFacts
<1>2. m \in Nat /\ m > 0
  BY SliceSizes
<1>3. /\ t \in Nat /\ t >= 1 /\ X = Progression(s, t, m) /\ (m > 1 => u = t)
      /\ \A p : Before(c, d, p) = {q \in X : q < p}
  BY DEF Selects, Before
<1> HIDE DEF s, u, m, X
<1>4. s \in Int /\ t \in Nat /\ t >= 1
  BY <1>1, <1>3
<1>5. \A a \in Int, b \in Int : s + a * t \in Int /\ (s + a * t < s + b * t <=> a < b)
  BY <1>4, ProgressionFacts
<1>6. ASSUME NEW j \in 0 .. m - 1 PROVE Cardinality(Before(c, d, s + j * t)) = j
  <2>1. {q \in X : q < s + j * t} = Progression(s, t, j)
    <3>1. ASSUME NEW q \in X, q < s + j * t PROVE q \in Progression(s, t, j)
      <4>1. \E a \in 0 .. m - 1 : q = s + a * t
        BY <1>3 DEF Progression
      <4>2. PICK a \in 0 .. m - 1 : q = s + a * t
        BY <4>1
      <4>3. a \in Int /\ j \in Int
        BY <1>2
      <4>4. a < j
        BY <1>5, <3>1, <4>2, <4>3
      <4>5. a \in 0 .. j - 1
        BY <1>2, <4>4
      <4> QED
        BY <4>2, <4>5 DEF Progression
    <3>2. ASSUME NEW q \in Progression(s, t, j) PROVE q \in X /\ q < s + j * t
      <4>1. \E a \in 0 .. j - 1 : q = s + a * t
        BY DEF Progression
      <4>2. PICK a \in 0 .. j - 1 : q = s + a * t
        BY <4>1
      <4>3. a \in Int /\ j \in Int /\ a < j /\ a \in 0 .. m - 1
        BY <1>2
      <4>4. q < s + j * t
        BY <1>5, <4>2, <4>3
      <4>5. q \in X
        BY <1>3, <4>2, <4>3 DEF Progression
      <4> QED
        BY <4>4, <4>5
    <3> QED
      BY <3>1, <3>2
  <2>2. Cardinality(Progression(s, t, j)) = j
    BY <1>2, <1>4, ProgressionFacts
  <2> QED
    BY <1>3, <2>1, <2>2
<1>7. i \in 0 .. m - 1
  BY DEF m
<1>8. s + i * t \in X
  BY <1>3, <1>7 DEF Progression
<1>9. ASSUME NEW p \in X, Cardinality(Before(c, d, p)) = i PROVE p = s + i * t
  <2>1. \E a \in 0 .. m - 1 : p = s + a * t
    BY <1>3 DEF Progression
  <2>2. PICK a \in 0 .. m - 1 : p = s + a * t
    BY <2>1
  <2>3. Cardinality(Before(c, d, s + a * t)) = a
    BY <1>6
  <2> QED
    BY <1>9, <2>2, <2>3
<1>10. s + i * u = s + i * t
  <2>1. CASE m > 1
    BY <1>3, <2>1
  <2>2. CASE ~(m > 1)
    <3>1. i = 0
      BY <1>2, <1>7, <2>2
    <3>2. 0 * u = 0 /\ 0 * t = 0
      BY <1>1, <1>3
    <3> QED
      BY <3>1, <3>2
  <2> QED
    BY <2>1, <2>2
<1>11. Cardinality(Before(c, d, s + i * t)) = i
  BY <1>6, <1>7
<1>12. \A p : p \in X /\ Cardinality(Before(c, d, p)) = i <=> p = s + i * t
  BY <1>8, <1>9, <1>11
<1> QED
  BY <1>10, <1>12 DEF s, u, X

\* Slice copies the elements at the selected positions.
LEMMA SliceMeans ==
  ASSUME NEW c, IsCall(c), c.kernel = "Slice", CallsAssumption, ~Mismatch(c), ~WrapsAround(c),
         NEW x \in Coords(c.out)
  PROVE  {Offset(c, x)} = Meaning(c, x)
<1> DEFINE in == c.ins[1]
           n == Len(in)
           z == Picked(c, x)
           Fits(y, d) == y[d] \in Positions(c, d) /\ Cardinality(Before(c, d, y[d])) = x[d]
           Matching == {y \in Coords(in) : \A d \in 1 .. n : Fits(y, d)}
<1>1. Shape(c.out) /\ Shape(in)
  BY CallFacts
<1>2. /\ Len(c.out) = n /\ DOMAIN Strides(c) = 1 .. 1
  BY SliceFacts
<1>3. Within(x, c.out) /\ Len(x) = n /\ \A d \in 1 .. n : x[d] \in 0 .. c.out[d] - 1
  BY <1>1, <1>2, CoordsFunction
<1>4. Within(z, in) /\ Origin(c)[1] + Dot(x, Strides(c)[1]) = Flat(in, z)
  BY <1>3, SliceDot
<1>5. z = [d \in 1 .. n |-> z[d]]
      /\ \A d \in 1 .. n : z[d] = Selection(c, d).start + x[d] * Selection(c, d).step
  BY <1>2 DEF Picked
<1>6. \A y : \A d \in 1 .. n : Fits(y, d) <=> y[d] = z[d]
  <2> SUFFICES ASSUME NEW y, NEW d \in 1 .. n PROVE Fits(y, d) <=> y[d] = z[d]
    OBVIOUS
  <2>1. d \in 1 .. Len(c.out) /\ x[d] \in 0 .. c.out[d] - 1
    BY <1>2, <1>3
  <2>2. PICK t : Selects(c, d, t)
    BY <2>1, SelectedPositions
  <2> DEFINE v == Selection(c, d).start + x[d] * t
  <2>3. /\ Selection(c, d).start + x[d] * Selection(c, d).step = v
        /\ \A p : p \in Positions(c, d) /\ Cardinality(Before(c, d, p)) = x[d] <=> p = v
    BY <2>1, <2>2, BeforeCounts
  <2>4. z[d] = v
    BY <1>5, <2>3
  <2> HIDE DEF v
  <2>5. y[d] \in Positions(c, d) /\ Cardinality(Before(c, d, y[d])) = x[d] <=> y[d] = v
    BY <2>3
  <2> QED
    BY <2>4, <2>5
<1>7. Flat(in, z) \in Int
  BY <1>1, <1>4, FlatInRange
<1>8. Offset(c, x) = <<Flat(in, z)>>
  <2>1. Offset(c, x) = [k \in 1 .. 1 |-> Flat(in, z)]
    BY <1>2, <1>4 DEF Offset
  <2> QED
    BY <2>1
<1>9. Meaning(c, x) = {<<Flat(in, y)>> : y \in Matching}
  <2>1. Meaning(c, x) = Copied(c, LAMBDA y : \A d \in 1 .. Len(x) :
                                  /\ y[d] \in Positions(c, d)
                                  /\ Cardinality(Before(c, d, y[d])) = x[d])
    BY DEF Meaning, Broadcasting, Batched
  <2> QED
    BY <1>3, <2>1 DEF Copied
<1> HIDE DEF in, n, Fits, z
<1>10. z \in Coords(in)
  <2>1. \A d \in 1 .. Len(in) : z[d] \in 0 .. in[d] - 1
    BY <1>4 DEF Within
  <2> QED
    BY <1>1, <1>5, <2>1, IsCoords DEF n
<1>11. Matching = {z}
  <2>1. z \in Matching
    BY <1>6, <1>10
  <2>2. ASSUME NEW y \in Matching PROVE y = z
    <3>1. \A d \in 1 .. n : y[d] = z[d]
      BY <1>6
    <3> QED
      BY <1>1, <1>10, <3>1, SameCoords DEF n
  <2> QED
    BY <2>1, <2>2
<1> QED
  BY <1>8, <1>9, <1>11

-----------------------------------------------------------------------------
(* Which slices are refused. *)

\* What a kernel's int holds already.
LEMMA ToIntFits ==
  ASSUME CallsAssumption, NEW v \in Int, NEW w \in Nat, w <= v, ToInt(v) = v
  PROVE  ToInt(w) = w
<1> DEFINE h == IntSpan \div 2
           g == IntSpan - h - 1
<1>1. IntSpan \in Nat /\ IntSpan > 0
  BY DEF CallsAssumption
<1>2. h \in Int /\ h >= 0 /\ g \in Int
  BY <1>1
<1>3. v < IntSpan - h
  <2>1. ToInt(v) < IntSpan - h
    BY ToIntFacts
  <2> QED
    BY <2>1
<1>4. w \in -h .. g
  <2> HIDE DEF h
  <2> QED
    BY <1>1, <1>2, <1>3
<1>5. w \in Int
  OBVIOUS
<1> QED
  BY <1>4, <1>5, ToIntFacts

\* A slice whose extents disagree goes backwards, or its bounds are too wide.
LEMMA OnlyRefuses ==
  ASSUME NEW c, IsCall(c), CallsAssumption, Mismatch(c)
  PROVE  TooWide(c) \/ \E k \in DOMAIN c.steps : c.steps[k] < 0
<1>1. SUFFICES ASSUME ~TooWide(c), ~(\E k \in DOMAIN c.steps : c.steps[k] < 0) PROVE FALSE
  OBVIOUS
<1>2. c.kernel = "Slice" /\ \E d \in DOMAIN c.out : Extent(Selection(c, d)) # c.out[d]
  BY DEF Mismatch
<1>3. PICK d \in DOMAIN c.out : Extent(Selection(c, d)) # c.out[d]
  BY <1>2
<1>4. d \in 1 .. Len(c.out)
  BY CallFacts, ShapeFacts
<1> DEFINE dim == c.ins[1][d]
<1>5. /\ dim \in Nat /\ dim > 0 /\ dim < IntSpan \div 2
      /\ c.out[d] \in Nat /\ c.out[d] > 0 /\ c.out[d] = Cardinality(Positions(c, d))
  BY <1>2, <1>4, SliceSizes
<1>6. CASE Untouched(c, d)
  <2>1. /\ Positions(c, d) = 0 .. dim - 1
        /\ Selection(c, d) = [start |-> 0, end |-> dim, step |-> 1]
    BY <1>6 DEF Untouched
  <2> HIDE DEF dim
  <2>2. Cardinality(0 .. dim - 1) = dim
    <3>1. 0 \in Int /\ dim - 1 \in Int /\ 0 <= dim - 1
      BY <1>5
    <3>2. Cardinality(0 .. dim - 1) = IF 0 > dim - 1 THEN 0 ELSE dim - 1 - 0 + 1
      BY <3>1, FS_Interval
    <3> QED
      BY <1>5, <3>1, <3>2
  <2>3. Extent(Selection(c, d)) = ToInt(dim - 0 + 1 - 1) \div 1
    BY <2>1 DEF Extent
  <2>4. ToInt(dim) = dim
    <3> DEFINE h == IntSpan \div 2
               g == IntSpan - h - 1
    <3>1. IntSpan \in Nat /\ IntSpan > 0
      BY DEF CallsAssumption
    <3>2. h \in Int /\ h >= 0 /\ g \in Int /\ h + h <= IntSpan
      BY <3>1
    <3>3. dim < h
      BY <1>5
    <3>4. dim \in -h .. g
      <4> HIDE DEF h
      <4> QED
        BY <1>5, <3>1, <3>2, <3>3
    <3>5. dim \in Int
      BY <1>5
    <3> QED
      BY <3>4, <3>5, ToIntFacts
  <2>5. dim - 0 + 1 - 1 = dim /\ dim \div 1 = dim
    BY <1>5
  <2> QED
    BY <1>3, <1>5, <2>1, <2>2, <2>3, <2>4, <2>5
<1>7. ASSUME NEW k, Touched(c, d, k) PROVE FALSE
  <2> DEFINE t == c.steps[k]
             a == c.starts[k]
             b == c.ends[k]
             first == FirstOf(Axis(a, dim), t, dim)
             end == Axis(b, dim)
             l == (IF end < dim THEN end ELSE dim) - first
  <2>1. /\ k \in DOMAIN c.starts /\ k \in DOMAIN c.steps /\ Named(c, k) = d
        /\ a \in Int /\ b \in Int /\ t \in Int /\ t # 0
    BY <1>7 DEF Touched
  <2>2. t > 0
    BY <1>1, <2>1
  <2>3. ToInt(a) = a /\ ToInt(b) = b /\ ToInt(t + dim) = t + dim
    BY <1>1, <1>2, <2>1 DEF TooWide
  <2>4. /\ first \in Nat /\ end \in Int /\ t \in Nat
        /\ c.out[d] = (l + t - 1) \div t /\ l > 0
        /\ first = Clamp(a, dim)
    BY <1>2, <1>4, <1>7, <2>2, Forwards
  <2>5. Clamp(b, dim) = IF end < 0 THEN 0 ELSE IF end > dim THEN dim ELSE end
    BY <1>5, <2>1, ClampIs
  <2>6. Selection(c, d) = [start |-> Clamp(a, dim),
                           end |-> IF Clamp(b, dim) < Clamp(a, dim) THEN Clamp(a, dim) ELSE Clamp(b, dim),
                           step |-> IF ToInt(t) <= 0 THEN 1 ELSE ToInt(t)]
    BY <1>7, <2>3 DEF Touched
  <2>7. l \in Int /\ l <= dim
    <3> HIDE DEF first, end, dim
    <3> QED
      BY <1>5, <2>4
  <2>8. Clamp(b, dim) - first = l /\ Clamp(b, dim) \in Int /\ ~(Clamp(b, dim) < first)
    <3> HIDE DEF first, end, dim
    <3> QED
      BY <1>5, <2>4, <2>5
  <2>9. ToInt(t) = t
    <3> HIDE DEF dim, t
    <3>1. t + dim \in Int /\ t \in Nat /\ t <= t + dim
      BY <1>5, <2>4
    <3> QED
      BY <2>3, <3>1, ToIntFits
  <2>10. ToInt(l + t - 1) = l + t - 1
    <3> HIDE DEF dim, t, l
    <3>1. t + dim \in Int /\ l + t - 1 \in Nat /\ l + t - 1 <= t + dim
      BY <1>5, <2>4, <2>7
    <3> QED
      BY <2>3, <3>1, ToIntFits
  <2> DEFINE e == Clamp(b, dim)
  <2>11. Selection(c, d) = [start |-> first, end |-> e, step |-> t]
    <3>1. (IF e < first THEN first ELSE e) = e
      BY <2>8
    <3>2. (IF ToInt(t) <= 0 THEN 1 ELSE ToInt(t)) = t
      <4> HIDE DEF t
      <4>1. t \in Nat /\ t > 0 /\ ToInt(t) = t
        BY <2>2, <2>4, <2>9
      <4> QED
        BY <4>1
    <3> QED
      BY <2>4, <2>6, <3>1, <3>2
  <2>12. Extent(Selection(c, d)) = ToInt(e - first + t - 1) \div t
    BY <2>11 DEF Extent
  <2> HIDE DEF e, first, l, t, dim
  <2>13. e - first + t - 1 = l + t - 1
    BY <2>8 DEF e
  <2> QED
    BY <1>3, <2>4, <2>10, <2>12, <2>13
<1> QED
  BY <1>2, <1>4, <1>6, <1>7, NamedOnce

-----------------------------------------------------------------------------
(* The elements of a mean. *)

\* The input elements that an element of a mean is the mean of.
Agrees(c, x, z) ==
  \A d \in DOMAIN z \ Reduced(c) : z[d] = x[IF c.keepdims THEN d ELSE Place(c, d)]

\* An element of the result where the kept dimensions are.
Spread(c, x) ==
  [d \in 1 .. Len(c.ins[1]) |->
     IF d \in Reduced(c) THEN 0 ELSE x[IF c.keepdims THEN d ELSE Place(c, d)]]

\* It is the same element, whether the reduced dimensions are kept or not.
LEMMA SpreadFlat ==
  ASSUME NEW c, IsCall(c), c.kernel = "ReduceMean", NEW x \in Coords(c.out)
  PROVE  Spread(c, x) \in Coords(Full(c)) /\ Flat(Full(c), Spread(c, x)) = Flat(c.out, x)
<1> DEFINE in == c.ins[1]
           n == Len(in)
           F == Full(c)
           K == KeptShape(c)
           R == Reduced(c)
           y == Spread(c, x)
<1>1. /\ Shape(in) /\ Shape(c.out) /\ c.out = IF c.keepdims THEN F ELSE K
  BY ReduceFacts
<1>2. PICK P : Counts(c, P)
  BY <1>1, PlaceCounts
<1>3. /\ Shape(F) /\ Len(F) = n /\ n \in Nat
      /\ \A d \in 1 .. n : d \notin R => RowMajor(F)[d] = RowMajor(K)[P[d]]
  BY <1>1, <1>2, FullFacts, ShapeFacts
<1>4. /\ Shape(K) /\ Len(K) = P[n] /\ P[n] \in Nat
      /\ \A d \in 1 .. n : d \notin R => K[P[d]] = in[d]
  BY <1>1, <1>2, KeptFacts, ShapeFacts
<1>5. /\ \A d \in 1 .. n, e \in 1 .. n : d < e /\ e \notin R => P[d] < P[e]
      /\ \A e \in 1 .. n : e \notin R => P[e] \in 1 .. P[n]
      /\ \A k \in 1 .. P[n] : \E e \in 1 .. n : e \notin R /\ P[e] = k
  BY <1>1, <1>2, PlaceOrder
<1>6. \A d \in 1 .. n : P[d] = Place(c, d)
  BY <1>2, <1>3 DEF Counts
<1>7. \A d \in 1 .. n : F[d] = IF d \in R THEN 1 ELSE in[d]
  BY DEF Full
<1>8. y = [d \in 1 .. n |-> y[d]]
      /\ \A d \in 1 .. n : y[d] = IF d \in R THEN 0 ELSE x[IF c.keepdims THEN d ELSE P[d]]
  BY <1>6 DEF Spread
<1>9. Within(x, c.out) /\ x = [d \in 1 .. Len(c.out) |-> x[d]] /\ Vector(x, Len(c.out))
      /\ \A d \in 1 .. Len(c.out) : x[d] \in 0 .. c.out[d] - 1
  BY <1>1, CoordsFunction
<1> HIDE DEF in, n, F, K, R, y
<1>10. CASE c.keepdims
  <2>1. c.out = F
    BY <1>1, <1>10
  <2>2. ASSUME NEW d \in 1 .. n PROVE y[d] = x[d]
    <3>1. CASE d \in R
      <4>1. F[d] = 1 /\ x[d] \in 0 .. F[d] - 1
        BY <1>3, <1>7, <1>9, <2>1, <3>1
      <4>2. x[d] = 0
        BY <4>1
      <4> QED
        BY <1>8, <3>1, <4>2
    <3>2. CASE d \notin R
      BY <1>8, <1>10, <3>2
    <3> QED
      BY <3>1, <3>2
  <2>3. x = [d \in 1 .. n |-> x[d]]
    BY <1>3, <1>9, <2>1
  <2>4. y = x
    BY <1>8, <2>2, <2>3
  <2> QED
    BY <2>1, <2>4 DEF y, F
<1>11. CASE ~c.keepdims
  <2>1. c.out = K
    BY <1>1, <1>11
  <2>2. \A d \in 1 .. n : d \notin R => y[d] = x[P[d]] /\ x[P[d]] \in 0 .. in[d] - 1
    <3> SUFFICES ASSUME NEW d \in 1 .. n, d \notin R
                 PROVE  y[d] = x[P[d]] /\ x[P[d]] \in 0 .. in[d] - 1
      OBVIOUS
    <3>1. P[d] \in 1 .. Len(c.out) /\ c.out[P[d]] = in[d]
      BY <1>4, <1>5, <2>1
    <3>2. x[P[d]] \in 0 .. in[d] - 1
      BY <1>9, <3>1
    <3> QED
      BY <1>8, <1>11, <3>2
  <2>3. ASSUME NEW d \in 1 .. n PROVE y[d] \in 0 .. F[d] - 1
    <3>1. CASE d \in R
      BY <1>7, <1>8, <3>1
    <3>2. CASE d \notin R
      BY <1>7, <2>2, <3>2
    <3> QED
      BY <3>1, <3>2
  <2>4. y \in Coords(F)
    BY <1>3, <1>8, <2>3, IsCoords
  <2>5. Vector(y, n) /\ Ints(RowMajor(F), n)
    BY <1>3, <2>4, CoordsFunction, WeightsOfShape
  <2>6. Vector(x, P[n]) /\ Ints(RowMajor(K), P[n])
    BY <1>4, <1>9, <2>1, WeightsOfShape
  <2>7. Renumbers(P, 1 .. n \ R, y, RowMajor(F), n, x, RowMajor(K), P[n])
    <3>1. ASSUME NEW d \in 1 .. n \ R
          PROVE  P[d] \in 1 .. P[n] /\ x[P[d]] * RowMajor(K)[P[d]] = y[d] * RowMajor(F)[d]
      BY <1>3, <1>5, <2>2
    <3>2. ASSUME NEW d \in 1 .. n \ R, NEW e \in 1 .. n \ R, P[d] = P[e] PROVE d = e
      <4>1. P[d] \in Int /\ P[e] \in Int /\ d \in Int /\ e \in Int
        BY <1>3, <3>1
      <4>2. ~(d < e) /\ ~(e < d)
        BY <1>5, <3>2, <4>1
      <4> QED
        BY <4>1, <4>2
    <3>3. ASSUME NEW d \in (1 .. n) \ (1 .. n \ R) PROVE y[d] * RowMajor(F)[d] = 0
      <4>1. y[d] = 0 /\ RowMajor(F)[d] \in Int
        BY <1>8, <2>5 DEF Ints
      <4> QED
        BY <4>1
    <3>4. \A e \in 1 .. P[n] : \E d \in 1 .. n \ R : P[d] = e
      BY <1>5
    <3>5. 1 .. n \ R \in SUBSET (1 .. n)
      OBVIOUS
    <3> QED
      BY <3>1, <3>2, <3>3, <3>4, <3>5 DEF Renumbers
  <2>8. Dot(y, RowMajor(F)) = Dot(x, RowMajor(K))
    BY <1>3, <1>4, <2>5, <2>6, <2>7, DotRenumbered
  <2> QED
    BY <2>1, <2>4, <2>8 DEF Flat, y, F
<1> QED
  BY <1>10, <1>11

\* They are the ones whose offset in the result is the element's.
LEMMA ReduceMatch ==
  ASSUME NEW c, IsCall(c), c.kernel = "ReduceMean", NEW x \in Coords(c.out),
         NEW z \in Coords(c.ins[1])
  PROVE  Agrees(c, x, z) <=> Offset(c, z)[1] = Flat(c.out, x)
<1> DEFINE n == Len(c.ins[1])
           p == Projected(c, z)
           y == Spread(c, x)
<1>1. /\ Shape(c.ins[1]) /\ Strides(c)[1] = ProjStrides(c)
      /\ DOMAIN Strides(c) = 1 .. 1 /\ Origin(c)[1] = 0
  BY ReduceFacts
<1>2. Shape(Full(c)) /\ Len(Full(c)) = n
  <2>1. \E P : Counts(c, P)
    BY <1>1, PlaceCounts
  <2> QED
    BY <1>1, <2>1, FullFacts
<1>3. Within(z, c.ins[1]) /\ DOMAIN z = 1 .. n
  BY <1>1, CoordsFunction
<1>4. Within(p, Full(c)) /\ Dot(z, ProjStrides(c)) = Flat(Full(c), p)
  BY <1>3, ReduceDot
<1>5. p = [d \in 1 .. n |-> p[d]] /\ \A d \in 1 .. n : p[d] = IF d \in Reduced(c) THEN 0 ELSE z[d]
  BY DEF Projected
<1>6. y \in Coords(Full(c)) /\ Flat(Full(c), y) = Flat(c.out, x)
  BY SpreadFlat
<1>7. \A d \in 1 .. n : y[d] = IF d \in Reduced(c) THEN 0
                               ELSE x[IF c.keepdims THEN d ELSE Place(c, d)]
  BY DEF Spread
<1> HIDE DEF n, p, y
<1>8. p \in Coords(Full(c))
  <2>1. \A d \in 1 .. n : p[d] \in 0 .. Full(c)[d] - 1
    BY <1>2, <1>4 DEF Within
  <2> QED
    BY <1>2, <1>5, <2>1, IsCoords
<1>9. Flat(Full(c), p) = Flat(Full(c), y) <=> p = y
  BY <1>2, <1>6, <1>8, FlatInjective
<1>10. Offset(c, z)[1] = Flat(Full(c), p)
  <2>1. Offset(c, z)[1] = 0 + Dot(z, ProjStrides(c))
    BY <1>1 DEF Offset
  <2>2. Flat(Full(c), p) \in 0 .. Numel(Full(c)) - 1 /\ Numel(Full(c)) \in Nat
    BY <1>2, <1>4, FlatInRange
  <2> QED
    BY <1>4, <2>1, <2>2
<1>11. Agrees(c, x, z) <=> \A d \in 1 .. n : p[d] = y[d]
  BY <1>3, <1>5, <1>7 DEF Agrees
<1>12. (\A d \in 1 .. n : p[d] = y[d]) <=> p = y
  BY <1>2, <1>6, <1>8, SameCoords
<1> QED
  BY <1>6, <1>9, <1>10, <1>11, <1>12

\* A mean is of those elements.
LEMMA ReduceMeans ==
  ASSUME NEW c, c.kernel = "ReduceMean", NEW x
  PROVE  Meaning(c, x) = {<<Flat(c.ins[1], z)>> : z \in {y \in Coords(c.ins[1]) : Agrees(c, x, y)}}
<1>1. Meaning(c, x) = Copied(c, LAMBDA z : \A d \in DOMAIN z \ Reduced(c) :
                                z[d] = x[IF c.keepdims THEN d ELSE Place(c, d)])
  BY DEF Meaning, Broadcasting, Batched
<1> QED
  BY <1>1 DEF Copied, Agrees

-----------------------------------------------------------------------------
(* The elements of a matrix product. *)

\* The share of one coordinate in an offset.
LEMMA DropOne ==
  ASSUME NEW n \in Nat, NEW j \in 1 .. n, NEW z, Vector(z, n), NEW a, Vector(a, n),
         NEW w, Ints(w, n), a[j] = 0, \A d \in 1 .. n : d # j => a[d] = z[d]
  PROVE  Dot(z, w) = Dot(a, w) + z[j] * w[j] /\ Dot(a, w) \in Int
<1> DEFINE t == [d \in 1 .. n |-> z[d] * w[d]]
           b == [d \in 1 .. n |-> IF d = j THEN 1 ELSE 0]
<1>1. \A d \in 1 .. n : z[d] \in Int /\ w[d] \in Int /\ a[d] \in Int
  BY DEF Vector, Ints
<1>2. \A d \in 1 .. n : t[d] = z[d] * w[d] /\ b[d] = (IF d = j THEN 1 ELSE 0)
  OBVIOUS
<1>3. j \in 0 .. n /\ j # 0
  OBVIOUS
<1>4. DOMAIN b = 1 .. n
  OBVIOUS
<1>5. \A d \in 1 .. n : t[d] \in Int
  BY <1>1, <1>2
<1>6. Ints(t, n)
  BY <1>5 DEF Ints
<1>7. Dot(b, t) = t[j]
  BY <1>3, <1>6, SingleDot
<1> HIDE DEF t, b
<1>8. Vector(b, n)
  BY <1>2, <1>4 DEF Vector
<1>9. ASSUME NEW d \in 1 .. n PROVE z[d] * w[d] = a[d] * w[d] + b[d] * t[d]
  <2> DEFINE v == z[d] * w[d]
  <2>1. v \in Int /\ t[d] = v
    BY <1>1, <1>2
  <2>2. \A i \in Int : 0 * i = 0 /\ 1 * i = i /\ 0 + i = i /\ i + 0 = i
    OBVIOUS
  <2>3. CASE d = j
    <3>1. a[d] = 0 /\ b[d] = 1
      BY <1>2, <2>3
    <3> QED
      BY <1>1, <2>1, <2>2, <3>1
  <2>4. CASE d # j
    <3>1. a[d] = z[d] /\ b[d] = 0
      BY <1>2, <2>4
    <3>2. b[d] * t[d] = 0 /\ a[d] * w[d] = v
      BY <2>1, <2>2, <3>1
    <3> HIDE DEF v
    <3>3. v = a[d] * w[d] + b[d] * t[d]
      BY <2>1, <2>2, <3>2
    <3> QED
      BY <3>3 DEF v
  <2> QED
    BY <2>3, <2>4
<1>10. Dot(z, w) = Dot(a, w) + Dot(b, t)
  BY <1>6, <1>8, <1>9, DotAdds
<1>11. Dot(a, w) \in Int
  BY ProductsFacts
<1> QED
  BY <1>2, <1>7, <1>10, <1>11

\* An element of the last matrix of a tensor.
LEMMA MatrixFlat ==
  ASSUME NEW s, Shape(s), Len(s) >= 2, NEW z, Within(z, s), NEW a, Vector(a, Len(s)),
         a[Len(s)] = 0, a[Len(s) - 1] = 0, \A d \in 1 .. Len(s) - 2 : a[d] = z[d]
  PROVE  /\ Flat(s, z) = Dot(a, RowMajor(s)) + z[Len(s) - 1] * s[Len(s)] + z[Len(s)]
         /\ Dot(a, RowMajor(s)) \in Int
<1> DEFINE n == Len(s)
           w == RowMajor(s)
           b == [d \in 1 .. n |-> IF d = n THEN 0 ELSE z[d]]
<1>1. n \in Nat /\ n >= 2
  BY ShapeFacts
<1>2. Vector(z, n) /\ Ints(w, n)
  BY WithinIsVector, WeightsOfShape
<1>3. \A d \in 1 .. n : z[d] \in Int /\ s[d] \in Nat
  BY <1>2, ShapeFacts DEF Vector
<1>4. DOMAIN b = 1 .. n /\ \A d \in 1 .. n : b[d] = IF d = n THEN 0 ELSE z[d]
  OBVIOUS
<1>5. w[n] = 1 /\ w[n - 1] = s[n]
  <2>1. n \in 1 .. n /\ n - 1 \in 1 .. n /\ n \in 0 .. n
    BY <1>1
  <2>2. Weight(s)[n] = 1 /\ Weight(s)[n - 1] = s[n] * Weight(s)[n]
        /\ w[n] = Weight(s)[n] /\ w[n - 1] = Weight(s)[n - 1]
    BY <2>1, WeightsOfShape
  <2>3. s[n] * 1 = s[n]
    BY <1>3, <2>1
  <2> QED
    BY <2>2, <2>3
<1>6. n \in 1 .. n /\ n - 1 \in 1 .. n /\ n - 1 # n
  BY <1>1
<1>7. a[n] = 0 /\ a[n - 1] = 0 /\ (\A d \in 1 .. n - 2 : a[d] = z[d]) /\ Vector(a, n)
  OBVIOUS
<1>8. Flat(s, z) = Dot(z, w)
  BY DEF Flat
<1> HIDE DEF n, w, b
<1>9. Vector(b, n)
  BY <1>3, <1>4 DEF Vector
<1>10. b[n] = 0 /\ \A d \in 1 .. n : d # n => b[d] = z[d]
  BY <1>4, <1>6
<1>11. Dot(z, w) = Dot(b, w) + z[n] * w[n] /\ Dot(b, w) \in Int
  BY <1>1, <1>2, <1>6, <1>9, <1>10, DropOne
<1>12. \A d \in 1 .. n : d # n - 1 => a[d] = b[d]
  <2> SUFFICES ASSUME NEW d \in 1 .. n, d # n - 1 PROVE a[d] = b[d]
    OBVIOUS
  <2>1. CASE d = n
    BY <1>7, <1>10, <2>1
  <2>2. CASE d # n
    <3>1. d \in 1 .. n - 2
      BY <1>1, <2>2
    <3> QED
      BY <1>7, <1>10, <2>2, <3>1
  <2> QED
    BY <2>1, <2>2
<1>13. Dot(b, w) = Dot(a, w) + b[n - 1] * w[n - 1] /\ Dot(a, w) \in Int
  BY <1>1, <1>2, <1>6, <1>7, <1>9, <1>12, DropOne
<1>14. b[n - 1] = z[n - 1]
  BY <1>6, <1>10
<1>15. z[n] \in Int /\ z[n - 1] \in Int /\ s[n] \in Int
  BY <1>3, <1>6
<1>16. z[n] * w[n] = z[n]
  BY <1>5, <1>15
<1>17. z[n - 1] * s[n] \in Int
  BY <1>15
<1>18. Flat(s, z) = Dot(a, w) + z[n - 1] * s[n] + z[n]
  BY <1>5, <1>8, <1>11, <1>13, <1>14, <1>15, <1>16, <1>17
<1> QED
  BY <1>13, <1>18 DEF n, w

\* Where the matrix of an element begins, and the element in it.
Prefixed(x, n) == [d \in 1 .. n - 2 |-> x[d]]

\* A matrix element is numbered by its batch, its row and its column.
LEMMA BatchFlat ==
  ASSUME NEW s, Shape(s), Len(s) >= 2, NEW x \in Coords(s)
  PROVE  /\ Prefixed(x, Len(s)) \in Coords(BatchShape(s))
         /\ Flat(s, x) = (Flat(BatchShape(s), Prefixed(x, Len(s))) * s[Len(s) - 1]
                             + x[Len(s) - 1]) * s[Len(s)] + x[Len(s)]
<1> DEFINE n == Len(s)
           b == BatchShape(s)
           p == Prefixed(x, n)
           w == Weight(s)
<1>1. n \in Nat /\ n >= 2 /\ \A d \in 1 .. n : s[d] \in Nat /\ s[d] > 0
  BY ShapeFacts
<1>2. Within(x, s) /\ \A d \in 1 .. n : x[d] \in 0 .. s[d] - 1
  BY CoordsFunction
<1>3. Shape(b) /\ Len(b) = n - 2 /\ \A d \in 1 .. n - 2 : b[d] = s[d]
  BY BatchFacts
<1>4. DOMAIN p = 1 .. n - 2 /\ \A d \in 1 .. n - 2 : p[d] = x[d]
  BY DEF Prefixed
<1>5. p = [d \in 1 .. n - 2 |-> p[d]]
  BY DEF Prefixed
<1>6. PICK h : Horner(s, x, h)
  BY <1>2, HornerExists
<1>7. \A d \in 0 .. n : /\ h[d] \in Nat
                        /\ Flat(s, x) = h[d] * w[d] + Rest(x, RowMajor(s), n, d)
  BY <1>2, <1>6, HornerSplits
<1>8. w[n] = 1 /\ (\A d \in 0 .. n : w[d] \in Nat)
      /\ \A d \in 1 .. n : w[d - 1] = s[d] * w[d]
  BY WeightsOfShape
<1>9. h[0] = 0 /\ \A d \in 1 .. n : h[d] = h[d - 1] * s[d] + x[d]
  BY <1>6 DEF Horner
<1>10. Rest(x, RowMajor(s), n, n) = 0
  BY <1>1, <1>2, WithinIsVector, WeightsOfShape, RestFacts
<1> HIDE DEF n, b, p, w
<1>11. Within(p, b)
  <2>1. \A d \in 1 .. n - 2 : d \in 1 .. n
    BY <1>1
  <2> QED
    BY <1>2, <1>3, <1>4, <2>1 DEF Within
<1>12. p \in Coords(b)
  <2>1. \A d \in 1 .. Len(b) : p[d] \in 0 .. b[d] - 1
    BY <1>11 DEF Within
  <2> QED
    BY <1>3, <1>5, <2>1, IsCoords
<1>13. Flat(b, p) = h[n - 2]
  <2> DEFINE g == [d \in 0 .. n - 2 |-> h[d]]
  <2>1. \A d \in 0 .. n - 2 : g[d] = h[d] /\ d \in 0 .. n
    BY <1>1
  <2>2. Horner(b, p, g)
    <3>1. g \in [0 .. Len(b) -> Nat]
      BY <1>3, <1>7, <2>1
    <3>2. 0 \in 0 .. n - 2
      BY <1>1
    <3>3. g[0] = 0
      BY <1>9, <2>1, <3>2
    <3>4. ASSUME NEW d \in 1 .. Len(b) PROVE g[d] = g[d - 1] * b[d] + p[d]
      <4>1. d \in 0 .. n - 2 /\ d - 1 \in 0 .. n - 2 /\ d \in 1 .. n - 2 /\ d \in 1 .. n
        BY <1>1, <1>3
      <4>2. g[d] = h[d] /\ g[d - 1] = h[d - 1]
        BY <2>1, <4>1
      <4> HIDE DEF g
      <4>3. h[d] = h[d - 1] * s[d] + x[d] /\ b[d] = s[d] /\ p[d] = x[d]
        BY <1>3, <1>4, <1>9, <4>1
      <4> QED
        BY <4>2, <4>3
    <3> HIDE DEF g
    <3> QED
      BY <3>1, <3>3, <3>4 DEF Horner
  <2>3. n - 2 \in 0 .. Len(b) /\ n - 2 \in 0 .. n - 2
    BY <1>1, <1>3
  <2> HIDE DEF g
  <2>4. g[n - 2] \in Nat
        /\ Flat(b, p) = g[n - 2] * Weight(b)[n - 2] + Rest(p, RowMajor(b), Len(b), n - 2)
    BY <1>3, <1>11, <2>2, <2>3, HornerSplits
  <2>5. Weight(b)[n - 2] = 1 /\ Rest(p, RowMajor(b), Len(b), n - 2) = 0
    <3>1. Weight(b)[Len(b)] = 1 /\ Ints(RowMajor(b), Len(b))
      BY <1>3, WeightsOfShape
    <3>2. Vector(p, Len(b)) /\ Len(b) \in Nat
      BY <1>3, <1>11, WithinIsVector, ShapeFacts
    <3>3. Rest(p, RowMajor(b), Len(b), Len(b)) = 0
      BY <3>1, <3>2, RestFacts
    <3> QED
      BY <1>3, <3>1, <3>3
  <2>6. g[n - 2] = h[n - 2]
    BY <2>1, <2>3
  <2> QED
    BY <2>4, <2>5, <2>6
<1>14. Flat(s, x) = h[n]
  <2>1. n \in 0 .. n
    BY <1>1
  <2>2. h[n] \in Nat /\ Flat(s, x) = h[n] * 1 + 0
    BY <1>7, <1>8, <1>10, <2>1
  <2> QED
    BY <2>2
<1>15. h[n] = (h[n - 2] * s[n - 1] + x[n - 1]) * s[n] + x[n]
  <2>1. n \in 1 .. n /\ n - 1 \in 1 .. n /\ (n - 1) - 1 = n - 2
    BY <1>1
  <2> QED
    BY <1>9, <2>1
<1> QED
  BY <1>12, <1>13, <1>14, <1>15 DEF n, b, p

\* The element of an operand that a matrix element is multiplied from.
LEMMA MatrixStretched ==
  ASSUME NEW in, Shape(in), NEW out, Shape(out), Len(in) >= 2, Len(out) >= 2,
         Stretches(BatchShape(in), BatchShape(out)), NEW x \in Coords(out),
         NEW y, Len(y) = Len(out), \A d \in 1 .. Len(out) - 2 : y[d] = x[d],
         y[Len(out) - 1] \in 0 .. in[Len(in) - 1] - 1, y[Len(out)] \in 0 .. in[Len(in)] - 1
  PROVE  /\ Stretched(in, y) = Dot(Prefixed(x, Len(out)), BcastStrides(in, out))
                                 + y[Len(out) - 1] * in[Len(in)] + y[Len(out)]
         /\ Dot(Prefixed(x, Len(out)), BcastStrides(in, out)) \in Int
<1> DEFINE n == Len(out)
           r == Len(in)
           p == Prefixed(x, n)
           a == Folded(in, n - r, n - 2, p)
           z == [d \in 1 .. r |-> IF in[d] = 1 THEN 0 ELSE y[d + n - r]]
           w == RowMajor(in)
           t == BcastStrides(in, out)
<1>1. r \in Nat /\ n \in Nat /\ r >= 2 /\ n >= 2 /\ DOMAIN in = 1 .. r
      /\ \A d \in 1 .. r : in[d] \in Nat /\ in[d] > 0
  BY ShapeFacts
<1>2. DOMAIN p = 1 .. n - 2 /\ \A d \in 1 .. n - 2 : p[d] = x[d]
  BY DEF Prefixed
<1>3. \A d \in 1 .. n : x[d] \in 0 .. out[d] - 1
  BY CoordsFunction
<1>4. Along(in, out, n - 2)
  BY BatchAlong
<1>5. \A d \in 1 .. n - 2 : p[d] \in 0 .. out[d] - 1
  <2> HIDE DEF n, p
  <2>1. \A d \in 1 .. n - 2 : d \in 1 .. n
    BY <1>1
  <2> QED
    BY <1>2, <1>3, <2>1
<1>6. Within(a, in) /\ Dot(p, t) = Flat(in, a)
  BY <1>2, <1>4, <1>5, StretchedDot
<1>7. \A e \in 1 .. r : a[e] = IF e + (n - r) > n - 2 \/ in[e] = 1 THEN 0 ELSE p[e + (n - r)]
  BY DEF Folded
<1>8. DOMAIN z = 1 .. r /\ \A d \in 1 .. r : z[d] = IF in[d] = 1 THEN 0 ELSE y[d + n - r]
  OBVIOUS
<1>9. Stretched(in, y) = Flat(in, z)
  BY <1>1 DEF Stretched
<1>10. /\ Len(y) = n /\ \A d \in 1 .. n - 2 : y[d] = x[d]
       /\ y[n - 1] \in 0 .. in[r - 1] - 1 /\ y[n] \in 0 .. in[r] - 1
  OBVIOUS
<1>11. \A d \in 1 .. r : a[d] \in 0 .. in[d] - 1
  BY <1>6 DEF Within
<1> HIDE DEF n, r, p, a, z, w, t
<1>12. a[r] = 0 /\ a[r - 1] = 0
  <2>1. r \in 1 .. r /\ r - 1 \in 1 .. r /\ r + (n - r) > n - 2 /\ (r - 1) + (n - r) > n - 2
    BY <1>1
  <2> QED
    BY <1>7, <2>1
<1>13. z[r] = y[n] /\ z[r - 1] = y[n - 1]
  <2>1. r \in 1 .. r /\ r - 1 \in 1 .. r /\ r + n - r = n /\ (r - 1) + n - r = n - 1
    BY <1>1
  <2>2. z[r] = (IF in[r] = 1 THEN 0 ELSE y[n])
        /\ z[r - 1] = (IF in[r - 1] = 1 THEN 0 ELSE y[n - 1])
    BY <1>8, <2>1
  <2>3. (in[r] = 1 => y[n] = 0) /\ (in[r - 1] = 1 => y[n - 1] = 0)
    BY <1>10
  <2> QED
    BY <2>2, <2>3
<1>14. \A d \in 1 .. r - 2 : a[d] = z[d]
  <2> SUFFICES ASSUME NEW d \in 1 .. r - 2 PROVE a[d] = z[d]
    OBVIOUS
  <2>1. d \in 1 .. r /\ ~(d + (n - r) > n - 2) /\ d + (n - r) = d + n - r
    BY <1>1
  <2>2. n - r >= 0
    <3>1. r <= n
      BY <1>4 DEF Along, n, r
    <3> QED
      BY <1>1, <3>1
  <2>3. d + n - r \in 1 .. n - 2
    BY <1>1, <2>1, <2>2
  <2>4. p[d + n - r] = y[d + n - r]
    BY <1>2, <1>10, <2>3
  <2>5. a[d] = IF in[d] = 1 THEN 0 ELSE p[d + n - r]
    BY <1>7, <2>1
  <2>6. z[d] = IF in[d] = 1 THEN 0 ELSE y[d + n - r]
    BY <1>8, <2>1
  <2> QED
    BY <2>4, <2>5, <2>6
<1>15. Within(z, in)
  <2>1. ASSUME NEW d \in 1 .. r PROVE z[d] \in 0 .. in[d] - 1
    <3>1. CASE d = r
      BY <1>10, <1>13, <3>1
    <3>2. CASE d = r - 1
      BY <1>10, <1>13, <3>2
    <3>3. CASE d # r /\ d # r - 1
      <4>1. d \in 1 .. r - 2
        BY <1>1, <3>3
      <4> QED
        BY <1>11, <1>14, <4>1
    <3> QED
      BY <3>1, <3>2, <3>3
  <2> QED
    BY <1>8, <2>1 DEF Within, r
<1>16. Vector(a, r)
  BY <1>6, WithinIsVector DEF r
<1>17. Flat(in, z) = Dot(a, w) + z[r - 1] * in[r] + z[r] /\ Dot(a, w) \in Int
  BY <1>1, <1>12, <1>14, <1>15, <1>16, MatrixFlat DEF r, w
<1>18. Flat(in, a) = Dot(a, w)
  BY DEF Flat, w
<1> QED
  BY <1>6, <1>9, <1>13, <1>17, <1>18 DEF n, r, p, t

\* The flat index of an element of matrix b of a batch, and back.
PairAt(b, M, N, i, j) == (b * M + i) * N + j

\* kernels_ref.c:297-313: batch, row and column from the flat index.
LEMMA MatrixIndex ==
  ASSUME NEW b \in Int, NEW M \in Int, NEW N \in Int, NEW i \in 0 .. M - 1, NEW j \in 0 .. N - 1
  PROVE  LET f == PairAt(b, M, N, i, j)
         IN  /\ f % N = j /\ f \div N = b * M + i
             /\ f \div (M * N) = b /\ (f % (M * N)) \div N = i
<1> DEFINE u == b * M + i
           f == u * N + j
           v == i * N + j
<1>1. i \in Int /\ 0 <= i /\ i < M /\ j \in Int /\ 0 <= j /\ j < N
  OBVIOUS
<1>2. u \in Int
  OBVIOUS
<1>3. f % N = j /\ f \div N = u
  <2> HIDE DEF u
  <2> QED
    BY <1>1, <1>2, DivUnique
<1>4. v \div N = i
  BY <1>1, DivUnique
<1>5. i * N \in Int /\ i * N >= 0 /\ v \in Int /\ 0 <= v
  <2>1. 0 * N <= i * N /\ i * N \in Int /\ 0 * N = 0
    <3>1. 0 \in Int /\ N \in Nat /\ 0 <= i
      BY <1>1
    <3> QED
      BY <1>1, <3>1, TimesMonotone
  <2> QED
    BY <1>1, <2>1
<1>6. M * N \in Int /\ v < M * N
  <2>1. (i + 1) * N <= M * N /\ (i + 1) * N \in Int /\ M * N \in Int
    <3>1. i + 1 \in Int /\ N \in Nat /\ i + 1 <= M
      BY <1>1
    <3> QED
      BY <3>1, TimesMonotone
  <2>2. (i + 1) * N = i * N + N
    BY <1>1
  <2> QED
    BY <1>1, <1>5, <2>1, <2>2
<1>7. f = b * (M * N) + v
  <2>1. ASSUME NEW p \in Int, NEW q \in Int, NEW s \in Int, NEW g \in Int, NEW h \in Int
        PROVE  (p * q + g) * s + h = p * (q * s) + (g * s + h)
    OBVIOUS
  <2> QED
    BY <1>1, <2>1
<1> HIDE DEF v
<1>8. (b * (M * N) + v) \div (M * N) = b /\ (b * (M * N) + v) % (M * N) = v
  <2> DEFINE m == M * N
  <2>1. m \in Int /\ v < m
    BY <1>6
  <2> HIDE DEF m
  <2>2. (b * m + v) \div m = b /\ (b * m + v) % m = v
    BY <1>5, <2>1, DivUnique
  <2> QED
    BY <2>2 DEF m
<1> QED
  BY <1>3, <1>4, <1>7, <1>8 DEF PairAt

\* What a matrix product is called with.
LEMMA BatchedFacts ==
  ASSUME NEW c, IsCall(c), c.kernel \in Batched
  PROVE  /\ \A k \in {1, 2} : Shape(c.ins[k]) /\ Len(c.ins[k]) >= 2
                             /\ Stretches(BatchShape(c.ins[k]), BatchShape(c.out))
         /\ Shape(c.out) /\ Len(c.out) >= 2
         /\ Len(c.ins) = IF c.kernel = "MatMul_Add" THEN 3 ELSE 2
         /\ LET A == c.ins[1]
                B == c.ins[2]
                C == c.out
            IN  A[Len(A) - 1] = C[Len(C) - 1] /\ B[Len(B)] = C[Len(C)] /\ A[Len(A)] = B[Len(B) - 1]
<1>1. Multiplies(c.ins[1], c.ins[2], c.out) /\ Len(c.ins) = IF c.kernel = "MatMul_Add" THEN 3 ELSE 2
  BY DEF IsCall, Batched, Broadcasting
<1>2. Shape(c.out) /\ Shape(c.ins[1]) /\ Shape(c.ins[2])
  <2>1. 1 \in 1 .. Len(c.ins) /\ 2 \in 1 .. Len(c.ins)
    BY <1>1
  <2> QED
    BY <2>1, CallFacts
<1> QED
  BY <1>1, <1>2 DEF Multiplies, Last

\* A turn of a matrix product writes the matrix of its coordinates, and in it the
\* products that the operator prescribes.
LEMMA BatchedMeans ==
  ASSUME NEW c, IsCall(c), c.kernel \in Batched, NEW x \in Coords(c.out)
  PROVE  /\ Prefixed(x, Len(c.out)) \in Coords(Walked(c))
         /\ Flat(c.out, x) \div (c.out[Len(c.out) - 1] * Last(c.out))
              = Flat(Walked(c), Prefixed(x, Len(c.out)))
         /\ off = Offset(c, Prefixed(x, Len(c.out)))
              => Product(c, Flat(c.out, x)) = Meaning(c, x)
<1> DEFINE A == c.ins[1]
           B == c.ins[2]
           C == c.out
           n == Len(C)
           p == Prefixed(x, n)
           K == A[Len(A)]
           N == C[n]
           M == C[n - 1]
           b == Flat(BatchShape(C), p)
           f == Flat(C, x)
           first == Dot(p, BcastStrides(A, C))
           second == Dot(p, BcastStrides(B, C))
           yA(k) == [x EXCEPT ![n] = k]
           yB(k) == [x EXCEPT ![n - 1] = k]
           here == off = Offset(c, p)
<1>1. /\ Shape(A) /\ Len(A) >= 2 /\ Stretches(BatchShape(A), BatchShape(C))
      /\ Shape(B) /\ Len(B) >= 2 /\ Stretches(BatchShape(B), BatchShape(C))
      /\ Shape(C) /\ n >= 2 /\ Len(c.ins) = (IF c.kernel = "MatMul_Add" THEN 3 ELSE 2)
      /\ A[Len(A) - 1] = M /\ B[Len(B)] = N /\ K = B[Len(B) - 1]
  BY BatchedFacts
<1>2. n \in Nat /\ Len(A) \in Nat /\ Len(B) \in Nat /\ n \in 1 .. n /\ n - 1 \in 1 .. n
  <2>1. n \in Nat /\ Len(A) \in Nat /\ Len(B) \in Nat
    BY <1>1, ShapeFacts
  <2> QED
    BY <1>1, <2>1
<1>3. /\ \A d \in 1 .. n : x[d] \in 0 .. C[d] - 1
      /\ DOMAIN x = 1 .. n /\ Len(x) = n /\ x \in Seq(Nat)
  BY <1>1, CoordsFunction
<1>4. K \in Nat /\ K > 0 /\ N \in Nat /\ M \in Nat /\ x[n] \in 0 .. N - 1 /\ x[n - 1] \in 0 .. M - 1
  <2>1. N \in Nat /\ M \in Nat /\ x[n] \in 0 .. N - 1 /\ x[n - 1] \in 0 .. M - 1
    BY <1>1, <1>2, <1>3, ShapeFacts
  <2>2. Len(A) \in 1 .. Len(A)
    BY <1>1, <1>2
  <2>3. K \in Nat /\ K > 0
    BY <1>1, <2>2, ShapeFacts
  <2> QED
    BY <2>1, <2>3
<1>5. p \in Coords(BatchShape(C)) /\ f = (b * M + x[n - 1]) * N + x[n]
  BY <1>1, BatchFlat
<1>6. b \in Int
  <2>1. Shape(BatchShape(C))
    BY <1>1, BatchFacts
  <2>2. b \in 0 .. Numel(BatchShape(C)) - 1 /\ Numel(BatchShape(C)) \in Nat
    BY <1>5, <2>1, FlatInRange, CoordsFunction
  <2> QED
    BY <2>2
<1>7. f % N = x[n] /\ f \div (M * N) = b /\ (f % (M * N)) \div N = x[n - 1]
  <2> DEFINE i == x[n - 1]
             j == x[n]
             g == PairAt(b, M, N, i, j)
  <2>1. b \in Int /\ M \in Int /\ N \in Int /\ i \in 0 .. M - 1 /\ j \in 0 .. N - 1 /\ f = (b * M + i) * N + j
    BY <1>4, <1>5, <1>6
  <2> HIDE DEF b, M, N, n, f, i, j
  <2>2. g % N = j /\ g \div (M * N) = b /\ (g % (M * N)) \div N = i
    BY <2>1, MatrixIndex
  <2>3. f = g
    BY <2>1 DEF PairAt
  <2> HIDE DEF g
  <2> QED
    BY <2>2, <2>3 DEF i, j
<1>8. Walked(c) = BatchShape(C)
  BY DEF Walked
<1>9. /\ Origin(c)[1] = 0 /\ Origin(c)[2] = 0
      /\ Strides(c)[1] = BcastStrides(A, C) /\ Strides(c)[2] = BcastStrides(B, C)
      /\ DOMAIN Strides(c) = 1 .. 2
  BY TwoOperands
<1>10. ASSUME NEW k \in 0 .. K - 1
       PROVE  /\ Stretched(A, yA(k)) = first + x[n - 1] * K + k
              /\ Stretched(B, yB(k)) = second + k * N + x[n]
              /\ first \in Int /\ second \in Int
  <2>1. /\ yA(k)[n] = k /\ yA(k)[n - 1] = x[n - 1]
        /\ \A d \in 1 .. n - 2 : yA(k)[d] = x[d]
        /\ Len(yA(k)) = n
    <3>1. n # n - 1 /\ \A d \in 1 .. n - 2 : d \in 1 .. n /\ d # n
      BY <1>2
    <3>2. DOMAIN yA(k) = 1 .. n
      BY <1>3
    <3>3. k \in Nat
      BY <1>4
    <3>4. yA(k) \in Seq(Nat) /\ Len(yA(k)) = n
      BY <1>2, <1>3, <3>3
    <3> QED
      BY <1>2, <1>3, <3>1, <3>4
  <2>2. /\ yB(k)[n - 1] = k /\ yB(k)[n] = x[n]
        /\ \A d \in 1 .. n - 2 : yB(k)[d] = x[d]
        /\ Len(yB(k)) = n
    <3>1. n # n - 1 /\ \A d \in 1 .. n - 2 : d \in 1 .. n /\ d # n - 1
      BY <1>2
    <3>2. k \in Nat
      BY <1>4
    <3>3. yB(k) \in Seq(Nat) /\ Len(yB(k)) = n
      BY <1>2, <1>3, <3>2
    <3> QED
      BY <1>2, <1>3, <3>1, <3>3
  <2> HIDE DEF yA, yB
  <2>3. Stretched(A, yA(k)) = first + yA(k)[n - 1] * K + yA(k)[n] /\ first \in Int
    <3>1. yA(k)[n - 1] \in 0 .. A[Len(A) - 1] - 1 /\ yA(k)[n] \in 0 .. A[Len(A)] - 1
      BY <1>1, <1>4, <2>1
    <3> QED
      BY <1>1, <2>1, <3>1, MatrixStretched
  <2>4. Stretched(B, yB(k)) = second + yB(k)[n - 1] * N + yB(k)[n] /\ second \in Int
    <3>1. yB(k)[n - 1] \in 0 .. B[Len(B) - 1] - 1 /\ yB(k)[n] \in 0 .. B[Len(B)] - 1
      BY <1>1, <1>4, <2>2
    <3>2. Stretched(B, yB(k)) = second + yB(k)[n - 1] * B[Len(B)] + yB(k)[n] /\ second \in Int
      BY <1>1, <2>2, <3>1, MatrixStretched
    <3> QED
      BY <1>1, <3>2
  <2> QED
    BY <2>1, <2>2, <2>3, <2>4
<1>11. here => off[1] = first /\ off[2] = second
  <2>1. 0 \in 0 .. K - 1
    BY <1>4
  <2>2. first \in Int /\ second \in Int
    BY <1>10, <2>1
  <2>3. here => off[1] = 0 + first /\ off[2] = 0 + second
    BY <1>9 DEF Offset
  <2> HIDE DEF first, second, here
  <2> QED
    BY <2>2, <2>3
<1>12. Product(c, f) = {<<off[1] + x[n - 1] * K + k, off[2] + k * N + x[n]>> : k \in 0 .. K - 1}
                         \cup (IF c.kernel = "MatMul_Add" THEN {<<x[n]>>} ELSE {})
  BY <1>7 DEF Product, Last
<1>13. Meaning(c, x) = {<<Stretched(A, yA(k)), Stretched(B, yB(k))>> : k \in 0 .. K - 1}
                          \cup (IF Len(c.ins) > 2 THEN {<<x[n]>>} ELSE {})
  <2>1. Meaning(c, x) = BatchedProduct(c, x)
    BY DEF Meaning, Broadcasting, Batched
  <2> QED
    BY <1>3, <2>1 DEF BatchedProduct, Bias, Last
<1>14. (c.kernel = "MatMul_Add") <=> Len(c.ins) > 2
  BY <1>1
<1> HIDE DEF A, B, C, n, p, K, N, M, b, f, first, second, yA, yB, here
<1>15. here => {<<off[1] + x[n - 1] * K + k, off[2] + k * N + x[n]>> : k \in 0 .. K - 1}
         = {<<Stretched(A, yA(k)), Stretched(B, yB(k))>> : k \in 0 .. K - 1}
  <2>1. here => \A k \in 0 .. K - 1 : <<off[1] + x[n - 1] * K + k, off[2] + k * N + x[n]>>
                                = <<Stretched(A, yA(k)), Stretched(B, yB(k))>>
    BY <1>10, <1>11
  <2> QED
    BY <2>1
<1>16. here => Product(c, f) = Meaning(c, x)
  BY <1>12, <1>13, <1>14, <1>15
<1> QED
  BY <1>5, <1>7, <1>8, <1>16 DEF C, n, p, f, b, N, M, here, Last

-----------------------------------------------------------------------------
(* Kernels that compute their indices from nested loops. *)

\* The first numbers, and the largest of them.
LEMMA Initials ==
  ASSUME NEW n \in Nat, NEW i \in 1 .. n
  PROVE  /\ 1 .. i \in SUBSET (1 .. n) /\ 1 .. i # {}
         /\ Max(1 .. i) = i /\ (1 .. i) \ {Max(1 .. i)} = 1 .. (i - 1)
<1>1. 1 .. i \in SUBSET (1 .. n) /\ i \in 1 .. i /\ (1 .. i) \ {i} = 1 .. (i - 1)
  OBVIOUS
<1>2. IsFiniteSet(1 .. i) /\ 1 .. i \subseteq Int /\ 1 .. i # {}
  <2>1. 1 \in Int /\ i \in Int
    OBVIOUS
  <2>2. IsFiniteSet(1 .. i)
    BY <2>1, FS_Interval
  <2> QED
    BY <1>1, <2>2
<1>3. Max(1 .. i) \in 1 .. i /\ \A y \in 1 .. i : y <= Max(1 .. i)
  BY <1>2, MaxFacts
<1>4. i <= Max(1 .. i)
  BY <1>1, <1>3
<1>5. Max(1 .. i) = i
  BY <1>3, <1>4
<1> QED
  BY <1>1, <1>2, <1>5

\* The nested products of a hand-written index are the flat index.
LEMMA IndexIsFlat ==
  ASSUME NEW s, Shape(s), NEW x, Within(x, s)
  PROVE  Index(s, x) = Flat(s, x)
<1> DEFINE n == Len(s)
           S == 1 .. n
           id == [d \in S |-> d]
           c == [U \in SUBSET S |-> Max(U)]
           st == [p \in S \X Nat |-> p[2] * s[p[1]] + x[p[1]]]
           k == CHOOSE g : g = [U \in SUBSET S |->
                  IF U = {} THEN 0
                  ELSE g[U \ {Max(U)}] * s[id[Max(U)]] + x[id[Max(U)]]]
<1>1. n \in Nat /\ DOMAIN s = S /\ IsFiniteSet(S) /\ S \subseteq Int /\ \A d \in S : s[d] \in Nat
  <2>1. n \in Nat /\ DOMAIN s = S /\ \A d \in S : s[d] \in Nat
    BY ShapeFacts
  <2>2. 1 \in Int /\ n \in Int
    BY <2>1
  <2>3. IsFiniteSet(S)
    BY <2>2, FS_Interval
  <2> QED
    BY <2>1, <2>3
<1>2. \A d \in S : x[d] \in Nat
  BY <1>1 DEF Within
<1>3. \A U \in SUBSET S : U # {} => Max(U) \in U
  BY <1>1, FS_Subset, MaxFacts
<1>4. st \in [S \X Nat -> Nat] /\ \A U \in SUBSET S : U # {} => c[U] \in U
  <2>1. ASSUME NEW p \in S \X Nat PROVE p[2] * s[p[1]] + x[p[1]] \in Nat
    <3>1. p[2] * s[p[1]] \in Nat /\ x[p[1]] \in Nat
      BY <1>1, <1>2, TimesNat
    <3> QED
      BY <3>1
  <2> QED
    BY <1>3, <2>1
<1>5. \A d \in S : id[d] = d
  OBVIOUS
<1> HIDE DEF c, st
<1>6. PICK g \in [SUBSET S -> Nat] : Folds(S, c, st, 0, g)
  <2>1. 0 \in Nat
    OBVIOUS
  <2> QED
    BY <1>1, <1>4, <2>1, FoldExists
<1>7. g = [U \in SUBSET S |-> IF U = {} THEN 0
                              ELSE g[U \ {Max(U)}] * s[id[Max(U)]] + x[id[Max(U)]]]
  <2>1. ASSUME NEW U \in SUBSET S, U # {}
        PROVE  st[<<c[U], g[U \ {c[U]}]>>] = g[U \ {Max(U)}] * s[id[Max(U)]] + x[id[Max(U)]]
    <3>1. c[U] = Max(U) /\ Max(U) \in S /\ g[U \ {Max(U)}] \in Nat
      BY <1>3, <2>1 DEF c
    <3> QED
      BY <1>5, <3>1 DEF st
  <2>2. g = [U \in SUBSET S |-> IF U = {} THEN 0 ELSE st[<<c[U], g[U \ {c[U]}]>>]]
    BY <1>6 DEF Folds
  <2> QED
    BY <2>1, <2>2
<1>8. k = [U \in SUBSET S |-> IF U = {} THEN 0
                              ELSE k[U \ {Max(U)}] * s[id[Max(U)]] + x[id[Max(U)]]]
  BY <1>7
<1>9. Index(s, x) = k[S]
  BY <1>1 DEF Index, FoldLeft, MapThenFoldSet
<1> HIDE DEF k
<1>10. PICK h : Horner(s, x, h)
  BY HornerExists
<1>11. h[0] = 0 /\ \A d \in 1 .. n : h[d] = h[d - 1] * s[d] + x[d]
  BY <1>10 DEF Horner
<1>12. k[1 .. 0] = 0
  <2>1. 1 .. 0 = {} /\ {} \in SUBSET S
    OBVIOUS
  <2> QED
    BY <1>8, <2>1
<1>13. ASSUME NEW i \in 1 .. n PROVE k[1 .. i] = k[1 .. (i - 1)] * s[i] + x[i]
  <2>1. /\ 1 .. i \in SUBSET S /\ 1 .. i # {} /\ Max(1 .. i) = i
        /\ (1 .. i) \ {Max(1 .. i)} = 1 .. (i - 1)
    BY <1>1, Initials
  <2>2. k[1 .. i] = k[(1 .. i) \ {Max(1 .. i)}] * s[id[Max(1 .. i)]] + x[id[Max(1 .. i)]]
    BY <1>8, <2>1
  <2> QED
    BY <1>5, <2>1, <2>2
<1> DEFINE G == {i \in Nat : i <= n => k[1 .. i] = h[i]}
<1>14. 0 \in G
  BY <1>11, <1>12
<1>15. ASSUME NEW i \in Nat, i \in G PROVE i + 1 \in G
  <2> SUFFICES ASSUME i + 1 <= n PROVE k[1 .. (i + 1)] = h[i + 1]
    OBVIOUS
  <2>1. k[1 .. i] = h[i] /\ i + 1 \in 1 .. n /\ (i + 1) - 1 = i
    BY <1>1, <1>15
  <2>2. k[1 .. (i + 1)] = k[1 .. ((i + 1) - 1)] * s[i + 1] + x[i + 1]
    BY <1>13, <2>1
  <2>3. h[i + 1] = h[(i + 1) - 1] * s[i + 1] + x[i + 1]
    BY <1>11, <2>1
  <2> QED
    BY <2>1, <2>2, <2>3
<1> HIDE DEF G
<1>16. Nat \subseteq G
  BY <1>14, <1>15, NatInductive
<1>17. k[S] = h[n]
  BY <1>1, <1>16 DEF G
<1>18. Flat(s, x) = h[n]
  <2>1. n \in 0 .. n
    BY <1>1
  <2>2. h[n] \in Nat /\ Flat(s, x) = h[n] * Weight(s)[n] + Rest(x, RowMajor(s), n, n)
    BY <1>10, <2>1, HornerSplits
  <2>3. Weight(s)[n] = 1 /\ Ints(RowMajor(s), n) /\ Vector(x, n)
    BY WeightsOfShape, WithinIsVector
  <2>4. Rest(x, RowMajor(s), n, n) = 0
    BY <1>1, <2>3, RestFacts
  <2> QED
    BY <2>2, <2>3, <2>4
<1> QED
  BY <1>9, <1>17, <1>18

\* The flat indices of matrices and of images.
LEMMA FlatOfTwo ==
  ASSUME NEW s, Shape(s), Len(s) = 2, NEW x, Within(x, s)
  PROVE  Flat(s, x) = x[1] * s[2] + x[2]
<1>1. PICK h : Horner(s, x, h)
  BY HornerExists
<1>2. h[0] = 0 /\ h[1] = h[0] * s[1] + x[1] /\ h[2] = h[1] * s[2] + x[2]
  BY <1>1 DEF Horner
<1>3. s[1] \in Nat /\ s[2] \in Nat /\ x[1] \in Nat /\ x[2] \in Nat
  <2>1. 1 \in 1 .. Len(s) /\ 2 \in 1 .. Len(s)
    OBVIOUS
  <2>2. s[1] \in Nat /\ s[2] \in Nat
    BY <2>1, ShapeFacts
  <2>3. x[1] \in 0 .. s[1] - 1 /\ x[2] \in 0 .. s[2] - 1
    BY <2>1 DEF Within
  <2> QED
    BY <2>2, <2>3
<1>4. Flat(s, x) = h[2]
  <2>1. 2 \in 0 .. Len(s)
    OBVIOUS
  <2>2. h[2] \in Nat /\ Flat(s, x) = h[2] * Weight(s)[2] + Rest(x, RowMajor(s), 2, 2)
    BY <1>1, <2>1, HornerSplits
  <2>3. Weight(s)[2] = 1 /\ Ints(RowMajor(s), 2) /\ Vector(x, 2)
    BY WeightsOfShape, WithinIsVector
  <2>4. Rest(x, RowMajor(s), 2, 2) = 0
    BY <2>3, RestFacts
  <2> QED
    BY <2>2, <2>3, <2>4
<1> QED
  BY <1>2, <1>3, <1>4

\* The flat index of an image element.
LEMMA FlatOfFour ==
  ASSUME NEW s, Shape(s), Len(s) = 4, NEW x, Within(x, s)
  PROVE  Flat(s, x) = ((x[1] * s[2] + x[2]) * s[3] + x[3]) * s[4] + x[4]
<1>1. PICK h : Horner(s, x, h)
  BY HornerExists
<1>2. /\ h[0] = 0 /\ h[1] = h[0] * s[1] + x[1] /\ h[2] = h[1] * s[2] + x[2]
      /\ h[3] = h[2] * s[3] + x[3] /\ h[4] = h[3] * s[4] + x[4]
  BY <1>1 DEF Horner
<1>3. s[1] \in Nat /\ x[1] \in Nat
  <2>1. 1 \in 1 .. Len(s)
    OBVIOUS
  <2>2. s[1] \in Nat
    BY <2>1, ShapeFacts
  <2>3. x[1] \in 0 .. s[1] - 1
    BY <2>1 DEF Within
  <2> QED
    BY <2>2, <2>3
<1>4. h[1] = x[1]
  BY <1>2, <1>3
<1>5. Flat(s, x) = h[4]
  <2>1. 4 \in 0 .. Len(s)
    OBVIOUS
  <2>2. h[4] \in Nat /\ Flat(s, x) = h[4] * Weight(s)[4] + Rest(x, RowMajor(s), 4, 4)
    BY <1>1, <2>1, HornerSplits
  <2>3. Weight(s)[4] = 1 /\ Ints(RowMajor(s), 4) /\ Vector(x, 4)
    BY WeightsOfShape, WithinIsVector
  <2>4. Rest(x, RowMajor(s), 4, 4) = 0
    BY <2>3, RestFacts
  <2> QED
    BY <2>2, <2>3, <2>4
<1> QED
  BY <1>2, <1>4, <1>5

\* Rows and columns number the elements of a matrix.
LEMMA PairNumbers ==
  ASSUME NEW M \in Nat, NEW N \in Nat
  PROVE  /\ M * N \in Nat
         /\ \A a \in 0 .. M - 1, b \in 0 .. N - 1 : a * N + b \in 0 .. M * N - 1
         /\ \A i \in 0 .. M * N - 1 : /\ i \div N \in 0 .. M - 1 /\ i % N \in 0 .. N - 1
                                     /\ i = (i \div N) * N + (i % N)
<1>1. M * N \in Nat
  BY TimesNat
<1>2. ASSUME NEW a \in 0 .. M - 1, NEW b \in 0 .. N - 1 PROVE a * N + b \in 0 .. M * N - 1
  <2>1. a \in Int /\ a + 1 \in Int /\ a + 1 <= M /\ M \in Int /\ 0 \in Int /\ 0 <= a
    OBVIOUS
  <2>2. (a + 1) * N <= M * N /\ (a + 1) * N \in Int
    BY <2>1, TimesMonotone
  <2>3. 0 * N <= a * N /\ a * N \in Int /\ 0 * N = 0
    BY <2>1, TimesMonotone
  <2>4. (a + 1) * N = a * N + N
    BY <2>1
  <2> DEFINE m == M * N
             p == a * N
  <2>5. m \in Int /\ p \in Int /\ p + N <= m /\ 0 <= p
    BY <1>1, <2>2, <2>3, <2>4
  <2> HIDE DEF m, p
  <2>6. p + b \in 0 .. m - 1
    BY <2>5
  <2> QED
    BY <2>6 DEF m, p
<1>3. ASSUME NEW i \in 0 .. M * N - 1
      PROVE  /\ i \div N \in 0 .. M - 1 /\ i % N \in 0 .. N - 1
             /\ i = (i \div N) * N + (i % N)
  <2>1. N > 0
    <3>1. CASE N = 0
      <4>1. M * N = 0
        BY <3>1
      <4> QED
        BY <4>1
    <3> QED
      BY <3>1
  <2> DEFINE q == i \div N
             r == i % N
  <2>2. i \in Int /\ i >= 0 /\ i < M * N
    BY <1>1
  <2>3. q \in Int /\ r \in 0 .. N - 1 /\ i = q * N + r
    BY <2>1, <2>2, DivMod
  <2> HIDE DEF q, r
  <2>4. q >= 0
    <3>1. CASE q < 0
      <4>1. q \in Int /\ -1 \in Int /\ q <= -1
        BY <2>3, <3>1
      <4>2. q * N <= (-1) * N /\ q * N \in Int
        BY <4>1, TimesMonotone
      <4>3. (-1) * N = -N
        OBVIOUS
      <4> QED
        BY <2>2, <2>3, <4>2, <4>3
    <3> QED
      BY <2>3, <3>1
  <2>5. q < M
    <3>1. CASE q >= M
      <4>1. M * N <= q * N /\ q * N \in Int
        BY <2>3, <3>1, TimesMonotone
      <4> QED
        BY <1>1, <2>2, <2>3, <4>1
    <3> QED
      BY <2>3, <3>1
  <2>6. q \in 0 .. M - 1
    BY <2>3, <2>4, <2>5
  <2> QED
    BY <2>3, <2>6 DEF q, r
<1> QED
  BY <1>1, <1>2, <1>3

\* The coordinates of an image.
LEMMA FourCoords ==
  ASSUME NEW s, Shape(s), Len(s) = 4
  PROVE  /\ \A d \in 1 .. 4 : s[d] \in Nat /\ s[d] > 0
         /\ \A a \in 0 .. s[1] - 1, b \in 0 .. s[2] - 1, i \in 0 .. s[3] - 1, j \in 0 .. s[4] - 1 :
              /\ <<a, b, i, j>> \in Coords(s) /\ Within(<<a, b, i, j>>, s)
              /\ Flat(s, <<a, b, i, j>>) = ((a * s[2] + b) * s[3] + i) * s[4] + j
         /\ \A z \in Coords(s) : /\ \A d \in 1 .. 4 : z[d] \in 0 .. s[d] - 1
                                /\ z = <<z[1], z[2], z[3], z[4]>>
<1>1. \A d \in 1 .. 4 : s[d] \in Nat /\ s[d] > 0
  BY ShapeFacts
<1>2. ASSUME NEW a \in 0 .. s[1] - 1, NEW b \in 0 .. s[2] - 1,
             NEW i \in 0 .. s[3] - 1, NEW j \in 0 .. s[4] - 1
      PROVE  /\ <<a, b, i, j>> \in Coords(s) /\ Within(<<a, b, i, j>>, s)
             /\ Flat(s, <<a, b, i, j>>) = ((a * s[2] + b) * s[3] + i) * s[4] + j
  <2> DEFINE z == <<a, b, i, j>>
  <2>1. z = [d \in 1 .. 4 |-> z[d]] /\ DOMAIN z = 1 .. 4
    OBVIOUS
  <2>2. z[1] = a /\ z[2] = b /\ z[3] = i /\ z[4] = j
    OBVIOUS
  <2> HIDE DEF z
  <2>3. \A d \in 1 .. 4 : z[d] \in 0 .. s[d] - 1
    <3> SUFFICES ASSUME NEW d \in 1 .. 4 PROVE z[d] \in 0 .. s[d] - 1
      OBVIOUS
    <3>1. d = 1 \/ d = 2 \/ d = 3 \/ d = 4
      OBVIOUS
    <3> QED
      BY <2>2, <3>1
  <2>4. z \in Coords(s) /\ Within(z, s)
    BY <2>1, <2>3, IsCoords DEF Within
  <2>5. Flat(s, z) = ((z[1] * s[2] + z[2]) * s[3] + z[3]) * s[4] + z[4]
    BY <2>4, FlatOfFour
  <2> QED
    BY <2>2, <2>4, <2>5 DEF z
<1>3. ASSUME NEW z \in Coords(s)
      PROVE  /\ \A d \in 1 .. 4 : z[d] \in 0 .. s[d] - 1
             /\ z = <<z[1], z[2], z[3], z[4]>>
  <2>1. z \in Seq(Nat) /\ Len(z) = 4 /\ \A d \in 1 .. 4 : z[d] \in 0 .. s[d] - 1
    BY CoordsFunction
  <2> QED
    BY <2>1
<1> QED
  BY <1>1, <1>2, <1>3

\* The mean of an image is one of its channel.
LEMMA GlobalMeans ==
  ASSUME NEW c, IsCall(c), c.kernel = "GlobalAveragePool", NEW x \in Coords(c.out)
  PROVE  Terms(c, Flat(c.out, x)) = Meaning(c, x)
<1> DEFINE X == c.ins[1]
           f == Flat(c.out, x)
           Matching == {y \in Coords(X) : y[1] = x[1] /\ y[2] = x[2]}
<1>1. Shape(X) /\ Len(X) = 4 /\ Shape(c.out) /\ c.out = <<X[1], X[2], 1, 1>>
  BY CallFacts DEF IsCall, Broadcasting
<1>2. Len(c.out) = 4 /\ c.out[1] = X[1] /\ c.out[2] = X[2] /\ c.out[3] = 1 /\ c.out[4] = 1
  BY <1>1
<1>3. Terms(c, f) = {<<f * X[3] * X[4] + i>> : i \in 0 .. X[3] * X[4] - 1}
  BY DEF Terms, GlobalAveragePool
<1>4. Meaning(c, x) = {<<Flat(X, z)>> : z \in Matching}
  <2>1. Meaning(c, x) = Copied(c, LAMBDA z : z[1] = x[1] /\ z[2] = x[2])
    BY DEF Meaning, Broadcasting, Batched
  <2> QED
    BY <2>1 DEF Copied
<1>5. \A d \in 1 .. 4 : X[d] \in Nat /\ X[d] > 0
  BY <1>1, FourCoords
<1>6. /\ x[1] \in 0 .. X[1] - 1 /\ x[2] \in 0 .. X[2] - 1
      /\ f = x[1] * X[2] + x[2] /\ f \in Nat
  <2>1. \A d \in 1 .. 4 : x[d] \in 0 .. c.out[d] - 1
    BY <1>1, <1>2, FourCoords
  <2>2. x[3] = 0 /\ x[4] = 0 /\ x[1] \in 0 .. X[1] - 1 /\ x[2] \in 0 .. X[2] - 1
    <3>1. x[3] \in 0 .. c.out[3] - 1 /\ x[4] \in 0 .. c.out[4] - 1
          /\ x[1] \in 0 .. c.out[1] - 1 /\ x[2] \in 0 .. c.out[2] - 1
      BY <2>1
    <3> QED
      BY <1>2, <3>1
  <2>3. Within(x, c.out)
    BY <1>1, CoordsFunction
  <2>4. f = ((x[1] * c.out[2] + x[2]) * c.out[3] + x[3]) * c.out[4] + x[4]
    BY <1>1, <1>2, <2>3, FlatOfFour
  <2>5. X[2] \in Nat /\ x[1] \in Nat /\ x[2] \in Nat
    BY <1>5, <2>2
  <2> HIDE DEF f, X
  <2> DEFINE p == x[1] * X[2]
  <2>6. p \in Nat
    BY <2>5, TimesNat
  <2>7. f = ((p + x[2]) * 1 + 0) * 1 + 0
    BY <1>2, <2>2, <2>4
  <2> HIDE DEF p
  <2>8. f = p + x[2] /\ f \in Nat
    BY <2>5, <2>6, <2>7
  <2> QED
    BY <2>2, <2>8 DEF p
<1> DEFINE H == X[3]
           W == X[4]
<1>7. H \in Nat /\ W \in Nat
  BY <1>5
<1>8. ASSUME NEW i \in 0 .. H - 1, NEW j \in 0 .. W - 1
      PROVE  /\ <<x[1], x[2], i, j>> \in Matching
             /\ Flat(X, <<x[1], x[2], i, j>>) = f * H * W + (i * W + j)
  <2>1. /\ <<x[1], x[2], i, j>> \in Coords(X)
        /\ Flat(X, <<x[1], x[2], i, j>>) = ((x[1] * X[2] + x[2]) * H + i) * W + j
    BY <1>1, <1>6, FourCoords
  <2> HIDE DEF f, X, H, W
  <2>2. ((x[1] * X[2] + x[2]) * H + i) * W + j = (f * H + i) * W + j
    BY <1>6
  <2>3. ASSUME NEW a \in Int, NEW b \in Int, NEW g \in Int, NEW d \in Int, NEW e \in Int
        PROVE  (a * b + g) * d + e = a * b * d + (g * d + e)
    OBVIOUS
  <2>4. (f * H + i) * W + j = f * H * W + (i * W + j)
    BY <1>6, <1>7, <2>3
  <2> QED
    BY <2>1, <2>2, <2>4
<1>9. ASSUME NEW z \in Matching
      PROVE  z[3] \in 0 .. H - 1 /\ z[4] \in 0 .. W - 1 /\ z = <<x[1], x[2], z[3], z[4]>>
  <2>1. z = <<z[1], z[2], z[3], z[4]>> /\ \A d \in 1 .. 4 : z[d] \in 0 .. X[d] - 1
    BY <1>1, FourCoords
  <2> QED
    BY <2>1
<1>10. /\ \A a \in 0 .. H - 1, b \in 0 .. W - 1 : a * W + b \in 0 .. H * W - 1
       /\ \A i \in 0 .. H * W - 1 : /\ i \div W \in 0 .. H - 1 /\ i % W \in 0 .. W - 1
                                   /\ i = (i \div W) * W + (i % W)
  BY <1>7, PairNumbers
<1>11. Terms(c, f) = {<<f * H * W + i>> : i \in 0 .. H * W - 1}
  BY <1>3
<1> HIDE DEF X, f, Matching, H, W
<1>12. {<<f * H * W + i>> : i \in 0 .. H * W - 1} = {<<Flat(X, z)>> : z \in Matching}
  <2>1. ASSUME NEW i \in 0 .. H * W - 1 PROVE \E z \in Matching : Flat(X, z) = f * H * W + i
    <3>1. i \div W \in 0 .. H - 1 /\ i % W \in 0 .. W - 1 /\ i = (i \div W) * W + (i % W)
      BY <1>10
    <3> DEFINE z == <<x[1], x[2], i \div W, i % W>>
    <3>2. z \in Matching /\ Flat(X, z) = f * H * W + ((i \div W) * W + (i % W))
      BY <1>8, <3>1
    <3> HIDE DEF z
    <3> QED
      BY <3>1, <3>2
  <2>2. ASSUME NEW z \in Matching
        PROVE  \E i \in 0 .. H * W - 1 : Flat(X, z) = f * H * W + i
    <3>1. z[3] \in 0 .. H - 1 /\ z[4] \in 0 .. W - 1 /\ z = <<x[1], x[2], z[3], z[4]>>
      BY <1>9
    <3>2. Flat(X, z) = f * H * W + (z[3] * W + z[4])
      BY <1>8, <3>1
    <3>3. z[3] * W + z[4] \in 0 .. H * W - 1
      BY <1>10, <3>1
    <3> QED
      BY <3>2, <3>3
  <2> QED
    BY <2>1, <2>2
<1> QED
  BY <1>4, <1>11, <1>12 DEF f

-----------------------------------------------------------------------------
(* One dimension among the others. *)

\* Shapes, and coordinates in them, that agree but along one dimension.
Apart(s, t, a) ==
  /\ Shape(s) /\ Shape(t) /\ Len(t) = Len(s) /\ a \in 1 .. Len(s)
  /\ \A d \in 1 .. Len(s) : d # a => t[d] = s[d]

\* What lies behind a dimension is numbered alike.
LEMMA SameRest ==
  ASSUME NEW s, NEW t, NEW a, Apart(s, t, a), NEW x \in Coords(s), NEW z \in Coords(t),
         \A d \in 1 .. Len(s) : d # a => z[d] = x[d]
  PROVE  /\ Weight(s)[a] = Weight(t)[a]
         /\ Rest(x, RowMajor(s), Len(s), a) = Rest(z, RowMajor(t), Len(t), a)
<1> DEFINE n == Len(s)
           v == Weight(s)
           w == Weight(t)
           p == [j \in 0 .. n |-> Rest(x, RowMajor(s), n, j)]
           q == [j \in 0 .. n |-> Rest(z, RowMajor(t), n, j)]
           G == {j \in 0 .. n : j >= a => v[j] = w[j] /\ p[j] = q[j]}
<1>1. /\ Shape(s) /\ Shape(t) /\ Len(t) = n /\ n \in Nat /\ a \in 1 .. n
      /\ \A d \in 1 .. n : d # a => t[d] = s[d]
  BY ShapeFacts DEF Apart
<1>2. /\ v[n] = 1 /\ Ints(RowMajor(s), n)
      /\ \A d \in 1 .. n : v[d - 1] = s[d] * v[d] /\ RowMajor(s)[d] = v[d]
  BY <1>1, WeightsOfShape
<1>3. /\ w[n] = 1 /\ Ints(RowMajor(t), n)
      /\ \A d \in 1 .. n : w[d - 1] = t[d] * w[d] /\ RowMajor(t)[d] = w[d]
  BY <1>1, WeightsOfShape
<1>4. Vector(x, n) /\ Vector(z, n)
  BY <1>1, CoordsFunction
<1>5. \A j \in 0 .. n : p[j] = Rest(x, RowMajor(s), n, j) /\ q[j] = Rest(z, RowMajor(t), n, j)
  OBVIOUS
<1>6. \A j \in 1 .. n : j - 1 \in 0 .. n /\ j \in 0 .. n
  BY <1>1
<1>7. n \in 0 .. n /\ a \in 0 .. n
  BY <1>1
<1> HIDE DEF n, v, w, p, q
<1>8. p[n] = 0 /\ \A j \in 1 .. n : p[j - 1] = x[j] * v[j] + p[j]
  <2>1. /\ Rest(x, RowMajor(s), n, n) = 0
        /\ \A j \in 1 .. n : Rest(x, RowMajor(s), n, j - 1)
                               = x[j] * RowMajor(s)[j] + Rest(x, RowMajor(s), n, j)
    <3> DEFINE u == RowMajor(s)
    <3>1. n \in Nat /\ Vector(x, n) /\ Ints(u, n)
      BY <1>1, <1>2, <1>4
    <3> HIDE DEF u
    <3>2. /\ Rest(x, u, n, n) = 0
          /\ \A j \in 1 .. n : Rest(x, u, n, j - 1) = x[j] * u[j] + Rest(x, u, n, j)
      BY <3>1, RestFacts
    <3> QED
      BY <3>2 DEF u
  <2> QED
    BY <1>2, <1>5, <1>6, <1>7, <2>1
<1>9. q[n] = 0 /\ \A j \in 1 .. n : q[j - 1] = z[j] * w[j] + q[j]
  <2>1. /\ Rest(z, RowMajor(t), n, n) = 0
        /\ \A j \in 1 .. n : Rest(z, RowMajor(t), n, j - 1)
                               = z[j] * RowMajor(t)[j] + Rest(z, RowMajor(t), n, j)
    <3> DEFINE u == RowMajor(t)
    <3>1. n \in Nat /\ Vector(z, n) /\ Ints(u, n)
      BY <1>1, <1>3, <1>4
    <3> HIDE DEF u
    <3>2. /\ Rest(z, u, n, n) = 0
          /\ \A j \in 1 .. n : Rest(z, u, n, j - 1) = z[j] * u[j] + Rest(z, u, n, j)
      BY <3>1, RestFacts
    <3> QED
      BY <3>2 DEF u
  <2> QED
    BY <1>3, <1>5, <1>6, <1>7, <2>1
<1>10. n \in G
  BY <1>2, <1>3, <1>7, <1>8, <1>9
<1>11. ASSUME NEW j \in 1 .. n, j \in G PROVE j - 1 \in G
  <2> SUFFICES ASSUME j - 1 >= a PROVE v[j - 1] = w[j - 1] /\ p[j - 1] = q[j - 1]
    BY <1>6
  <2>1. j >= a /\ j # a
    BY <1>1
  <2>2. v[j] = w[j] /\ p[j] = q[j]
    BY <1>11, <2>1
  <2>3. s[j] = t[j] /\ x[j] = z[j]
    BY <1>1, <2>1 DEF n
  <2> QED
    BY <1>2, <1>3, <1>8, <1>9, <2>2, <2>3
<1> HIDE DEF G
<1>12. \A j \in 0 .. n : j \in G
  BY <1>1, <1>10, <1>11, Downwards
<1>13. a >= a
  BY <1>1
<1>14. v[a] = w[a] /\ p[a] = q[a]
  BY <1>7, <1>12, <1>13 DEF G
<1> QED
  BY <1>1, <1>5, <1>7, <1>14 DEF n, v, w

\* And so is what lies before it.
LEMMA SameFront ==
  ASSUME NEW s, NEW t, NEW a, Apart(s, t, a), NEW x \in Coords(s), NEW z \in Coords(t),
         \A d \in 1 .. Len(s) : d # a => z[d] = x[d],
         NEW g, Horner(s, x, g), NEW h, Horner(t, z, h)
  PROVE  g[a - 1] = h[a - 1]
<1> DEFINE n == Len(s)
           G == {j \in Nat : j < a => g[j] = h[j]}
<1>1. n \in Nat /\ Len(t) = n /\ a \in 1 .. n /\ \A d \in 1 .. n : d # a => t[d] = s[d] /\ z[d] = x[d]
  BY ShapeFacts DEF Apart
<1>2. g[0] = 0 /\ \A d \in 1 .. n : g[d] = g[d - 1] * s[d] + x[d]
  BY DEF Horner
<1>3. h[0] = 0 /\ \A d \in 1 .. n : h[d] = h[d - 1] * t[d] + z[d]
  BY <1>1 DEF Horner
<1> HIDE DEF n
<1>4. 0 \in G
  BY <1>2, <1>3
<1>5. ASSUME NEW j \in Nat, j \in G PROVE j + 1 \in G
  <2> SUFFICES ASSUME j + 1 < a PROVE g[j + 1] = h[j + 1]
    OBVIOUS
  <2>1. j + 1 \in 1 .. n /\ j + 1 # a /\ (j + 1) - 1 = j /\ j < a
    BY <1>1
  <2>2. g[j] = h[j]
    BY <1>5, <2>1
  <2>3. t[j + 1] = s[j + 1] /\ z[j + 1] = x[j + 1]
    BY <1>1, <2>1
  <2>4. g[j + 1] = g[(j + 1) - 1] * s[j + 1] + x[j + 1]
        /\ h[j + 1] = h[(j + 1) - 1] * t[j + 1] + z[j + 1]
    BY <1>2, <1>3, <2>1
  <2> QED
    BY <2>1, <2>2, <2>3, <2>4
<1> HIDE DEF G
<1>6. Nat \subseteq G
  BY <1>4, <1>5, NatInductive
<1>7. a - 1 \in Nat /\ a - 1 < a
  BY <1>1
<1> QED
  BY <1>6, <1>7 DEF G

\* An element's place along a dimension: o in front, i behind.
LEMMA AxisFlat ==
  ASSUME NEW s, NEW t, NEW a, Apart(s, t, a), NEW x \in Coords(s), NEW z \in Coords(t),
         \A d \in 1 .. Len(s) : d # a => z[d] = x[d]
  PROVE  LET w == RowMajor(s)[a]
             f == Flat(s, x)
             o == f \div (s[a] * w)
             i == f % w
         IN  /\ w \in Nat /\ w > 0 /\ o \in Nat /\ i \in 0 .. w - 1 /\ RowMajor(t)[a] = w
             /\ f = (o * s[a] + x[a]) * w + i
             /\ Flat(t, z) = (o * t[a] + z[a]) * w + i
<1> DEFINE n == Len(s)
           w == Weight(s)[a]
           i == Rest(x, RowMajor(s), n, a)
<1>1. /\ Shape(s) /\ Shape(t) /\ Len(t) = n /\ n \in Nat /\ a \in 1 .. n
  BY ShapeFacts DEF Apart
<1>2. Within(x, s) /\ Within(z, t)
  BY <1>1, CoordsFunction
<1>3. PICK g : Horner(s, x, g)
  BY <1>1, <1>2, HornerExists
<1>4. PICK h : Horner(t, z, h)
  BY <1>1, <1>2, HornerExists
<1>5. a \in 0 .. n /\ a - 1 \in 0 .. n
  BY <1>1
<1>6. w \in Nat /\ w > 0 /\ RowMajor(s)[a] = w
  BY <1>1, <1>5, WeightsOfShape
<1>7. RowMajor(t)[a] = w
  <2>1. RowMajor(t)[a] = Weight(t)[a]
    BY <1>1, WeightsOfShape
  <2> QED
    BY <2>1, SameRest
<1>8. Flat(s, x) = g[a] * w + i /\ g[a - 1] \in Nat
  BY <1>1, <1>2, <1>3, <1>5, HornerSplits
<1>9. Flat(t, z) = h[a] * w + i
  <2>1. Flat(t, z) = h[a] * Weight(t)[a] + Rest(z, RowMajor(t), Len(t), a)
    BY <1>1, <1>2, <1>4, <1>5, HornerSplits
  <2> QED
    BY <2>1, SameRest
<1>10. g[a] = g[a - 1] * s[a] + x[a]
  BY <1>1, <1>3 DEF Horner
<1>11. h[a] = h[a - 1] * t[a] + z[a]
  BY <1>1, <1>4 DEF Horner
<1>12. g[a - 1] = h[a - 1]
  BY <1>3, <1>4, SameFront
<1>13. i \in 0 .. w - 1
  BY <1>1, <1>2, <1>5, RestIsSmall
<1>14. s[a] \in Nat /\ x[a] \in 0 .. s[a] - 1
  BY <1>1, CoordsFunction, ShapeFacts
<1> DEFINE f == Flat(s, x)
           o == g[a - 1]
           e == x[a]
           m == s[a]
<1>15. f = (o * m + e) * w + i
  BY <1>8, <1>10
<1>16. Flat(t, z) = (o * t[a] + z[a]) * w + i
  BY <1>9, <1>11, <1>12
<1>17. o \in Nat /\ m \in Nat /\ e \in 0 .. m - 1
  BY <1>8, <1>14
<1> HIDE DEF n, w, i, f, o, e, m
<1>18. f \div (m * w) = o /\ f % w = i
  <2>1. o \in Int /\ m \in Int /\ w \in Int
    BY <1>6, <1>17
  <2> DEFINE k == PairAt(o, m, w, e, i)
  <2>2. k \div (m * w) = o /\ k % w = i
    BY <1>13, <1>17, <2>1, MatrixIndex
  <2>3. f = k
    BY <1>15 DEF k, PairAt
  <2> HIDE DEF k
  <2> QED
    BY <2>2, <2>3
<1> QED
  BY <1>6, <1>7, <1>13, <1>15, <1>16, <1>17, <1>18 DEF f, m, e

\* A negative axis counts from behind.
LEMMA AxisInRange ==
  ASSUME NEW s, Shape(s), NEW ax, HasAxis(ax, s)
  PROVE  Axis(ax, Len(s)) + 1 \in 1 .. Len(s)
<1>1. Len(s) \in Nat
  BY ShapeFacts
<1> QED
  BY <1>1 DEF HasAxis, Axis

-----------------------------------------------------------------------------
(* Softmax and Concat. *)

\* A change of one coordinate.
LEMMA Moved ==
  ASSUME NEW s, NEW t, NEW a, Apart(s, t, a), NEW x \in Coords(s), NEW j \in 0 .. t[a] - 1
  PROVE  /\ [x EXCEPT ![a] = j] \in Coords(t) /\ [x EXCEPT ![a] = j][a] = j
         /\ \A d \in 1 .. Len(s) : d # a => [x EXCEPT ![a] = j][d] = x[d]
<1> DEFINE n == Len(s)
           z == [x EXCEPT ![a] = j]
<1>1. /\ Shape(s) /\ Shape(t) /\ Len(t) = n /\ a \in 1 .. n
      /\ \A d \in 1 .. n : d # a => t[d] = s[d]
  BY DEF Apart
<1>2. x = [d \in 1 .. n |-> x[d]] /\ \A d \in 1 .. n : x[d] \in 0 .. s[d] - 1
  BY <1>1, CoordsFunction
<1>3. z = [d \in 1 .. n |-> z[d]] /\ z[a] = j /\ \A d \in 1 .. n : d # a => z[d] = x[d]
  BY <1>1, <1>2
<1> HIDE DEF n, z
<1>4. \A d \in 1 .. n : z[d] \in 0 .. t[d] - 1
  <2> SUFFICES ASSUME NEW d \in 1 .. n PROVE z[d] \in 0 .. t[d] - 1
    OBVIOUS
  <2>1. CASE d = a
    BY <1>3, <2>1
  <2>2. CASE d # a
    BY <1>1, <1>2, <1>3, <2>2
  <2> QED
    BY <2>1, <2>2
<1>5. z \in Coords(t)
  BY <1>1, <1>3, <1>4, IsCoords
<1> QED
  BY <1>3, <1>5 DEF n, z

\* A row of a softmax is the elements that differ along its axis.
LEMMA SoftmaxMeans ==
  ASSUME NEW c, IsCall(c), c.kernel = "Softmax", NEW x \in Coords(c.out)
  PROVE  Terms(c, Flat(c.out, x)) = Meaning(c, x)
<1> DEFINE s == c.ins[1]
           n == Len(s)
           a == Axis(c.axis, n) + 1
           w == RowMajor(s)[a]
           f == Flat(s, x)
           o == f \div (s[a] * w)
           i == f % w
           Matching == {y \in Coords(s) : \A d \in 1 .. n : d = a \/ y[d] = x[d]}
           At2(j) == [x EXCEPT ![a] = j]
<1>1. Shape(s) /\ HasAxis(c.axis, s) /\ c.out = s
  BY CallFacts DEF IsCall, Broadcasting
<1>2. a \in 1 .. n /\ n \in Nat
  BY <1>1, AxisInRange, ShapeFacts
<1>3. Apart(s, s, a)
  BY <1>1, <1>2 DEF Apart
<1>4. x \in Coords(s) /\ Len(x) = n /\ x = [d \in 1 .. n |-> x[d]]
  BY <1>1, CoordsFunction
<1>5. Terms(c, f) = {<<o * s[a] * w + i + j * w>> : j \in 0 .. s[a] - 1}
  BY DEF Terms, Softmax
<1>6. Meaning(c, x) = {<<Flat(s, z)>> : z \in Matching}
  <2>1. Meaning(c, x) = Copied(c, LAMBDA z : \A d \in 1 .. Len(x) :
                                  d = Axis(c.axis, Len(x)) + 1 \/ z[d] = x[d])
    BY DEF Meaning, Broadcasting, Batched
  <2> QED
    BY <1>4, <2>1 DEF Copied
<1>7. ASSUME NEW z \in Matching
      PROVE  /\ w \in Nat /\ o \in Nat /\ i \in 0 .. w - 1
             /\ Flat(s, z) = (o * s[a] + z[a]) * w + i
  <2>1. z \in Coords(s) /\ \A d \in 1 .. n : d # a => z[d] = x[d]
    OBVIOUS
  <2> HIDE DEF s, n, a, Matching
  <2> QED
    BY <1>3, <1>4, <2>1, AxisFlat DEF n, w, f, o, i
<1>8. s[a] \in Nat /\ \A z \in Coords(s) : z[a] \in 0 .. s[a] - 1
  BY <1>1, <1>2, CoordsFunction, ShapeFacts
<1>9. ASSUME NEW j \in 0 .. s[a] - 1 PROVE At2(j) \in Matching /\ At2(j)[a] = j
  <2>1. At2(j) \in Coords(s) /\ At2(j)[a] = j /\ \A d \in 1 .. n : d # a => At2(j)[d] = x[d]
    BY <1>3, <1>4, Moved
  <2> HIDE DEF At2
  <2> QED
    BY <2>1
<1>10. \A z \in Matching : z \in Coords(s)
  OBVIOUS
<1> HIDE DEF s, n, a, w, f, o, i, Matching, At2
<1>11. ASSUME NEW z \in Matching
       PROVE  Flat(s, z) = o * s[a] * w + i + z[a] * w /\ z[a] \in 0 .. s[a] - 1
  <2>1. Flat(s, z) = (o * s[a] + z[a]) * w + i /\ o \in Int /\ w \in Int /\ i \in Int
    BY <1>7
  <2>2. z[a] \in 0 .. s[a] - 1 /\ z[a] \in Int /\ s[a] \in Int
    BY <1>8, <1>10
  <2>3. ASSUME NEW p \in Int, NEW q \in Int, NEW g \in Int, NEW h \in Int, NEW k \in Int
        PROVE  (p * q + g) * h + k = p * q * h + k + g * h
    OBVIOUS
  <2> QED
    BY <2>1, <2>2, <2>3
<1>12. {<<o * s[a] * w + i + j * w>> : j \in 0 .. s[a] - 1} = {<<Flat(s, z)>> : z \in Matching}
  <2>1. ASSUME NEW j \in 0 .. s[a] - 1
        PROVE  \E z \in Matching : Flat(s, z) = o * s[a] * w + i + j * w
    BY <1>9, <1>11
  <2>2. ASSUME NEW z \in Matching
        PROVE  \E j \in 0 .. s[a] - 1 : Flat(s, z) = o * s[a] * w + i + j * w
    BY <1>11
  <2> QED
    BY <2>1, <2>2
<1> QED
  BY <1>1, <1>5, <1>6, <1>12 DEF f

\* The extents of the operands in front of one, added up.
Ahead(c, axis, i) ==
  FoldLeft(LAMBDA n, k : n + c.ins[k][axis], 0, [k \in 1 .. i - 1 |-> k])

\* What lies ahead is the sum of the extents ahead.
LEMMA AheadIsSum ==
  ASSUME NEW c, NEW axis, NEW m \in Nat, \A k \in 1 .. m : c.ins[k][axis] \in Int
  PROVE  Ahead(c, axis, m + 1)
           = SumFunctionOnSet([k \in 1 .. m |-> c.ins[k][axis]], 1 .. m)
<1> DEFINE S == 1 .. m
           f == [d \in S |-> c.ins[d][axis]]
           id == [d \in S |-> d]
           k == CHOOSE g : g = [U \in SUBSET S |->
                  IF U = {} THEN 0 ELSE g[U \ {Max(U)}] + c.ins[id[Max(U)]][axis]]
<1>1. IsFiniteSet(S) /\ S \subseteq Int
  <2>1. 1 \in Int /\ m \in Int
    OBVIOUS
  <2>2. IsFiniteSet(1 .. m)
    BY <2>1, FS_Interval
  <2> QED
    BY <2>2
<1>2. \A d \in S : f[d] \in Int /\ f[d] = c.ins[id[d]][axis]
  OBVIOUS
<1>3. Ahead(c, axis, m + 1) = k[S]
  <2>1. (m + 1) - 1 = m /\ DOMAIN id = S
    OBVIOUS
  <2> QED
    BY <2>1 DEF Ahead, FoldLeft, MapThenFoldSet
<1>4. \A U \in SUBSET S : U # {} => Max(U) \in S
  BY <1>1, FS_Subset, MaxFacts
<1> HIDE DEF f, id
<1>5. PICK h : Accumulates(S, f, h)
  BY <1>1, <1>2, AddingUp
<1>6. h = [U \in SUBSET S |-> IF U = {} THEN 0 ELSE h[U \ {Max(U)}] + c.ins[id[Max(U)]][axis]]
  BY <1>2, <1>4, <1>5 DEF Accumulates
<1>7. k = [U \in SUBSET S |-> IF U = {} THEN 0 ELSE k[U \ {Max(U)}] + c.ins[id[Max(U)]][axis]]
  BY <1>6
<1> HIDE DEF k
<1>8. Accumulates(S, f, k)
  BY <1>2, <1>4, <1>7 DEF Accumulates
<1>9. k[S] = SumFunctionOnSet(f, S)
  BY <1>1, <1>2, <1>8, AddingUp
<1> QED
  BY <1>3, <1>9 DEF f

\* What Concat is called with: operands that differ along the axis only.
LEMMA ConcatFacts ==
  ASSUME NEW c, IsCall(c), c.kernel = "Concat"
  PROVE  LET a == Axis(c.axis, Len(c.out)) + 1
         IN  /\ \A k \in DOMAIN c.ins : Apart(c.out, c.ins[k], a)
             /\ \A k \in DOMAIN c.ins : c.ins[k][a] \in Nat /\ Ahead(c, a, k) \in Int
             /\ a \in 1 .. Len(c.out) /\ DOMAIN c.ins = 1 .. Len(c.ins) /\ Len(c.ins) \in Nat
<1> DEFINE a == Axis(c.axis, Len(c.out)) + 1
<1>1. /\ Shape(c.out) /\ IsConcat(c)
      /\ Len(c.ins) \in Nat /\ DOMAIN c.ins = 1 .. Len(c.ins)
      /\ \A k \in 1 .. Len(c.ins) : Shape(c.ins[k])
  BY CallFacts DEF IsCall, Broadcasting
<1>2. a \in 1 .. Len(c.out) /\ DOMAIN c.out = 1 .. Len(c.out)
  BY <1>1, AxisInRange, ShapeFacts DEF IsConcat
<1>3. \A k \in DOMAIN c.ins :
        /\ Len(c.ins[k]) = Len(c.out) /\ \A d \in DOMAIN c.out \ {a} : c.ins[k][d] = c.out[d]
  BY <1>1 DEF IsConcat
<1> HIDE DEF a
<1>4. ASSUME NEW k \in DOMAIN c.ins PROVE Apart(c.out, c.ins[k], a) /\ c.ins[k][a] \in Nat
  <2>1. Shape(c.ins[k]) /\ Len(c.ins[k]) = Len(c.out)
    BY <1>1, <1>3
  <2>2. \A d \in 1 .. Len(c.out) : d # a => c.ins[k][d] = c.out[d]
    BY <1>2, <1>3
  <2>3. c.ins[k][a] \in Nat
    BY <1>2, <2>1, ShapeFacts
  <2> QED
    BY <1>1, <1>2, <2>1, <2>2, <2>3 DEF Apart
<1>5. ASSUME NEW k \in DOMAIN c.ins PROVE Ahead(c, a, k) \in Int
  <2> DEFINE m == k - 1
             f == [i \in 1 .. m |-> c.ins[i][a]]
  <2>1. m \in Nat /\ m + 1 = k /\ \A i \in 1 .. m : i \in DOMAIN c.ins
    BY <1>1
  <2> HIDE DEF m
  <2>2. \A i \in 1 .. m : c.ins[i][a] \in Int
    BY <1>4, <2>1
  <2>3. Ahead(c, a, m + 1) = SumFunctionOnSet(f, 1 .. m)
    BY <2>1, <2>2, AheadIsSum
  <2>4. IsFiniteSet(1 .. m)
    <3>1. 1 \in Int /\ m \in Int
      BY <2>1
    <3> QED
      BY <3>1, FS_Interval
  <2>5. \A i \in 1 .. m : f[i] \in Int
    BY <2>2
  <2> HIDE DEF f
  <2>6. SumFunctionOnSet(f, 1 .. m) \in Int
    BY <2>4, <2>5, SumFacts
  <2> QED
    BY <2>1, <2>3, <2>6
<1> QED
  BY <1>1, <1>2, <1>4, <1>5 DEF a

\* The chunk of an element, and its place in it.
LEMMA ConcatMeans ==
  ASSUME NEW c, IsCall(c), c.kernel = "Concat", NEW x \in Coords(c.out)
  PROVE  Terms(c, Flat(c.out, x)) = Meaning(c, x)
<1> DEFINE s == c.out
           n == Len(s)
           a == Axis(c.axis, n) + 1
           w == RowMajor(s)[a]
           f == Flat(s, x)
           o == f \div (s[a] * w)
           i == f % w
           A(k) == Ahead(c, a, k)
           Base(k) == (o * s[a] + A(k)) * w
           Chunk(k) == c.ins[k][a] * w
           Here(k) == [x EXCEPT ![a] = @ - A(k)]
<1>1. /\ \A k \in DOMAIN c.ins : Apart(s, c.ins[k], a) /\ c.ins[k][a] \in Nat /\ A(k) \in Int
      /\ a \in 1 .. n
  BY ConcatFacts
<1>2. Shape(s) /\ Len(x) = n
  BY CallFacts, CoordsFunction
<1>3. x[a] \in Int /\ s[a] \in Int
  <2>1. x[a] \in 0 .. s[a] - 1 /\ s[a] \in Nat
    BY <1>1, <1>2, CoordsFunction, ShapeFacts
  <2> QED
    BY <2>1
<1>4. Terms(c, f) = {<<k, o * Chunk(k) + f - Base(k)>> :
                       k \in {l \in DOMAIN c.ins : f \in Base(l) .. Base(l) + Chunk(l) - 1}}
  BY DEF Terms, Concat, Ahead
<1>5. Meaning(c, x) = {<<k, Flat(c.ins[k], Here(k))>> :
                         k \in {j \in DOMAIN c.ins : x[a] - A(j) \in 0 .. c.ins[j][a] - 1}}
  <2> DEFINE e == Axis(c.axis, Len(x)) + 1
             D == {j \in DOMAIN c.ins : x[e] - Ahead(c, e, j) \in 0 .. c.ins[j][e] - 1}
  <2>1. Meaning(c, x) = {<<k, Flat(c.ins[k], [x EXCEPT ![e] = @ - Ahead(c, e, k)])>> : k \in D}
    BY DEF Meaning, Broadcasting, Batched, Ahead
  <2>2. e = a
    BY <1>2
  <2> HIDE DEF e
  <2> QED
    BY <2>1, <2>2
<1>6. Apart(s, s, a) /\ x \in Coords(s)
  BY <1>1, <1>2 DEF Apart
<1>7. w \in Nat /\ w > 0 /\ o \in Nat /\ i \in 0 .. w - 1 /\ f = (o * s[a] + x[a]) * w + i
  <2> HIDE DEF s, n, a
  <2> QED
    BY <1>6, AxisFlat DEF w, f, o, i
<1>8. ASSUME NEW k \in DOMAIN c.ins, x[a] - A(k) \in 0 .. c.ins[k][a] - 1
      PROVE  Flat(c.ins[k], Here(k)) = (o * c.ins[k][a] + (x[a] - A(k))) * w + i
  <2> DEFINE j == x[a] - A(k)
             z == [x EXCEPT ![a] = j]
  <2>1. Here(k) = z
    OBVIOUS
  <2>2. j \in 0 .. c.ins[k][a] - 1 /\ Apart(s, c.ins[k], a)
    BY <1>1, <1>8
  <2> HIDE DEF j
  <2>3. z \in Coords(c.ins[k]) /\ z[a] = j /\ \A d \in 1 .. n : d # a => z[d] = x[d]
    BY <2>2, Moved
  <2> HIDE DEF z, s, n, a, Here
  <2>4. Flat(c.ins[k], z) = (o * c.ins[k][a] + z[a]) * w + i
    BY <1>6, <2>2, <2>3, AxisFlat DEF w, f, o, i, n
  <2> QED
    BY <2>1, <2>3, <2>4 DEF j
<1> HIDE DEF s, n, a, w, f, o, i, A, Here
<1>9. ASSUME NEW k \in DOMAIN c.ins
      PROVE  /\ f \in Base(k) .. Base(k) + Chunk(k) - 1 <=> x[a] - A(k) \in 0 .. c.ins[k][a] - 1
             /\ o * Chunk(k) + f - Base(k) = (o * c.ins[k][a] + (x[a] - A(k))) * w + i
  <2> DEFINE j == x[a] - A(k)
             e == c.ins[k][a]
             b == Base(k)
             h == Chunk(k)
             p == j * w
  <2>1. j \in Int /\ e \in Nat /\ A(k) \in Int
    BY <1>1, <1>3
  <2>2. b \in Int /\ h \in Int /\ h = e * w /\ p \in Int
    <3> HIDE DEF j, e
    <3>1. o \in Int /\ w \in Int /\ s[a] \in Int /\ A(k) \in Int /\ e \in Int
      BY <1>3, <1>7, <2>1
    <3>2. o * s[a] + A(k) \in Int
      BY <3>1
    <3> QED
      BY <2>1, <3>1, <3>2 DEF e
  <2>3. f = b + p + i
    <3>1. ASSUME NEW g \in Int, NEW q \in Int, NEW r \in Int, NEW t \in Int, NEW v \in Int
          PROVE  (g + q) * r + t = (g + v) * r + (q - v) * r + t
      OBVIOUS
    <3>2. o * s[a] \in Int /\ i \in Int /\ w \in Int
      BY <1>3, <1>7
    <3> HIDE DEF b, p
    <3>3. (o * s[a] + x[a]) * w + i = (o * s[a] + A(k)) * w + (x[a] - A(k)) * w + i
      BY <1>3, <2>1, <3>1, <3>2
    <3> QED
      BY <1>7, <3>3 DEF b, p
  <2>4. i \in Int /\ 0 <= i /\ i < w /\ w \in Nat /\ w > 0
    BY <1>7
  <2> HIDE DEF j, e, Base, Chunk
  <2>5. j >= 0 <=> 0 <= p + i
    <3>1. CASE j >= 0
      <4>1. 0 * w <= j * w
        BY <2>1, <2>4, <3>1, TimesMonotone
      <4> QED
        BY <2>2, <2>4, <3>1, <4>1
    <3>2. CASE j < 0
      <4>1. j <= -1 /\ -1 \in Int
        BY <2>1, <3>2
      <4>2. j * w <= (-1) * w
        BY <2>1, <2>4, <4>1, TimesMonotone
      <4>3. (-1) * w = -w
        BY <2>4
      <4> QED
        BY <2>1, <2>2, <2>4, <3>2, <4>2, <4>3
    <3> QED
      BY <2>1, <3>1, <3>2
  <2>6. j < e <=> p + i < h
    <3>1. CASE j < e
      <4>1. j + 1 \in Int /\ j + 1 <= e /\ e \in Int
        BY <2>1, <3>1
      <4>2. (j + 1) * w <= e * w
        BY <2>4, <4>1, TimesMonotone
      <4>3. (j + 1) * w = p + w
        BY <2>1, <2>4
      <4> QED
        BY <2>2, <2>4, <3>1, <4>2, <4>3
    <3>2. CASE ~(j < e)
      <4>1. e <= j /\ e \in Int
        BY <2>1, <3>2
      <4>2. e * w <= j * w
        BY <2>1, <2>4, <4>1, TimesMonotone
      <4> QED
        BY <2>2, <2>4, <3>2, <4>2
    <3> QED
      BY <3>1, <3>2
  <2> HIDE DEF b, h, p
  <2>7. f \in b .. b + h - 1 <=> j \in 0 .. e - 1
    BY <2>1, <2>2, <2>3, <2>4, <2>5, <2>6
  <2>8. o * h + f - b = (o * e + j) * w + i
    <3>1. o * h + f - b = o * h + p + i
      <4> DEFINE u == o * h
      <4>1. u \in Int
        BY <1>7, <2>2
      <4> HIDE DEF u
      <4>2. u + f - b = u + p + i
        BY <2>2, <2>3, <2>4, <4>1
      <4> QED
        BY <4>2 DEF u
    <3>2. ASSUME NEW g \in Int, NEW q \in Int, NEW r \in Int, NEW t \in Int, NEW v \in Int
          PROVE  g * (q * r) + v * r + t = (g * q + v) * r + t
      OBVIOUS
    <3>3. o * (e * w) + j * w + i = (o * e + j) * w + i
      BY <1>7, <2>1, <2>4, <3>2
    <3> QED
      BY <2>2, <3>1, <3>3 DEF p
  <2> QED
    BY <2>7, <2>8 DEF b, h, j, e
<1>10. Terms(c, f) = Meaning(c, x)
  <2> HIDE DEF Base, Chunk
  <2>1. {l \in DOMAIN c.ins : f \in Base(l) .. Base(l) + Chunk(l) - 1}
          = {j \in DOMAIN c.ins : x[a] - A(j) \in 0 .. c.ins[j][a] - 1}
    BY <1>9
  <2>2. ASSUME NEW k \in {j \in DOMAIN c.ins : x[a] - A(j) \in 0 .. c.ins[j][a] - 1}
        PROVE  <<k, o * Chunk(k) + f - Base(k)>> = <<k, Flat(c.ins[k], Here(k))>>
    BY <1>8, <1>9
  <2> QED
    BY <1>4, <1>5, <2>1, <2>2
<1> QED
  BY <1>10 DEF f, s

-----------------------------------------------------------------------------
(* Windows. *)

\* A tap covers one position, and that position lies under it.
Found(i, stride, t, dilation, pad) ==
  /\ Covered(i, stride, t, dilation, pad) \in Int
  /\ \A z \in Int : Under(z, i, t, stride, dilation, pad)
                      <=> z = Covered(i, stride, t, dilation, pad)

\* It does, whatever the stride, the dilation and the padding.
LEMMA UnderIsCovered ==
  ASSUME NEW i \in Int, NEW stride \in Int, NEW t \in Int, NEW dilation \in Int, NEW pad \in Int
  PROVE  Found(i, stride, t, dilation, pad)
<1> DEFINE p == i * stride
           q == t * dilation
<1>1. p \in Int /\ q \in Int
  OBVIOUS
<1>2. Covered(i, stride, t, dilation, pad) = p + q - pad
  BY DEF Covered
<1>3. \A z : Under(z, i, t, stride, dilation, pad) <=> z + pad = p + q
  BY DEF Under
<1> HIDE DEF p, q
<1> QED
  BY <1>1, <1>2, <1>3 DEF Found

\* A window is the input positions under its taps.
LEMMA PoolMeans ==
  ASSUME NEW c, IsCall(c), c.kernel \in {"MaxPool", "AveragePool"}, NEW x \in Coords(c.out)
  PROVE  Terms(c, Flat(c.out, x)) = Meaning(c, x)
<1> DEFINE X == c.ins[1]
           f == Flat(c.out, x)
           T == (0 .. c.window[1] - 1) \X (0 .. c.window[2] - 1)
           Ih(t) == Covered(x[3], c.strides[1], t[1], 1, c.pads[1])
           Iw(t) == Covered(x[4], c.strides[2], t[2], 1, c.pads[2])
           Taps == {t \in T : Ih(t) \in 0 .. X[3] - 1 /\ Iw(t) \in 0 .. X[4] - 1}
           OnTap(z, d, u) == Under(z[d], x[d], u, c.strides[d - 2], 1, c.pads[d - 2])
           Seen(z, d) == \E u \in 0 .. c.window[d - 2] - 1 : OnTap(z, d, u)
           Matching == {z \in Coords(X) : z[1] = x[1] /\ z[2] = x[2] /\ \A d \in {3, 4} : Seen(z, d)}
<1>1. Shape(X) /\ Shape(c.out) /\ IsPool(c)
  BY CallFacts DEF IsCall, Broadcasting
<1>2. /\ Len(X) = 4 /\ Len(c.out) = 4 /\ c.out[1] = X[1] /\ c.out[2] = X[2]
      /\ \A d \in {1, 2} : /\ c.window[d] \in Nat /\ c.window[d] > 0
                          /\ c.strides[d] \in Nat /\ c.strides[d] > 0 /\ c.pads[d] \in Nat
  <2>1. {1, 2} = 1 .. 2
    OBVIOUS
  <2> QED
    BY <1>1, <2>1 DEF IsPool, Positive
<1>3. /\ \A d \in 1 .. 4 : x[d] \in 0 .. c.out[d] - 1
      /\ \A d \in 1 .. 4 : c.out[d] \in Nat
  BY <1>1, <1>2, FourCoords
<1>4. /\ x[1] \in 0 .. X[1] - 1 /\ x[2] \in 0 .. X[2] - 1 /\ x[3] \in Int /\ x[4] \in Int
  <2>1. x[1] \in 0 .. c.out[1] - 1 /\ x[2] \in 0 .. c.out[2] - 1
        /\ x[3] \in 0 .. c.out[3] - 1 /\ x[4] \in 0 .. c.out[4] - 1
    BY <1>3
  <2> QED
    BY <1>2, <1>3, <2>1
<1>5. At(c.out, f) = x
  BY <1>1, CoordsFunction, AtFlat
<1>6. Terms(c, f) = {<<Index(X, <<x[1], x[2], Ih(t), Iw(t)>>)>> : t \in Taps}
  <2> DEFINE S(d) == IF c.strides[d] = 0 THEN c.window[d] ELSE c.strides[d]
             Jh(t) == Covered(x[3], S(1), t[1], 1, c.pads[1])
             Jw(t) == Covered(x[4], S(2), t[2], 1, c.pads[2])
  <2>1. S(1) = c.strides[1] /\ S(2) = c.strides[2]
    BY <1>2
  <2>2. Terms(c, f) = {<<Index(X, <<x[1], x[2], Jh(t), Jw(t)>>)>> :
                         t \in {t \in T : Jh(t) \in 0 .. X[3] - 1 /\ Jw(t) \in 0 .. X[4] - 1}}
    BY <1>5 DEF Terms, Pool
  <2> HIDE DEF S
  <2> QED
    BY <2>1, <2>2
<1>7. Meaning(c, x) = {<<Flat(X, z)>> : z \in Matching}
  <2>1. Meaning(c, x) = Copied(c, LAMBDA z :
                     /\ z[1] = x[1] /\ z[2] = x[2]
                     /\ \A d \in {3, 4} : \E t \in 0 .. c.window[d - 2] - 1 :
                          Under(z[d], x[d], t, c.strides[d - 2], 1, c.pads[d - 2]))
    BY DEF Meaning, Broadcasting, Batched
  <2> QED
    BY <2>1 DEF Copied
<1>0. ASSUME NEW i \in Int, NEW s \in Int, NEW u \in Int, NEW p \in Int
      PROVE  Found(i, s, u, 1, p)
  <2> DEFINE one == 1
  <2>1. one \in Int
    OBVIOUS
  <2> HIDE DEF one
  <2>2. Found(i, s, u, one, p)
    BY <2>1, UnderIsCovered
  <2> QED
    BY <2>2 DEF one
<1>8. ASSUME NEW t \in T
      PROVE  /\ Ih(t) \in Int /\ \A z : z[3] \in Int => (OnTap(z, 3, t[1]) <=> z[3] = Ih(t))
             /\ Iw(t) \in Int /\ \A z : z[4] \in Int => (OnTap(z, 4, t[2]) <=> z[4] = Iw(t))
  <2>1. t[1] \in Int /\ t[2] \in Int
    BY <1>2
  <2>2. /\ x[3] \in Int /\ c.strides[1] \in Int /\ c.pads[1] \in Int /\ 1 \in Int
        /\ x[4] \in Int /\ c.strides[2] \in Int /\ c.pads[2] \in Int
    BY <1>2, <1>4
  <2>3. 3 - 2 = 1 /\ 4 - 2 = 2
    OBVIOUS
  <2>4. /\ Ih(t) \in Int
        /\ \A z \in Int : Under(z, x[3], t[1], c.strides[1], 1, c.pads[1]) <=> z = Ih(t)
    <3>1. Found(x[3], c.strides[1], t[1], 1, c.pads[1])
      BY <1>0, <2>1, <2>2
    <3> QED
      BY <3>1 DEF Found
  <2>5. /\ Iw(t) \in Int
        /\ \A z \in Int : Under(z, x[4], t[2], c.strides[2], 1, c.pads[2]) <=> z = Iw(t)
    <3>1. Found(x[4], c.strides[2], t[2], 1, c.pads[2])
      BY <1>0, <2>1, <2>2
    <3> QED
      BY <3>1 DEF Found
  <2>6. /\ \A z : OnTap(z, 3, t[1]) <=> Under(z[3], x[3], t[1], c.strides[1], 1, c.pads[1])
        /\ \A z : OnTap(z, 4, t[2]) <=> Under(z[4], x[4], t[2], c.strides[2], 1, c.pads[2])
    BY <2>3
  <2> HIDE DEF Ih, Iw, OnTap
  <2> QED
    BY <2>4, <2>5, <2>6
<1>9. /\ \A t \in T : /\ t[1] \in 0 .. c.window[3 - 2] - 1 /\ t[2] \in 0 .. c.window[4 - 2] - 1
      /\ \A u \in 0 .. c.window[3 - 2] - 1, v \in 0 .. c.window[4 - 2] - 1 :
           <<u, v>> \in T /\ <<u, v>>[1] = u /\ <<u, v>>[2] = v
  <2>1. 3 - 2 = 1 /\ 4 - 2 = 2
    OBVIOUS
  <2> QED
    BY <2>1
<1>10. \A i \in 0 .. X[3] - 1, j \in 0 .. X[4] - 1 :
         /\ <<x[1], x[2], i, j>> \in Coords(X)
         /\ Index(X, <<x[1], x[2], i, j>>) = Flat(X, <<x[1], x[2], i, j>>)
  BY <1>1, <1>2, <1>4, FourCoords, IndexIsFlat
<1>11. \A z \in Coords(X) : /\ \A d \in 1 .. 4 : z[d] \in 0 .. X[d] - 1
                           /\ z = <<z[1], z[2], z[3], z[4]>>
  BY <1>1, <1>2, FourCoords
<1>12. \A z : z \in Matching <=> /\ z \in Coords(X) /\ z[1] = x[1] /\ z[2] = x[2]
                                /\ Seen(z, 3) /\ Seen(z, 4)
  OBVIOUS
<1>13. \A t : t \in Taps <=> t \in T /\ Ih(t) \in 0 .. X[3] - 1 /\ Iw(t) \in 0 .. X[4] - 1
  OBVIOUS
<1> HIDE DEF X, f, T, Ih, Iw, Taps, OnTap, Matching
<1>14. ASSUME NEW t \in Taps
       PROVE  \E z \in Matching : Flat(X, z) = Index(X, <<x[1], x[2], Ih(t), Iw(t)>>)
  <2>1. t \in T /\ Ih(t) \in 0 .. X[3] - 1 /\ Iw(t) \in 0 .. X[4] - 1
    BY <1>13
  <2> DEFINE z == <<x[1], x[2], Ih(t), Iw(t)>>
  <2>2. z \in Coords(X) /\ Index(X, z) = Flat(X, z)
    BY <1>10, <2>1
  <2>3. z[1] = x[1] /\ z[2] = x[2] /\ z[3] = Ih(t) /\ z[4] = Iw(t)
    OBVIOUS
  <2> HIDE DEF z
  <2>4. OnTap(z, 3, t[1]) /\ OnTap(z, 4, t[2])
    BY <1>8, <2>1, <2>3
  <2>5. Seen(z, 3) /\ Seen(z, 4)
    BY <1>9, <2>1, <2>4
  <2>6. z \in Matching
    BY <1>12, <2>2, <2>3, <2>5
  <2>7. Flat(X, z) = Index(X, z)
    BY <2>2
  <2> QED
    BY <2>6, <2>7 DEF z
<1>15. ASSUME NEW z \in Matching
       PROVE  \E t \in Taps : Flat(X, z) = Index(X, <<x[1], x[2], Ih(t), Iw(t)>>)
  <2>1. z \in Coords(X) /\ z[1] = x[1] /\ z[2] = x[2] /\ Seen(z, 3) /\ Seen(z, 4)
    BY <1>12
  <2>2. PICK u \in 0 .. c.window[3 - 2] - 1 : OnTap(z, 3, u)
    BY <2>1
  <2>3. PICK v \in 0 .. c.window[4 - 2] - 1 : OnTap(z, 4, v)
    BY <2>1
  <2> DEFINE t == <<u, v>>
  <2>4. t \in T /\ t[1] = u /\ t[2] = v
    BY <1>9
  <2> HIDE DEF t
  <2>5. z[3] \in 0 .. X[3] - 1 /\ z[4] \in 0 .. X[4] - 1 /\ z = <<x[1], x[2], z[3], z[4]>>
    BY <1>11, <2>1
  <2>6. z[3] \in Int /\ z[4] \in Int
    BY <2>5
  <2>7. z[3] = Ih(t) /\ z[4] = Iw(t)
    BY <1>8, <2>2, <2>3, <2>4, <2>6
  <2>8. t \in Taps
    BY <1>13, <2>4, <2>5, <2>7
  <2>9. Flat(X, z) = Index(X, <<x[1], x[2], Ih(t), Iw(t)>>)
    BY <1>10, <2>5, <2>7
  <2> QED
    BY <2>8, <2>9
<1>16. {<<Index(X, <<x[1], x[2], Ih(t), Iw(t)>>)>> : t \in Taps} = {<<Flat(X, z)>> : z \in Matching}
  BY <1>14, <1>15
<1> QED
  BY <1>6, <1>7, <1>16 DEF f

\* The channels of an image that a filter reads.
LEMMA ChannelsOfGroup ==
  ASSUME NEW c, IsCall(c), c.kernel = "Conv", NEW oc \in 0 .. c.out[2] - 1
  PROVE  LET first == FirstChannel(c, oc)
             n == c.ins[2][2]
         IN  \A e \in 0 .. c.ins[1][2] - 1, t \in 0 .. n - 1 :
               /\ first + t \in 0 .. c.ins[1][2] - 1
               /\ e % n = t /\ e \div n = oc \div (c.out[2] \div c.group) <=> e = first + t
<1> DEFINE n == c.ins[2][2]
           G == c.group
           O == c.out[2]
           q == O \div G
           g == oc \div q
<1>1. Shape(c.ins[1]) /\ Shape(c.ins[2]) /\ Shape(c.out) /\ IsConv(c)
  <2>1. (Len(c.ins) = 2 \/ Len(c.ins) = 3) /\ IsConv(c)
    BY DEF IsCall, Broadcasting
  <2>2. 2 \in 1 .. Len(c.ins)
    <3>1. CASE Len(c.ins) = 2
      BY <3>1
    <3>2. CASE Len(c.ins) = 3
      BY <3>2
    <3> QED
      BY <2>1, <3>1, <3>2
  <2> QED
    BY <2>1, <2>2, CallFacts
<1>2. /\ n \in Nat /\ n > 0 /\ O \in Nat /\ O > 0 /\ G \in Nat /\ G > 0
      /\ c.ins[1][2] = G * n /\ c.ins[2][1] = O /\ O % G = 0
  <2>1. /\ Len(c.ins[2]) = 4 /\ Len(c.out) = 4 /\ c.group \in Positive
        /\ c.ins[1][2] = G * n /\ c.ins[2][1] = O /\ c.ins[2][1] % G = 0
    BY <1>1 DEF IsConv
  <2>2. n \in Nat /\ n > 0 /\ O \in Nat /\ O > 0
    BY <1>1, <2>1, FourCoords
  <2> QED
    BY <2>1, <2>2 DEF Positive
<1>3. FirstChannel(c, oc) = g * n
  BY <1>2 DEF FirstChannel
<1>4. oc \in 0 .. O - 1
  OBVIOUS
<1> HIDE DEF n, G, O
<1>5. q \in Int /\ O = q * G
  <2>1. q \in Int /\ O = (O \div G) * G + (O % G)
    BY <1>2, DivMod
  <2> HIDE DEF q
  <2>2. q * G \in Int
    BY <1>2, <2>1
  <2>3. O = q * G + 0
    BY <1>2, <2>1 DEF q
  <2> QED
    BY <2>1, <2>2, <2>3
<1> HIDE DEF q
<1>6. q \in Nat
  <2>1. CASE q < 0
    <3>1. q <= 0 /\ q * G <= 0 * G /\ 0 * G = 0
      BY <1>2, <1>5, <2>1, TimesMonotone
    <3> QED
      BY <1>2, <1>5, <3>1
  <2> QED
    BY <1>5, <2>1
<1>7. O = G * q
  BY <1>2, <1>5, <1>6
<1>8. g \in 0 .. G - 1
  <2>1. oc \in 0 .. G * q - 1
    BY <1>4, <1>7
  <2> QED
    BY <1>2, <1>6, <2>1, PairNumbers
<1> HIDE DEF g
<1>9. /\ \A t \in 0 .. n - 1 : g * n + t \in 0 .. G * n - 1
      /\ \A e \in 0 .. G * n - 1 : e = (e \div n) * n + (e % n)
  BY <1>2, <1>8, PairNumbers
<1>10. ASSUME NEW e \in 0 .. G * n - 1, NEW t \in 0 .. n - 1
       PROVE  e % n = t /\ e \div n = g <=> e = g * n + t
  <2>1. (g * n + t) \div n = g /\ (g * n + t) % n = t
    BY <1>2, <1>8, DivUnique
  <2> QED
    BY <1>9, <2>1
<1> QED
  BY <1>2, <1>3, <1>9, <1>10 DEF n, q, g, O, G

\* A convolution correlates each filter with the channels of its group.
LEMMA ConvMeans ==
  ASSUME NEW c, IsCall(c), c.kernel = "Conv", NEW x \in Coords(c.out)
  PROVE  Terms(c, Flat(c.out, x)) = Meaning(c, x)
<1> DEFINE X == c.ins[1]
           W == c.ins[2]
           f == Flat(c.out, x)
           first == FirstChannel(c, x[2])
           g == x[2] \div (c.out[2] \div c.group)
           T == (0 .. W[2] - 1) \X (0 .. W[3] - 1) \X (0 .. W[4] - 1)
           Ih(t) == Covered(x[3], c.strides[1], t[2], c.dilations[1], c.pads[1])
           Iw(t) == Covered(x[4], c.strides[2], t[3], c.dilations[2], c.pads[2])
           Taps == {t \in T : Ih(t) \in 0 .. X[3] - 1 /\ Iw(t) \in 0 .. X[4] - 1}
           bias == IF Len(c.ins) > 2 THEN {<<x[2]>>} ELSE {}
           OnTap(y, z, d) == Under(y[d], x[d], z[d], c.strides[d - 2], c.dilations[d - 2], c.pads[d - 2])
           Matching == {p \in Coords(X) \X Coords(W) :
                          /\ p[1][1] = x[1] /\ p[2][1] = x[2]
                          /\ p[1][2] % W[2] = p[2][2] /\ p[1][2] \div W[2] = g
                          /\ \A d \in {3, 4} : OnTap(p[1], p[2], d)}
<1>1. Shape(X) /\ Shape(W) /\ Shape(c.out) /\ IsConv(c)
  <2>1. (Len(c.ins) = 2 \/ Len(c.ins) = 3) /\ IsConv(c)
    BY DEF IsCall, Broadcasting
  <2>2. 2 \in 1 .. Len(c.ins)
    <3>1. CASE Len(c.ins) = 2
      BY <3>1
    <3>2. CASE Len(c.ins) = 3
      BY <3>2
    <3> QED
      BY <2>1, <3>1, <3>2
  <2> QED
    BY <2>1, <2>2, CallFacts
<1>2. /\ Len(X) = 4 /\ Len(W) = 4 /\ Len(c.out) = 4 /\ c.out[1] = X[1] /\ W[1] = c.out[2]
      /\ \A d \in {1, 2} : c.strides[d] \in Int /\ c.dilations[d] \in Int /\ c.pads[d] \in Int
  <2>1. {1, 2} = 1 .. 2
    OBVIOUS
  <2> QED
    BY <1>1, <2>1 DEF IsConv, Positive
<1>3. /\ \A d \in 1 .. 4 : x[d] \in 0 .. c.out[d] - 1
      /\ \A d \in 1 .. 4 : c.out[d] \in Nat
      /\ \A d \in 1 .. 4 : W[d] \in Nat
  BY <1>1, <1>2, FourCoords
<1>4. /\ x[1] \in 0 .. X[1] - 1 /\ x[2] \in 0 .. c.out[2] - 1 /\ x[2] \in 0 .. W[1] - 1
      /\ x[3] \in Int /\ x[4] \in Int
      /\ W[2] \in Nat /\ W[3] \in Nat /\ W[4] \in Nat
  <2>1. /\ x[1] \in 0 .. c.out[1] - 1 /\ x[2] \in 0 .. c.out[2] - 1
        /\ x[3] \in 0 .. c.out[3] - 1 /\ x[4] \in 0 .. c.out[4] - 1
        /\ W[2] \in Nat /\ W[3] \in Nat /\ W[4] \in Nat
    BY <1>3
  <2> QED
    BY <1>2, <1>3, <2>1
<1>5. At(c.out, f) = x
  BY <1>1, CoordsFunction, AtFlat
<1> DEFINE PlaceIn(b, i, j) == <<x[1], b, i, j>>
           PlaceOut(b, i, j) == <<x[2], b, i, j>>
           Tap(b, i, j) == <<b, i, j>>
           Read(t) == <<Index(X, PlaceIn(first + t[1], Ih(t), Iw(t))),
                        Index(W, PlaceOut(t[1], t[2], t[3]))>>
           Meant(p) == <<Flat(X, p[1]), Flat(W, p[2])>>
<1>6. Terms(c, f) = {Read(t) : t \in Taps} \cup bias
  BY <1>5 DEF Terms, Conv
<1>7. Meaning(c, x) = {Meant(p) : p \in Matching} \cup bias
  BY DEF Meaning, Broadcasting, Batched, Correlation, Bias
<1>8. \A e \in 0 .. X[2] - 1, t \in 0 .. W[2] - 1 :
        first + t \in 0 .. X[2] - 1 /\ (e % W[2] = t /\ e \div W[2] = g <=> e = first + t)
  BY <1>4, ChannelsOfGroup
<1>9. ASSUME NEW t \in T
      PROVE  /\ t[1] \in 0 .. W[2] - 1 /\ t[2] \in 0 .. W[3] - 1 /\ t[3] \in 0 .. W[4] - 1
             /\ Ih(t) \in Int /\ Iw(t) \in Int
             /\ \A y, z : y[3] \in Int /\ z[3] = t[2] => (OnTap(y, z, 3) <=> y[3] = Ih(t))
             /\ \A y, z : y[4] \in Int /\ z[4] = t[3] => (OnTap(y, z, 4) <=> y[4] = Iw(t))
  <2>1. t[1] \in 0 .. W[2] - 1 /\ t[2] \in 0 .. W[3] - 1 /\ t[3] \in 0 .. W[4] - 1
    OBVIOUS
  <2>2. /\ t[2] \in Int /\ x[3] \in Int /\ c.strides[1] \in Int /\ c.pads[1] \in Int
        /\ t[3] \in Int /\ x[4] \in Int /\ c.strides[2] \in Int /\ c.pads[2] \in Int
        /\ c.dilations[1] \in Int /\ c.dilations[2] \in Int
    BY <1>2, <1>4, <2>1
  <2>3. 3 - 2 = 1 /\ 4 - 2 = 2
    OBVIOUS
  <2>4. /\ Ih(t) \in Int
        /\ \A z \in Int : Under(z, x[3], t[2], c.strides[1], c.dilations[1], c.pads[1]) <=> z = Ih(t)
    <3>1. Found(x[3], c.strides[1], t[2], c.dilations[1], c.pads[1])
      BY <2>2, UnderIsCovered
    <3> QED
      BY <3>1 DEF Found
  <2>5. /\ Iw(t) \in Int
        /\ \A z \in Int : Under(z, x[4], t[3], c.strides[2], c.dilations[2], c.pads[2]) <=> z = Iw(t)
    <3>1. Found(x[4], c.strides[2], t[3], c.dilations[2], c.pads[2])
      BY <2>2, UnderIsCovered
    <3> QED
      BY <3>1 DEF Found
  <2>6. /\ \A y, z : OnTap(y, z, 3)
                 <=> Under(y[3], x[3], z[3], c.strides[1], c.dilations[1], c.pads[1])
        /\ \A y, z : OnTap(y, z, 4)
                 <=> Under(y[4], x[4], z[4], c.strides[2], c.dilations[2], c.pads[2])
    BY <2>3
  <2> HIDE DEF Ih, Iw, OnTap, T
  <2> QED
    BY <2>1, <2>4, <2>5, <2>6
<1>10. /\ \A b \in 0 .. X[2] - 1, i \in 0 .. X[3] - 1, j \in 0 .. X[4] - 1 :
            PlaceIn(b, i, j) \in Coords(X) /\ Index(X, PlaceIn(b, i, j)) = Flat(X, PlaceIn(b, i, j))
       /\ \A b \in 0 .. W[2] - 1, i \in 0 .. W[3] - 1, j \in 0 .. W[4] - 1 :
            PlaceOut(b, i, j) \in Coords(W) /\ Index(W, PlaceOut(b, i, j)) = Flat(W, PlaceOut(b, i, j))
       /\ \A b \in 0 .. W[2] - 1, i \in 0 .. W[3] - 1, j \in 0 .. W[4] - 1 :
            Tap(b, i, j) \in T /\ Tap(b, i, j)[1] = b /\ Tap(b, i, j)[2] = i /\ Tap(b, i, j)[3] = j
  <2>1. \A b \in 0 .. X[2] - 1, i \in 0 .. X[3] - 1, j \in 0 .. X[4] - 1 :
            PlaceIn(b, i, j) \in Coords(X) /\ Index(X, PlaceIn(b, i, j)) = Flat(X, PlaceIn(b, i, j))
    BY <1>1, <1>2, <1>4, FourCoords, IndexIsFlat
  <2>2. \A b \in 0 .. W[2] - 1, i \in 0 .. W[3] - 1, j \in 0 .. W[4] - 1 :
            PlaceOut(b, i, j) \in Coords(W) /\ Index(W, PlaceOut(b, i, j)) = Flat(W, PlaceOut(b, i, j))
    BY <1>1, <1>2, <1>4, FourCoords, IndexIsFlat
  <2>3. \A b \in 0 .. W[2] - 1, i \in 0 .. W[3] - 1, j \in 0 .. W[4] - 1 :
            Tap(b, i, j) \in T /\ Tap(b, i, j)[1] = b /\ Tap(b, i, j)[2] = i /\ Tap(b, i, j)[3] = j
    OBVIOUS
  <2> QED
    BY <2>1, <2>2, <2>3
<1>11. /\ \A y \in Coords(X) : (\A d \in 1 .. 4 : y[d] \in 0 .. X[d] - 1) /\ y = <<y[1], y[2], y[3], y[4]>>
       /\ \A z \in Coords(W) : (\A d \in 1 .. 4 : z[d] \in 0 .. W[d] - 1) /\ z = <<z[1], z[2], z[3], z[4]>>
       /\ \A y \in Coords(X) : y[1] = x[1] => y = PlaceIn(y[2], y[3], y[4])
       /\ \A z \in Coords(W) : z[1] = x[2] => z = PlaceOut(z[2], z[3], z[4])
  BY <1>1, <1>2, FourCoords
<1>12. \A y, z : <<y, z>> \in Matching <=>
         /\ y \in Coords(X) /\ z \in Coords(W) /\ y[1] = x[1] /\ z[1] = x[2]
         /\ y[2] % W[2] = z[2] /\ y[2] \div W[2] = g
         /\ OnTap(y, z, 3) /\ OnTap(y, z, 4)
  OBVIOUS
<1>13. \A t : t \in Taps <=> t \in T /\ Ih(t) \in 0 .. X[3] - 1 /\ Iw(t) \in 0 .. X[4] - 1
  OBVIOUS
<1>14. \A p \in Matching : \E y, z : p = <<y, z>> /\ p[1] = y /\ p[2] = z
  OBVIOUS
<1> HIDE DEF X, W, f, T, Ih, Iw, Taps, OnTap, Matching, first, g, bias, PlaceIn, PlaceOut, Tap
<1>15. ASSUME NEW t \in Taps
       PROVE  \E p \in Matching : Meant(p) = Read(t)
  <2>1. /\ t \in T /\ Ih(t) \in 0 .. X[3] - 1 /\ Iw(t) \in 0 .. X[4] - 1
        /\ t[1] \in 0 .. W[2] - 1 /\ t[2] \in 0 .. W[3] - 1 /\ t[3] \in 0 .. W[4] - 1
    BY <1>9, <1>13
  <2>2. first + t[1] \in 0 .. X[2] - 1
    <3>1. 0 \in 0 .. X[2] - 1
      <4>1. X[2] \in Nat /\ X[2] > 0
        BY <1>1, <1>2, FourCoords
      <4> QED
        BY <4>1
    <3> QED
      BY <1>8, <2>1, <3>1
  <2> DEFINE y == PlaceIn(first + t[1], Ih(t), Iw(t))
             z == PlaceOut(t[1], t[2], t[3])
  <2>3. y \in Coords(X) /\ Index(X, y) = Flat(X, y) /\ z \in Coords(W) /\ Index(W, z) = Flat(W, z)
    <3>1. y \in Coords(X) /\ Index(X, y) = Flat(X, y)
      BY <1>10, <2>1, <2>2
    <3>2. z \in Coords(W) /\ Index(W, z) = Flat(W, z)
      BY <1>10, <2>1
    <3> QED
      BY <3>1, <3>2
  <2>4. /\ y[1] = x[1] /\ y[2] = first + t[1] /\ y[3] = Ih(t) /\ y[4] = Iw(t)
        /\ z[1] = x[2] /\ z[2] = t[1] /\ z[3] = t[2] /\ z[4] = t[3]
    BY DEF PlaceIn, PlaceOut
  <2> HIDE DEF y, z
  <2>5. OnTap(y, z, 3) /\ OnTap(y, z, 4)
    BY <1>9, <2>1, <2>4
  <2>6. y[2] % W[2] = z[2] /\ y[2] \div W[2] = g
    BY <1>8, <2>1, <2>2, <2>4
  <2>7. <<y, z>> \in Matching /\ <<y, z>>[1] = y /\ <<y, z>>[2] = z
    BY <1>12, <2>3, <2>4, <2>5, <2>6
  <2>8. <<Flat(X, y), Flat(W, z)>> = <<Index(X, y), Index(W, z)>>
    BY <2>3
  <2> QED
    BY <2>7, <2>8 DEF y, z
<1>16. ASSUME NEW p \in Matching
       PROVE  \E t \in Taps : Meant(p) = Read(t)
  <2>1. PICK y, z : p = <<y, z>> /\ p[1] = y /\ p[2] = z
    BY <1>14
  <2>2. /\ y \in Coords(X) /\ z \in Coords(W) /\ y[1] = x[1] /\ z[1] = x[2]
        /\ y[2] % W[2] = z[2] /\ y[2] \div W[2] = g
        /\ OnTap(y, z, 3) /\ OnTap(y, z, 4)
    BY <1>12, <2>1
  <2>3. /\ y[2] \in 0 .. X[2] - 1 /\ y[3] \in 0 .. X[3] - 1 /\ y[4] \in 0 .. X[4] - 1
        /\ z[2] \in 0 .. W[2] - 1 /\ z[3] \in 0 .. W[3] - 1 /\ z[4] \in 0 .. W[4] - 1
        /\ y = PlaceIn(y[2], y[3], y[4]) /\ z = PlaceOut(z[2], z[3], z[4])
    BY <1>11, <2>2
  <2> DEFINE t == Tap(z[2], z[3], z[4])
  <2>4. t \in T /\ t[1] = z[2] /\ t[2] = z[3] /\ t[3] = z[4]
    BY <1>10, <2>3
  <2> HIDE DEF t
  <2>5. y[3] \in Int /\ y[4] \in Int
    BY <2>3
  <2>6. y[3] = Ih(t) /\ y[4] = Iw(t) /\ y[2] = first + t[1]
    BY <1>8, <1>9, <2>2, <2>3, <2>4, <2>5
  <2>7. t \in Taps
    BY <1>13, <2>3, <2>4, <2>6
  <2>8. y = PlaceIn(first + t[1], Ih(t), Iw(t)) /\ z = PlaceOut(t[1], t[2], t[3])
    BY <2>3, <2>4, <2>6
  <2>9. Index(X, y) = Flat(X, y) /\ Index(W, z) = Flat(W, z)
    BY <1>10, <2>3
  <2>10. <<Flat(X, y), Flat(W, z)>> = Read(t)
    BY <2>8, <2>9
  <2> QED
    BY <2>1, <2>7, <2>10
<1>17. /\ \A t \in Taps : \E p \in Matching : Meant(p) = Read(t)
       /\ \A p \in Matching : \E t \in Taps : Meant(p) = Read(t)
  BY <1>15, <1>16
<1> HIDE DEF Read, Meant
<1>19. {Read(t) : t \in Taps} = {Meant(p) : p \in Matching}
  BY <1>17
<1> QED
  BY <1>6, <1>7, <1>19 DEF f

-----------------------------------------------------------------------------
(* Gemm. *)

\* The flat index of a vector.
LEMMA FlatOfOne ==
  ASSUME NEW s, Shape(s), Len(s) = 1, NEW x, Within(x, s)
  PROVE  Flat(s, x) = x[1] /\ Numel(s) = s[1]
<1>1. PICK h : Horner(s, x, h)
  BY HornerExists
<1>2. h[0] = 0 /\ h[1] = h[0] * s[1] + x[1]
  BY <1>1 DEF Horner
<1>3. s[1] \in Nat /\ x[1] \in Nat
  <2>1. 1 \in 1 .. Len(s)
    OBVIOUS
  <2>2. s[1] \in Nat
    BY <2>1, ShapeFacts
  <2>3. x[1] \in 0 .. s[1] - 1
    BY <2>1 DEF Within
  <2> QED
    BY <2>2, <2>3
<1>4. h[1] = x[1]
  BY <1>2, <1>3
<1>5. Flat(s, x) = h[1]
  <2>1. 1 \in 0 .. Len(s)
    OBVIOUS
  <2>2. h[1] \in Nat /\ Flat(s, x) = h[1] * Weight(s)[1] + Rest(x, RowMajor(s), 1, 1)
    BY <1>1, <2>1, HornerSplits
  <2>3. Weight(s)[1] = 1 /\ Ints(RowMajor(s), 1) /\ Vector(x, 1)
    BY WeightsOfShape, WithinIsVector
  <2>4. Rest(x, RowMajor(s), 1, 1) = 0
    BY <2>3, RestFacts
  <2> QED
    BY <2>2, <2>3, <2>4
<1>6. Numel(s) = s[1]
  <2>1. s \in Seq(Nat)
    BY ShapeFacts
  <2> QED
    BY <2>1, NumelShort
<1> QED
  BY <1>4, <1>5, <1>6

\* The elements of a matrix.
LEMMA NumelOfTwo ==
  ASSUME NEW s, Shape(s), Len(s) = 2
  PROVE  Numel(s) = s[1] * s[2]
<1>1. s[1] \in Nat /\ s[2] \in Nat /\ s[1] > 0 /\ s[2] > 0
  <2>1. 1 \in 1 .. Len(s) /\ 2 \in 1 .. Len(s)
    OBVIOUS
  <2> QED
    BY <2>1, ShapeFacts
<1>2. /\ Weight(s)[2] = 1 /\ Weight(s)[0] = Numel(s)
      /\ Weight(s)[1 - 1] = s[1] * Weight(s)[1] /\ Weight(s)[2 - 1] = s[2] * Weight(s)[2]
  <2>1. 1 \in 1 .. Len(s) /\ 2 \in 1 .. Len(s)
    OBVIOUS
  <2> QED
    BY <2>1, WeightsOfShape
<1>3. 1 - 1 = 0 /\ 2 - 1 = 1 /\ s[2] * 1 = s[2]
  BY <1>1
<1> QED
  BY <1>2, <1>3

\* A bias is indexed as if it were stretched, unless it is a column.
LEMMA BiasMeans ==
  ASSUME NEW c, NEW C, Shape(C), NEW out, Shape(out), Len(out) = 2, Stretches(C, out),
         ~(C = <<out[1], 1>> /\ out[1] > 1 /\ out[2] > 1), NEW x \in Coords(out)
  PROVE  Flat(out, x) % Numel(C) = Stretched(C, x)
<1> DEFINE M == out[1]
           N == out[2]
           f == Flat(out, x)
           y == [d \in 1 .. Len(C) |-> IF C[d] = 1 THEN 0 ELSE x[d + Len(x) - Len(C)]]
<1>1. /\ M \in Nat /\ M > 0 /\ N \in Nat /\ N > 0
      /\ Len(C) \in Nat /\ DOMAIN C = 1 .. Len(C)
      /\ \A d \in 1 .. Len(C) : C[d] \in Nat /\ C[d] > 0
  <2>1. 1 \in 1 .. Len(out) /\ 2 \in 1 .. Len(out)
    OBVIOUS
  <2>2. M \in Nat /\ M > 0 /\ N \in Nat /\ N > 0
    BY <2>1, ShapeFacts
  <2>3. /\ Len(C) \in Nat /\ DOMAIN C = 1 .. Len(C)
        /\ \A d \in 1 .. Len(C) : C[d] \in Nat /\ C[d] > 0
    BY ShapeFacts
  <2> QED
    BY <2>2, <2>3
<1>2. /\ Len(x) = 2 /\ x[1] \in 0 .. M - 1 /\ x[2] \in 0 .. N - 1
      /\ f = x[1] * N + x[2] /\ f \in 0 .. M * N - 1
  <2>1. Within(x, out) /\ Len(x) = Len(out)
    BY CoordsFunction
  <2>2. f = x[1] * N + x[2]
    BY <2>1, FlatOfTwo
  <2>3. x[1] \in 0 .. M - 1 /\ x[2] \in 0 .. N - 1
    <3>1. 1 \in 1 .. Len(out) /\ 2 \in 1 .. Len(out)
      OBVIOUS
    <3> QED
      BY <2>1, <3>1 DEF Within
  <2>4. f \in 0 .. M * N - 1
    <3> DEFINE a == x[1]
               b == x[2]
    <3>1. M \in Nat /\ N \in Nat /\ a \in 0 .. M - 1 /\ b \in 0 .. N - 1 /\ f = a * N + b
      BY <1>1, <2>2, <2>3
    <3> HIDE DEF a, b, f, M, N
    <3>2. a * N + b \in 0 .. M * N - 1
      BY <3>1, PairNumbers
    <3> QED
      BY <3>1, <3>2
  <2> QED
    BY <2>1, <2>2, <2>3, <2>4
<1>3. /\ Len(C) <= 2
      /\ \A d \in 1 .. Len(C) : C[d] = 1 \/ C[d] = out[d + 2 - Len(C)]
  BY <1>1 DEF Stretches
<1>4. Stretched(C, x) = Flat(C, y)
  BY <1>1 DEF Stretched
<1>5. Within(y, C)
  <2>1. ASSUME NEW d \in 1 .. Len(C) PROVE y[d] \in 0 .. C[d] - 1
    <3>1. CASE C[d] = 1
      BY <3>1
    <3>2. CASE C[d] # 1
      <4>1. C[d] = out[d + 2 - Len(C)] /\ y[d] = x[d + 2 - Len(C)]
        BY <1>2, <1>3, <3>2
      <4>2. d + 2 - Len(C) = 1 \/ d + 2 - Len(C) = 2
        BY <1>1, <1>3
      <4> QED
        BY <1>2, <4>1, <4>2
    <3> QED
      BY <3>1, <3>2
  <2> QED
    BY <2>1 DEF Within
<1>6. Flat(C, y) \in 0 .. Numel(C) - 1
  BY <1>5, FlatInRange
<1>7. CASE Numel(C) = 1
  BY <1>2, <1>4, <1>6, <1>7
<1>8. CASE Len(C) = 0
  <2>1. C = << >>
    BY <1>1, <1>8
  <2> QED
    BY <1>7, <2>1, NumelShort
<1>9. CASE Len(C) = 1 /\ Numel(C) # 1
  <2>1. 1 \in 1 .. Len(C) /\ 1 + 2 - 1 = 2
    BY <1>9
  <2>2. Flat(C, y) = y[1] /\ Numel(C) = C[1]
    BY <1>5, <1>9, FlatOfOne
  <2>3. C[1] = N /\ y[1] = x[2]
    BY <1>2, <1>3, <1>9, <2>1, <2>2
  <2>4. f % N = x[2]
    BY <1>1, <1>2, DivUnique
  <2> QED
    BY <1>4, <2>2, <2>3, <2>4
<1>10. CASE Len(C) = 2 /\ Numel(C) # 1
  <2>1. 1 \in 1 .. Len(C) /\ 2 \in 1 .. Len(C) /\ 1 + 2 - 2 = 1 /\ 2 + 2 - 2 = 2
    BY <1>10
  <2>2. /\ C[1] \in Nat /\ C[1] > 0 /\ C[2] \in Nat /\ C[2] > 0
        /\ C[1] \in {1, M} /\ C[2] \in {1, N}
    BY <1>1, <1>3, <1>10, <2>1
  <2>3. /\ y[1] = IF C[1] = 1 THEN 0 ELSE x[1]
        /\ y[2] = IF C[2] = 1 THEN 0 ELSE x[2]
    BY <1>2, <1>10, <2>1
  <2>4. Flat(C, y) = y[1] * C[2] + y[2]
    BY <1>5, <1>10, FlatOfTwo
  <2>5. Numel(C) = C[1] * C[2]
    BY <1>10, NumelOfTwo
  <2> HIDE DEF y, f
  <2>6. CASE C[1] = 1
    <3>1. Numel(C) = C[2] /\ C[2] = N
      BY <1>10, <2>2, <2>5, <2>6
    <3>2. Flat(C, y) = x[2]
      BY <1>1, <1>2, <1>10, <2>3, <2>4, <2>6, <3>1
    <3>3. f % N = x[2]
      BY <1>1, <1>2, DivUnique
    <3> QED
      BY <1>4, <3>1, <3>2, <3>3 DEF f
  <2>7. CASE C[1] # 1 /\ C[2] = N
    <3>0. C[1] = M /\ y[1] = x[1]
      BY <2>2, <2>3, <2>7
    <3>1. Numel(C) = M * N /\ y[1] = x[1]
      BY <2>5, <2>7, <3>0
    <3>2. y[2] = x[2]
      BY <1>2, <2>3, <2>7
    <3>3. Flat(C, y) = f
      BY <1>2, <2>4, <2>7, <3>1, <3>2
    <3>4. M * N \in Nat
      BY <1>1, TimesNat
    <3>5. f % (M * N) = f
      BY <1>2, <3>4
    <3> QED
      BY <1>4, <3>1, <3>3, <3>5 DEF f
  <2>8. CASE C[1] # 1 /\ C[2] # N
    <3>1. C[1] = M /\ C[2] = 1 /\ M > 1 /\ N > 1
      BY <1>1, <2>2, <2>8
    <3>2. C = <<C[1], C[2]>>
      <4>1. C \in Seq(Nat)
        BY ShapeFacts
      <4> QED
        BY <1>10, <4>1
    <3> QED
      BY <3>1, <3>2
  <2> QED
    BY <2>6, <2>7, <2>8
<1> QED
  BY <1>1, <1>3, <1>7, <1>8, <1>9, <1>10

\* A general product, transposed or not.
LEMMA GemmMeans ==
  ASSUME NEW c, IsCall(c), c.kernel = "Gemm", ~ColumnBias(c), NEW x \in Coords(c.out)
  PROVE  Terms(c, Flat(c.out, x)) = Meaning(c, x)
<1> DEFINE A == c.ins[1]
           B == c.ins[2]
           f == Flat(c.out, x)
           M == IF c.transA THEN A[2] ELSE A[1]
           K == IF c.transA THEN A[1] ELSE A[2]
           N == IF c.transB THEN B[1] ELSE B[2]
           m == f \div N
           n == f % N
           Read(k) == <<IF c.transA THEN k * M + m ELSE m * K + k,
                        IF c.transB THEN n * K + k ELSE k * N + n>>
           Meant(k) == <<Flat(A, IF c.transA THEN <<k, x[1]>> ELSE <<x[1], k>>),
                         Flat(B, IF c.transB THEN <<x[2], k>> ELSE <<k, x[2]>>)>>
           bias == IF Len(c.ins) > 2 THEN {<<f % Numel(c.ins[3])>>} ELSE {}
           stretched == IF Len(c.ins) > 2 THEN {<<Stretched(c.ins[3], x)>>} ELSE {}
<1>1. /\ Shape(A) /\ Shape(B) /\ Shape(c.out) /\ IsGemm(c)
      /\ Len(c.ins) > 2 => Shape(c.ins[3])
  <2>1. (Len(c.ins) = 2 \/ Len(c.ins) = 3) /\ IsGemm(c)
    BY DEF IsCall, Broadcasting
  <2>2. 2 \in 1 .. Len(c.ins)
    <3>1. CASE Len(c.ins) = 2
      BY <3>1
    <3>2. CASE Len(c.ins) = 3
      BY <3>2
    <3> QED
      BY <2>1, <3>1, <3>2
  <2>3. ASSUME Len(c.ins) > 2 PROVE Shape(c.ins[3])
    <3>1. Len(c.ins) = 3
      <4>1. CASE Len(c.ins) = 2
        BY <2>3, <4>1
      <4> QED
        BY <2>1, <4>1
    <3>2. 3 \in 1 .. Len(c.ins)
      BY <3>1
    <3> QED
      BY <3>2, CallFacts
  <2> QED
    BY <2>1, <2>2, <2>3, CallFacts
<1>2. /\ c.transA \in BOOLEAN /\ c.transB \in BOOLEAN
      /\ Len(A) = 2 /\ Len(B) = 2 /\ Len(c.out) = 2
      /\ c.out[1] = M /\ c.out[2] = N /\ K = B[IF c.transB THEN 2 ELSE 1]
      /\ Len(c.ins) > 2 => Stretches(c.ins[3], c.out)
  BY <1>1 DEF IsGemm
<1>3. /\ \A d \in {1, 2} : A[d] \in Nat /\ B[d] \in Nat /\ c.out[d] \in Nat
      /\ x[1] \in 0 .. M - 1 /\ x[2] \in 0 .. N - 1
      /\ f = x[1] * N + x[2]
  <2>1. \A d \in {1, 2} : d \in 1 .. 2
    OBVIOUS
  <2>2. \A d \in {1, 2} : A[d] \in Nat /\ B[d] \in Nat /\ c.out[d] \in Nat
    BY <1>1, <1>2, <2>1, ShapeFacts
  <2>3. Within(x, c.out)
    BY <1>1, CoordsFunction
  <2>4. x[1] \in 0 .. c.out[1] - 1 /\ x[2] \in 0 .. c.out[2] - 1
    BY <1>2, <2>1, <2>3 DEF Within
  <2>5. f = x[1] * c.out[2] + x[2]
    BY <1>1, <1>2, <2>3, FlatOfTwo
  <2> QED
    BY <1>2, <2>2, <2>4, <2>5
<1>4. m = x[1] /\ n = x[2]
  <2> DEFINE a == x[1]
             b == x[2]
  <2>1. a \in Int /\ b \in Int /\ N \in Int /\ 0 <= b /\ b < N /\ f = a * N + b
    BY <1>2, <1>3
  <2> HIDE DEF a, b, N, f
  <2>2. (a * N + b) \div N = a /\ (a * N + b) % N = b
    BY <2>1, DivUnique
  <2>3. f \div N = a /\ f % N = b
    BY <2>1, <2>2
  <2> QED
    BY <2>3 DEF a, b
<1>5. bias = stretched
  <2>1. CASE Len(c.ins) > 2
    <3> DEFINE C == c.ins[3]
    <3>1. Shape(C) /\ Stretches(C, c.out)
      BY <1>1, <1>2, <2>1
    <3>2. ~(C = <<c.out[1], 1>> /\ c.out[1] > 1 /\ c.out[2] > 1)
      BY <2>1 DEF ColumnBias
    <3> HIDE DEF C
    <3>3. f % Numel(C) = Stretched(C, x)
      BY <1>1, <1>2, <3>1, <3>2, BiasMeans
    <3> HIDE DEF f
    <3> QED
      BY <3>3 DEF C
  <2>2. CASE ~(Len(c.ins) > 2)
    BY <2>2
  <2> QED
    BY <2>1, <2>2
<1>6. Terms(c, f) = {Read(k) : k \in 0 .. K - 1} \cup bias
  <2>1. Terms(c, f) = Gemm(c, f)
    BY DEF Terms
  <2> HIDE DEF f
  <2>2. Gemm(c, f) = {Read(k) : k \in 0 .. K - 1} \cup bias
    BY DEF Gemm
  <2> QED
    BY <2>1, <2>2
<1>7. Meaning(c, x) = {Meant(k) : k \in 0 .. K - 1} \cup stretched
  <2>1. K = A[IF c.transA THEN 1 ELSE 2]
    OBVIOUS
  <2>2. GeneralProduct(c, x) = {Meant(k) : k \in 0 .. K - 1}
    BY <2>1 DEF GeneralProduct
  <2>3. Meaning(c, x) = GeneralProduct(c, x) \cup stretched
    BY DEF Meaning, Broadcasting, Batched
  <2> QED
    BY <2>2, <2>3
<1>8. ASSUME NEW s, Shape(s), Len(s) = 2, NEW i \in 0 .. s[1] - 1, NEW j \in 0 .. s[2] - 1
      PROVE  Flat(s, <<i, j>>) = i * s[2] + j
  <2> DEFINE z == <<i, j>>
  <2>1. DOMAIN z = 1 .. 2 /\ z[1] = i /\ z[2] = j
    OBVIOUS
  <2> HIDE DEF z
  <2>2. Within(z, s)
    <3> SUFFICES ASSUME NEW d \in 1 .. 2 PROVE z[d] \in 0 .. s[d] - 1
      BY <1>8, <2>1 DEF Within
    <3>1. d = 1 \/ d = 2
      OBVIOUS
    <3> QED
      BY <1>8, <2>1, <3>1
  <2>3. Flat(s, z) = z[1] * s[2] + z[2]
    BY <1>8, <2>2, FlatOfTwo
  <2> QED
    BY <2>1, <2>3 DEF z
<1>9. ASSUME NEW k \in 0 .. K - 1 PROVE Read(k) = Meant(k)
  <2>1. Flat(A, IF c.transA THEN <<k, x[1]>> ELSE <<x[1], k>>)
          = IF c.transA THEN k * M + x[1] ELSE x[1] * K + k
    <3>1. CASE c.transA
      <4>1. k \in 0 .. A[1] - 1 /\ x[1] \in 0 .. A[2] - 1 /\ M = A[2]
        BY <1>3, <3>1
      <4>2. Flat(A, <<k, x[1]>>) = k * A[2] + x[1]
        BY <1>1, <1>2, <1>8, <4>1
      <4> QED
        BY <3>1, <4>1, <4>2
    <3>2. CASE ~c.transA
      <4>1. k \in 0 .. A[2] - 1 /\ x[1] \in 0 .. A[1] - 1 /\ K = A[2]
        BY <1>3, <3>2
      <4>2. Flat(A, <<x[1], k>>) = x[1] * A[2] + k
        BY <1>1, <1>2, <1>8, <4>1
      <4> QED
        BY <3>2, <4>1, <4>2
    <3> QED
      BY <3>1, <3>2
  <2>2. Flat(B, IF c.transB THEN <<x[2], k>> ELSE <<k, x[2]>>)
          = IF c.transB THEN x[2] * K + k ELSE k * N + x[2]
    <3>1. CASE c.transB
      <4>1. k \in 0 .. B[2] - 1 /\ x[2] \in 0 .. B[1] - 1 /\ K = B[2]
        BY <1>2, <1>3, <3>1
      <4>2. Flat(B, <<x[2], k>>) = x[2] * B[2] + k
        BY <1>1, <1>2, <1>8, <4>1
      <4> QED
        BY <3>1, <4>1, <4>2
    <3>2. CASE ~c.transB
      <4>1. k \in 0 .. B[1] - 1 /\ x[2] \in 0 .. B[2] - 1 /\ N = B[2]
        BY <1>2, <1>3, <3>2
      <4>2. Flat(B, <<k, x[2]>>) = k * B[2] + x[2]
        BY <1>1, <1>2, <1>8, <4>1
      <4> QED
        BY <3>2, <4>1, <4>2
    <3> QED
      BY <3>1, <3>2
  <2>3. Read(k) = <<IF c.transA THEN k * M + x[1] ELSE x[1] * K + k,
                    IF c.transB THEN x[2] * K + k ELSE k * N + x[2]>>
    <3> HIDE DEF m, n, M, K, N
    <3> QED
      BY <1>4
  <2> HIDE DEF M, K, N, A, B
  <2> QED
    BY <2>1, <2>2, <2>3
<1> HIDE DEF Read, Meant, K, bias, stretched
<1>10. {Read(k) : k \in 0 .. K - 1} = {Meant(k) : k \in 0 .. K - 1}
  BY <1>9
<1> QED
  BY <1>5, <1>6, <1>7, <1>10 DEF f

\* The kernels that compute their indices from loop counters.
LEMMA TermsMean ==
  ASSUME NEW c, IsCall(c), c.kernel \notin Walking, ~ColumnBias(c), NEW x \in Coords(c.out)
  PROVE  Terms(c, Flat(c.out, x)) = Meaning(c, x)
<1>1. \/ c.kernel = "Gemm" \/ c.kernel = "Conv" \/ c.kernel \in {"MaxPool", "AveragePool"}
      \/ c.kernel = "GlobalAveragePool" \/ c.kernel = "Softmax" \/ c.kernel = "Concat"
  BY DEF IsCall, Walking, Broadcasting, Batched, Recomputing
<1> QED
  BY <1>1, GemmMeans, ConvMeans, PoolMeans, GlobalMeans, SoftmaxMeans, ConcatMeans

\* The turn of a kernel, not a reduction, that writes element f.
TurnOf(c, f) ==
  IF c.kernel \in Batched THEN f \div (c.out[Len(c.out) - 1] * Last(c.out)) ELSE f

\* The coordinates of that turn.
Turning(c, x) == IF c.kernel \in Batched THEN Prefixed(x, Len(c.out)) ELSE x

\* The turn that computes an element is one of the turns.
LEMMA TurnFound ==
  ASSUME NEW c, IsCall(c), c.kernel \in Walking, c.kernel # "ReduceMean", NEW x \in Coords(c.out)
  PROVE  /\ Shape(Walked(c)) /\ Turning(c, x) \in Coords(Walked(c))
         /\ TurnOf(c, Flat(c.out, x)) = Flat(Walked(c), Turning(c, x))
         /\ TurnOf(c, Flat(c.out, x)) \in 0 .. Numel(Walked(c)) - 1 /\ Numel(Walked(c)) \in Nat
         /\ c.kernel \notin Batched => Walked(c) = c.out
<1> DEFINE y == Turning(c, x)
           f == Flat(c.out, x)
<1>1. /\ Shape(Walked(c)) /\ y \in Coords(Walked(c)) /\ TurnOf(c, f) = Flat(Walked(c), y)
      /\ c.kernel \notin Batched => Walked(c) = c.out
  <2>1. CASE c.kernel \in Batched
    <3>1. Shape(Walked(c))
      BY <2>1, TwoOperands
    <3>2. /\ Prefixed(x, Len(c.out)) \in Coords(Walked(c))
          /\ f \div (c.out[Len(c.out) - 1] * Last(c.out)) = Flat(Walked(c), Prefixed(x, Len(c.out)))
      BY <2>1, BatchedMeans
    <3> HIDE DEF f
    <3> QED
      BY <2>1, <3>1, <3>2 DEF TurnOf, Turning
  <2>2. CASE c.kernel \notin Batched
    <3>1. Walked(c) = c.out
      BY <2>2 DEF Walked
    <3> QED
      BY <2>2, <3>1, CallFacts DEF TurnOf, Turning
  <2> QED
    BY <2>1, <2>2
<1> HIDE DEF y, f
<1>2. Flat(Walked(c), y) \in 0 .. Numel(Walked(c)) - 1 /\ Numel(Walked(c)) \in Nat
  BY <1>1, CoordsFunction, FlatInRange
<1> QED
  BY <1>1, <1>2 DEF y, f

\* What that turn writes is what the operator prescribes.
LEMMA TurnMeans ==
  ASSUME NEW c, IsCall(c), c.kernel \in Walking, c.kernel # "ReduceMean", CallsAssumption,
         ~Mismatch(c), ~WrapsAround(c), NEW x \in Coords(c.out),
         off = Offset(c, Turning(c, x))
  PROVE  (IF c.kernel \in Batched THEN Product(c, Flat(c.out, x)) ELSE {off}) = Meaning(c, x)
<1>1. CASE c.kernel \in Batched
  <2>1. off = Offset(c, Prefixed(x, Len(c.out)))
    BY <1>1 DEF Turning
  <2> QED
    BY <1>1, <2>1, BatchedMeans
<1>2. CASE c.kernel \notin Batched
  <2>1. off = Offset(c, x)
    BY <1>2 DEF Turning
  <2>2. c.kernel \in Broadcasting \/ c.kernel = "Transpose" \/ c.kernel = "Slice"
    BY <1>2 DEF Walking, Recomputing
  <2>3. {Offset(c, x)} = Meaning(c, x)
    BY <2>2, BroadcastMeans, TransposeMeans, SliceMeans
  <2> QED
    BY <1>2, <2>1, <2>3
<1> QED
  BY <1>1, <1>2

-----------------------------------------------------------------------------
(* The result of a walking kernel, turn by turn. *)

\* The terms of a mean after n turns.
Summed(c, x, n) ==
  {<<Flat(c.ins[1], z)>> : z \in {y \in Coords(c.ins[1]) : Agrees(c, x, y) /\ Flat(c.ins[1], y) < n}}

\* A turn adds its own element to the sum.
LEMMA SummedGrows ==
  ASSUME NEW c, Shape(c.ins[1]), NEW x, NEW z \in Coords(c.ins[1])
  PROVE  Summed(c, x, Flat(c.ins[1], z) + 1)
           = Summed(c, x, Flat(c.ins[1], z))
               \cup (IF Agrees(c, x, z) THEN {<<Flat(c.ins[1], z)>>} ELSE {})
<1> DEFINE in == c.ins[1]
           n == Flat(in, z)
           Until(m) == {y \in Coords(in) : Agrees(c, x, y) /\ Flat(in, y) < m}
<1>1. \A y \in Coords(in) : Flat(in, y) \in Int
  <2> SUFFICES ASSUME NEW y \in Coords(in) PROVE Flat(in, y) \in Int
    OBVIOUS
  <2>1. Flat(in, y) \in 0 .. Numel(in) - 1 /\ Numel(in) \in Nat
    BY CoordsFunction, FlatInRange
  <2> QED
    BY <2>1
<1>2. \A y \in Coords(in) : Flat(in, y) = n => y = z
  BY FlatInjective
<1>3. n \in Int
  BY <1>1
<1> HIDE DEF n, in
<1>4. \A y \in Coords(in) : Flat(in, y) < n + 1 <=> Flat(in, y) < n \/ Flat(in, y) = n
  BY <1>1, <1>3
<1>5. z \in Coords(in) /\ Flat(in, z) = n
  BY DEF in, n
<1>6. Until(n + 1) = Until(n) \cup (IF Agrees(c, x, z) THEN {z} ELSE {})
  BY <1>2, <1>4, <1>5
<1>7. /\ Summed(c, x, n + 1) = {<<Flat(in, y)>> : y \in Until(n + 1)}
      /\ Summed(c, x, n) = {<<Flat(in, y)>> : y \in Until(n)}
  BY DEF Summed, in
<1> HIDE DEF Until
<1>8. Summed(c, x, n + 1) = Summed(c, x, n) \cup (IF Agrees(c, x, z) THEN {<<n>>} ELSE {})
  BY <1>5, <1>6, <1>7
<1> QED
  BY <1>8 DEF n, in

\* At the first turn it is empty, and after the last it is the mean.
LEMMA SummedEnds ==
  ASSUME NEW c, Shape(c.ins[1]), c.kernel = "ReduceMean", NEW x
  PROVE  Summed(c, x, 0) = {} /\ Summed(c, x, Numel(c.ins[1])) = Meaning(c, x)
<1> DEFINE in == c.ins[1]
<1>1. \A y \in Coords(in) : Flat(in, y) < Numel(in) /\ ~(Flat(in, y) < 0)
  <2> SUFFICES ASSUME NEW y \in Coords(in) PROVE Flat(in, y) < Numel(in) /\ ~(Flat(in, y) < 0)
    OBVIOUS
  <2>1. Flat(in, y) \in 0 .. Numel(in) - 1 /\ Numel(in) \in Nat
    BY CoordsFunction, FlatInRange
  <2> QED
    BY <2>1
<1>2. Meaning(c, x) = {<<Flat(in, z)>> : z \in {y \in Coords(in) : Agrees(c, x, y)}}
  BY ReduceMeans
<1>3. {y \in Coords(in) : Agrees(c, x, y) /\ Flat(in, y) < Numel(in)} = {y \in Coords(in) : Agrees(c, x, y)}
  BY <1>1
<1>4. {y \in Coords(in) : Agrees(c, x, y) /\ Flat(in, y) < 0} = {}
  BY <1>1
<1> QED
  BY <1>2, <1>3, <1>4 DEF Summed

-----------------------------------------------------------------------------
(* What has been written, turn by turn. *)

\* What a kernel has written after each turn, and when it is done.
DataInv ==
  /\ DOMAIN dst = 0 .. Numel(call.out) - 1
  /\ Walk /\ call.kernel = "ReduceMean" =>
       \A x \in Coords(call.out) : dst[Flat(call.out, x)] = Summed(call, x, flat)
  /\ Walk /\ call.kernel # "ReduceMean" /\ ~WrapsAround(call) =>
       \A x \in Coords(call.out) :
         TurnOf(call, Flat(call.out, x)) < flat => dst[Flat(call.out, x)] = Meaning(call, x)
  /\ pc = "done" /\ ~ColumnBias(call) /\ ~WrapsAround(call) =>
       \A x \in Coords(call.out) : dst[Flat(call.out, x)] = Meaning(call, x)
  /\ pc = "refused" => Mismatch(call)

\* Coordinates number the elements of a result.
LEMMA Elements ==
  ASSUME NEW c, IsCall(c), NEW x \in Coords(c.out)
  PROVE  Flat(c.out, x) \in 0 .. Numel(c.out) - 1 /\ Numel(c.out) \in Nat
BY CallFacts, CoordsFunction, FlatInRange

\* It holds at the first turn.
LEMMA DataInit == Init => DataInv
<1> SUFFICES ASSUME Init PROVE DataInv
  OBVIOUS
<1>1. IsCall(call) /\ pc = "loop" /\ flat = 0
  BY ShapesAssumption DEF Init
<1>2. dst = [f \in 0 .. Numel(call.out) - 1 |-> IF call.kernel = "ReduceMean" THEN {} ELSE Garbage]
  BY DEF Init
<1>3. ASSUME Walk, call.kernel = "ReduceMean", NEW x \in Coords(call.out)
      PROVE  dst[Flat(call.out, x)] = Summed(call, x, flat)
  <2>1. Summed(call, x, 0) = {}
    BY <1>1, <1>3, CallFacts, SummedEnds
  <2>2. Flat(call.out, x) \in 0 .. Numel(call.out) - 1
    BY <1>1, Elements
  <2> QED
    BY <1>1, <1>2, <1>3, <2>1, <2>2
<1>4. ASSUME Walk, call.kernel # "ReduceMean", NEW x \in Coords(call.out)
      PROVE  ~(TurnOf(call, Flat(call.out, x)) < flat)
  <2>1. call.kernel \in Walking
    BY <1>4 DEF Walk
  <2>2. /\ TurnOf(call, Flat(call.out, x)) \in 0 .. Numel(Walked(call)) - 1
        /\ Numel(Walked(call)) \in Nat
    BY <1>1, <1>4, <2>1, TurnFound
  <2> QED
    BY <1>1, <2>2
<1> QED
  BY <1>1, <1>2, <1>3, <1>4 DEF DataInv

\* A turn of a reduction adds one term, to the element its offset names.
LEMMA ReducingTurn ==
  ASSUME OdometerInv, DataInv, Turn, call.kernel = "ReduceMean", NEW x \in Coords(call.out)
  PROVE  dst'[Flat(call.out, x)] = Summed(call, x, flat + 1)
<1> DEFINE f == Flat(call.out, x)
           in == call.ins[1]
<1>1. IsCall(call) /\ Walk /\ flat < Numel(Walked(call))
  BY ShapesAssumption DEF OdometerInv, Turn, Walk
<1>2. Walked(call) = in /\ Shape(in)
  BY <1>1, ReduceFacts
<1>3. coords \in Coords(in) /\ off = Offset(call, coords) /\ Flat(in, coords) = flat
  BY <1>1, <1>2 DEF OdometerInv
<1>4. Agrees(call, x, coords) <=> off[1] = f
  BY <1>1, <1>3, ReduceMatch
<1>5. Summed(call, x, flat + 1)
        = Summed(call, x, flat) \cup (IF Agrees(call, x, coords) THEN {<<flat>>} ELSE {})
  <2>1. Summed(call, x, Flat(in, coords) + 1)
          = Summed(call, x, Flat(in, coords))
              \cup (IF Agrees(call, x, coords) THEN {<<Flat(in, coords)>>} ELSE {})
    BY <1>2, <1>3, SummedGrows
  <2> QED
    BY <1>3, <2>1
<1>6. dst' = [dst EXCEPT ![off[1]] = @ \cup {<<flat>>}]
  BY DEF Turn, Written, Broadcasting, Batched, Recomputing
<1>7. f \in DOMAIN dst /\ dst[f] = Summed(call, x, flat)
  <2>1. f \in 0 .. Numel(call.out) - 1
    BY <1>1, Elements
  <2> QED
    BY <1>1, <2>1 DEF DataInv
<1> HIDE DEF f
<1>8. dst'[f] = IF off[1] = f THEN dst[f] \cup {<<flat>>} ELSE dst[f]
  BY <1>6, <1>7
<1>9. dst'[f] = Summed(call, x, flat + 1)
  BY <1>4, <1>5, <1>7, <1>8
<1> QED
  BY <1>9 DEF f

\* A turn of another kernel writes the elements it is the turn of, and no other.
LEMMA WritingTurn ==
  ASSUME OdometerInv, DataInv, Turn, call.kernel # "ReduceMean", ~WrapsAround(call),
         NEW x \in Coords(call.out), TurnOf(call, Flat(call.out, x)) < flat + 1
  PROVE  dst'[Flat(call.out, x)] = Meaning(call, x)
<1> DEFINE f == Flat(call.out, x)
           t == TurnOf(call, f)
           s == Walked(call)
<1>1. IsCall(call) /\ Walk /\ flat < Numel(s) /\ call.kernel \in Walking /\ ~Mismatch(call)
  BY ShapesAssumption DEF OdometerInv, Turn, Walk
<1>2. /\ Shape(s) /\ Turning(call, x) \in Coords(s) /\ t = Flat(s, Turning(call, x)) /\ t \in Int
      /\ call.kernel \notin Batched => s = call.out
  <2>1. /\ Shape(s) /\ Turning(call, x) \in Coords(s) /\ t = Flat(s, Turning(call, x))
        /\ t \in 0 .. Numel(s) - 1 /\ Numel(s) \in Nat
        /\ call.kernel \notin Batched => s = call.out
    BY <1>1, TurnFound
  <2> QED
    BY <2>1
<1>3. coords \in Coords(s) /\ off = Offset(call, coords) /\ Flat(s, coords) = flat /\ flat \in Int
  BY <1>1 DEF OdometerInv
<1>4. f \in DOMAIN dst /\ (t < flat => dst[f] = Meaning(call, x))
  <2>1. f \in 0 .. Numel(call.out) - 1
    BY <1>1, Elements
  <2> QED
    BY <1>1, <2>1 DEF DataInv
<1>5. ASSUME t = flat
      PROVE  (IF call.kernel \in Batched THEN Product(call, f) ELSE {off}) = Meaning(call, x)
  <2>1. Turning(call, x) = coords
    BY <1>2, <1>3, <1>5, FlatInjective
  <2>2. off = Offset(call, Turning(call, x))
    BY <1>3, <2>1
  <2> QED
    BY <1>1, <2>2, CallsAssumption, TurnMeans
<1>6. t < flat \/ t = flat
  BY <1>2, <1>3
<1>7. dst'[f] = IF t = flat THEN (IF call.kernel \in Batched THEN Product(call, f) ELSE {off})
                ELSE dst[f]
  <2>1. CASE call.kernel \in Batched
    <3> DEFINE size == call.out[Len(call.out) - 1] * Last(call.out)
    <3>1. dst' = [g \in DOMAIN dst |-> IF g \div size = flat THEN Product(call, g) ELSE dst[g]]
      <4>1. /\ call.kernel \notin Broadcasting /\ call.kernel \notin Recomputing
            /\ call.kernel # "ReduceMean"
        BY <2>1 DEF Broadcasting, Batched, Recomputing
      <4>2. Written(call) = [g \in DOMAIN dst |-> IF g \div size = flat THEN Product(call, g) ELSE dst[g]]
        BY <2>1, <4>1 DEF Written
      <4> QED
        BY <4>2 DEF Turn
    <3>2. t = f \div size
      BY <2>1 DEF TurnOf
    <3> HIDE DEF size, f, t
    <3> QED
      BY <1>4, <2>1, <3>1, <3>2
  <2>2. CASE call.kernel \notin Batched
    <3>1. dst' = [dst EXCEPT ![flat] = {off}]
      BY <1>1, <2>2 DEF Turn, Written, Broadcasting, Batched, Recomputing, Walking
    <3>2. t = f
      BY <2>2 DEF TurnOf
    <3> HIDE DEF f, t
    <3> QED
      BY <1>4, <2>2, <3>1, <3>2
  <2> QED
    BY <2>1, <2>2
<1> HIDE DEF f, t
<1> QED
  BY <1>4, <1>5, <1>6, <1>7 DEF f

\* The turns made are no more than there are.
LEMMA WalkedCounts ==
  ASSUME OdometerInv, Walk
  PROVE  /\ Numel(Walked(call)) \in Nat /\ flat \in Nat /\ flat <= Numel(Walked(call))
         /\ flat >= Numel(Walked(call)) => flat = Numel(Walked(call))
<1>1. WalksOver(call)
  BY CallsAssumption, ShapesAssumption, Walks DEF Walk, OdometerInv
<1>2. Shape(Walked(call)) /\ coords \in Coords(Walked(call)) /\ flat \in 0 .. Numel(Walked(call))
  BY <1>1 DEF OdometerInv, WalksOver
<1>3. Numel(Walked(call)) \in Nat
  BY <1>2, CoordsFunction, FlatInRange
<1> QED
  BY <1>2, <1>3

\* It holds from one turn to the next.
LEMMA DataNext == OdometerInv /\ DataInv /\ [Next]_vars => DataInv'
<1> SUFFICES ASSUME OdometerInv, DataInv, [Next]_vars PROVE DataInv'
  OBVIOUS
<1>1. IsCall(call)
  BY ShapesAssumption DEF OdometerInv
<1>2. CASE Turn
  <2>1. call' = call /\ flat' = flat + 1 /\ pc' = pc /\ pc = "loop" /\ Walk
    BY <1>2 DEF Turn, Walk
  <2>2. DOMAIN dst' = DOMAIN dst
    <3>1. \/ call.kernel \in Broadcasting \/ call.kernel \in Batched
          \/ call.kernel \in Recomputing \/ call.kernel = "ReduceMean"
      BY <2>1 DEF Walk, Walking
    <3>2. DOMAIN Written(call) = DOMAIN dst
      BY <3>1 DEF Written, Broadcasting, Batched, Recomputing
    <3> QED
      BY <1>2, <3>2 DEF Turn
  <2>3. ASSUME call.kernel = "ReduceMean", NEW x \in Coords(call.out)
        PROVE  dst'[Flat(call.out, x)] = Summed(call, x, flat + 1)
    BY <1>2, <2>3, ReducingTurn
  <2>4. ASSUME call.kernel # "ReduceMean", ~WrapsAround(call), NEW x \in Coords(call.out),
               TurnOf(call, Flat(call.out, x)) < flat + 1
        PROVE  dst'[Flat(call.out, x)] = Meaning(call, x)
    BY <1>2, <2>4, WritingTurn
  <2>5. DOMAIN dst = 0 .. Numel(call.out) - 1
    BY DEF DataInv
  <2> QED
    BY <2>1, <2>2, <2>3, <2>4, <2>5 DEF DataInv
<1>3. CASE Return
  <2>1. /\ call' = call /\ dst' = dst /\ pc' = "done" /\ Walk
        /\ call.kernel \in Walking /\ ~(flat < Numel(Walked(call)))
    BY <1>3, WalkedCounts DEF Return, Walk
  <2>2. ASSUME ~WrapsAround(call), NEW x \in Coords(call.out)
        PROVE  dst[Flat(call.out, x)] = Meaning(call, x)
    <3>1. CASE call.kernel = "ReduceMean"
      <4>1. Shape(call.ins[1]) /\ Walked(call) = call.ins[1]
        BY <1>1, <3>1, ReduceFacts
      <4>2. flat = Numel(call.ins[1])
        BY <2>1, <4>1, WalkedCounts
      <4>3. dst[Flat(call.out, x)] = Summed(call, x, flat)
        BY <2>1, <3>1 DEF DataInv
      <4> QED
        BY <3>1, <4>1, <4>2, <4>3, SummedEnds
    <3>2. CASE call.kernel # "ReduceMean"
      <4>1. TurnOf(call, Flat(call.out, x)) < flat
        <5>1. TurnOf(call, Flat(call.out, x)) \in 0 .. Numel(Walked(call)) - 1
          BY <1>1, <2>1, <3>2, TurnFound
        <5> QED
          BY <2>1, <5>1, WalkedCounts
      <4> QED
        BY <2>1, <2>2, <3>2, <4>1 DEF DataInv
    <3> QED
      BY <3>1, <3>2
  <2>3. DOMAIN dst = 0 .. Numel(call.out) - 1
    BY DEF DataInv
  <2> QED
    BY <2>1, <2>2, <2>3 DEF DataInv, Walk
<1>4. CASE Refuse
  <2>1. call' = call /\ dst' = dst /\ pc' = "refused" /\ Mismatch(call)
    BY <1>4 DEF Refuse
  <2>2. DOMAIN dst = 0 .. Numel(call.out) - 1
    BY DEF DataInv
  <2> QED
    BY <2>1, <2>2 DEF DataInv, Walk
<1>5. CASE Run
  <2>1. /\ call' = call /\ pc' = "done" /\ call.kernel \notin Walking
        /\ dst' = [f \in DOMAIN dst |-> Terms(call, f)]
    BY <1>5 DEF Run
  <2>2. DOMAIN dst = 0 .. Numel(call.out) - 1
    BY DEF DataInv
  <2>3. ASSUME ~ColumnBias(call), NEW x \in Coords(call.out)
        PROVE  dst'[Flat(call.out, x)] = Meaning(call, x)
    <3>1. Flat(call.out, x) \in DOMAIN dst
      BY <1>1, <2>2, Elements
    <3>2. Terms(call, Flat(call.out, x)) = Meaning(call, x)
      BY <1>1, <2>1, <2>3, TermsMean
    <3> QED
      BY <2>1, <3>1, <3>2
  <2> QED
    BY <2>1, <2>2, <2>3 DEF DataInv, Walk
<1>6. CASE UNCHANGED vars
  BY <1>6 DEF DataInv, Walk, vars
<1> QED
  BY <1>2, <1>3, <1>4, <1>5, <1>6 DEF Next

\* So both hold throughout a call.
LEMMA DataSafe == Spec => [](OdometerInv /\ DataInv)
<1>1. OdometerInv /\ DataInv /\ [Next]_vars => (OdometerInv /\ DataInv)'
  BY OdometerNext, DataNext
<1> QED
  BY OdometerInit, DataInit, <1>1, PTL DEF Spec

\* kernels_ref.c:14-16: every element of a result is computed from exactly the
\* operand elements the operator prescribes, for every call there is, of whatever
\* rank and shape; the calls it is not so for are the ones the property names.
THEOREM Exact == Spec => []ElementsExact
<1>1. OdometerInv /\ DataInv => ElementsExact
  <2> SUFFICES ASSUME OdometerInv, DataInv PROVE ElementsExact
    OBVIOUS
  <2>1. IsCall(call)
    BY ShapesAssumption DEF OdometerInv
  <2>2. ASSUME pc = "refused"
        PROVE  TooWide(call) \/ \E k \in DOMAIN call.steps : call.steps[k] < 0
    <3>1. Mismatch(call)
      BY <2>2 DEF DataInv
    <3> QED
      BY <2>1, <3>1, CallsAssumption, OnlyRefuses
  <2>3. pc = "done" /\ ~ColumnBias(call) /\ ~WrapsAround(call) =>
          \A x \in Coords(call.out) : dst[Flat(call.out, x)] = Meaning(call, x)
    BY DEF DataInv
  <2> QED
    BY <2>2, <2>3 DEF ElementsExact
<1> QED
  BY <1>1, DataSafe, PTL

-----------------------------------------------------------------------------
(* How many elements a mean is the mean of. *)

\* The image of a finite set, and of one without two elements of the same image.
LEMMA ImageCounts ==
  ASSUME NEW S, IsFiniteSet(S), NEW f, NEW T, T = {f[x] : x \in S}
  PROVE  /\ IsFiniteSet(T) /\ Cardinality(T) <= Cardinality(S)
         /\ (\A x, y \in S : f[x] = f[y] => x = y) => Cardinality(T) = Cardinality(S)
<1> DEFINE g == [x \in S |-> f[x]]
<1>1. g \in Surjection(S, T)
  BY DEF Surjection
<1>2. IsFiniteSet(T) /\ Cardinality(T) <= Cardinality(S)
      /\ (Cardinality(T) = Cardinality(S) <=> g \in Injection(S, T))
  BY <1>1, FS_Surjection
<1>3. (\A x, y \in S : f[x] = f[y] => x = y) => g \in Injection(S, T)
  BY <1>1 DEF Surjection, Injection, IsInjective
<1> QED
  BY <1>2, <1>3

\* A shape within another, with as many elements, is the same.
LEMMA SameNumel ==
  ASSUME NEW s, Shape(s), NEW t, Shape(t), Len(s) = Len(t),
         \A d \in 1 .. Len(s) : s[d] <= t[d], Numel(s) = Numel(t)
  PROVE  \A d \in 1 .. Len(s) : s[d] = t[d]
<1> DEFINE n == Len(s)
           v == Weight(s)
           w == Weight(t)
<1>1. /\ n \in Nat
      /\ \A d \in 1 .. n : s[d] \in Nat /\ s[d] > 0 /\ t[d] \in Nat /\ t[d] > 0 /\ s[d] <= t[d]
  BY ShapeFacts
<1>2. /\ \A d \in 0 .. n : v[d] \in Nat /\ v[d] > 0 /\ w[d] \in Nat /\ w[d] > 0
      /\ v[n] = 1 /\ w[n] = 1 /\ v[0] = w[0]
      /\ \A d \in 1 .. n : v[d - 1] = s[d] * v[d] /\ w[d - 1] = t[d] * w[d]
  BY WeightsOfShape
<1> HIDE DEF n, v, w
<1>3. ASSUME NEW a \in Nat, NEW b \in Nat, NEW x \in Nat, NEW y \in Nat, a > 0, x > 0, a <= b, x <= y
      PROVE  a * x <= b * y /\ (a < b \/ x < y => a * x < b * y)
  <2>1. a * x <= a * y /\ (x < y => a * x < a * y)
    <3> DEFINE k == y - x
    <3>1. k \in Nat /\ y = x + k /\ (x < y => k > 0)
      BY <1>3
    <3> HIDE DEF k
    <3>2. a * (x + k) = a * x + a * k
      BY <3>1
    <3>3. a * k \in Nat /\ (k > 0 => a * k > 0) /\ a * x \in Nat
      BY <1>3, <3>1, TimesNat
    <3> QED
      BY <3>1, <3>2, <3>3
  <2>2. a * y <= b * y /\ (a < b => a * y < b * y)
    <3> DEFINE k == b - a
    <3>1. k \in Nat /\ b = a + k /\ (a < b => k > 0)
      BY <1>3
    <3> HIDE DEF k
    <3>2. (a + k) * y = a * y + k * y
      BY <3>1
    <3>3. k * y \in Nat /\ (k > 0 => k * y > 0) /\ a * y \in Nat
      BY <1>3, <3>1, TimesNat
    <3> QED
      BY <3>1, <3>2, <3>3
  <2>3. a * x \in Int /\ a * y \in Int /\ b * y \in Int
    OBVIOUS
  <2> QED
    BY <1>3, <2>1, <2>2, <2>3
<1>4. \A j \in 0 .. n : v[j] <= w[j]
  <2> DEFINE G == {j \in 0 .. n : v[j] <= w[j]}
  <2>1. n \in G
    BY <1>1, <1>2
  <2>2. ASSUME NEW j \in 1 .. n, j \in G PROVE j - 1 \in G
    <3>1. v[j] \in Nat /\ w[j] \in Nat /\ v[j] > 0 /\ v[j] <= w[j]
      BY <1>1, <1>2, <2>2
    <3>2. s[j] * v[j] <= t[j] * w[j]
      BY <1>1, <1>3, <3>1
    <3> QED
      BY <1>1, <1>2, <3>2
  <2> QED
    BY <1>1, <2>1, <2>2, Downwards
<1>5. ASSUME NEW d \in 1 .. n, s[d] # t[d] PROVE FALSE
  <2> DEFINE G == {j \in 0 .. n : j < d => v[j] < w[j]}
  <2>1. n \in G
    BY <1>1
  <2>2. ASSUME NEW j \in 1 .. n, j \in G PROVE j - 1 \in G
    <3>1. v[j] \in Nat /\ w[j] \in Nat /\ v[j] > 0 /\ v[j] <= w[j]
      BY <1>1, <1>2, <1>4
    <3>2. s[j] < t[j] \/ v[j] < w[j] => s[j] * v[j] < t[j] * w[j]
      BY <1>1, <1>3, <3>1
    <3>3. j - 1 < d => s[j] < t[j] \/ v[j] < w[j]
      BY <1>1, <1>5, <2>2
    <3> QED
      BY <1>1, <1>2, <3>2, <3>3
  <2>3. 0 \in G
    <3>1. \A j \in 0 .. n : j \in G
      BY <1>1, <2>1, <2>2, Downwards
    <3> QED
      BY <1>1, <3>1
  <2>4. v[0] < w[0]
    BY <1>1, <2>3
  <2> QED
    BY <1>1, <1>2, <2>4
<1> QED
  BY <1>5 DEF n

\* A mean that does not scale up is over one element.
LEMMA OneReduced ==
  ASSUME NEW c, IsCall(c), c.kernel = "ReduceMean", Numel(c.ins[1]) = Numel(c.out),
         NEW x \in Coords(c.out)
  PROVE  /\ Cardinality(Meaning(c, x)) = 1
         /\ Numel(c.ins[1]) \div Numel(KeptShape(c)) = 1
<1> DEFINE in == c.ins[1]
           n == Len(in)
           z == Spread(c, x)
<1>1. Shape(in) /\ Shape(Full(c)) /\ Numel(c.out) = Numel(Full(c)) /\ Numel(KeptShape(c)) = Numel(Full(c))
  BY ReduceFacts, ReduceNumel
<1>2. n \in Nat /\ \A d \in 1 .. n : in[d] \in Nat /\ in[d] > 0
  BY <1>1, ShapeFacts
<1>3. Len(Full(c)) = n /\ \A d \in 1 .. n : Full(c)[d] = IF d \in Reduced(c) THEN 1 ELSE in[d]
  BY <1>2 DEF Full
<1>4. \A d \in 1 .. n : Full(c)[d] = in[d]
  <2>1. \A d \in 1 .. n : Full(c)[d] <= in[d]
    BY <1>2, <1>3
  <2> QED
    BY <1>1, <1>3, <2>1, SameNumel
<1>5. z \in Coords(Full(c))
  BY SpreadFlat
<1>6. z = [d \in 1 .. n |-> z[d]] /\ \A d \in 1 .. n : z[d] \in 0 .. in[d] - 1
  BY <1>1, <1>3, <1>4, <1>5, CoordsFunction
<1>7. z \in Coords(in)
  BY <1>1, <1>6, IsCoords
<1>8. \A d \in 1 .. n : z[d] = IF d \in Reduced(c) THEN 0 ELSE x[IF c.keepdims THEN d ELSE Place(c, d)]
  BY DEF Spread
<1>9. ASSUME NEW y \in Coords(in) PROVE Agrees(c, x, y) <=> y = z
  <2>1. DOMAIN y = 1 .. n /\ \A d \in 1 .. n : y[d] \in 0 .. in[d] - 1
    BY <1>1, CoordsFunction
  <2>2. ASSUME Agrees(c, x, y) PROVE y = z
    <3>1. ASSUME NEW d \in 1 .. n PROVE y[d] = z[d]
      <4>1. CASE d \in Reduced(c)
        <5>1. in[d] = 1
          BY <1>3, <1>4, <4>1
        <5>2. y[d] = 0
          BY <2>1, <5>1
        <5> QED
          BY <1>8, <4>1, <5>2
      <4>2. CASE d \notin Reduced(c)
        BY <1>8, <2>1, <2>2, <4>2 DEF Agrees
      <4> QED
        BY <4>1, <4>2
    <3> QED
      BY <1>1, <1>7, <3>1, SameCoords
  <2>3. ASSUME y = z PROVE Agrees(c, x, y)
    BY <1>8, <2>1, <2>3 DEF Agrees
  <2> QED
    BY <2>2, <2>3
<1>10. Meaning(c, x) = {<<Flat(in, z)>>}
  <2>1. Meaning(c, x) = {<<Flat(in, y)>> : y \in {y \in Coords(in) : Agrees(c, x, y)}}
    BY ReduceMeans
  <2>2. {y \in Coords(in) : Agrees(c, x, y)} = {z}
    BY <1>7, <1>9
  <2> QED
    BY <2>1, <2>2
<1>11. Cardinality(Meaning(c, x)) = 1
  BY <1>10, FS_Singleton
<1>12. Numel(in) \div Numel(KeptShape(c)) = 1
  <2>1. Numel(in) \in Nat /\ Numel(in) > 0
    BY <1>1, <1>7, CoordsFunction, FlatInRange
  <2>2. Numel(KeptShape(c)) = Numel(in)
    BY <1>1
  <2> QED
    BY <2>1, <2>2
<1> QED
  BY <1>11, <1>12

\* A global pool averages a whole plane.
LEMMA PlaneCounts ==
  ASSUME NEW c, IsCall(c), c.kernel = "GlobalAveragePool", NEW x \in Coords(c.out)
  PROVE  Cardinality(Meaning(c, x)) = c.ins[1][3] * c.ins[1][4]
<1> DEFINE f == Flat(c.out, x)
           X == c.ins[1]
           m == X[3] * X[4]
           b == f * X[3] * X[4]
           g == [i \in 0 .. m - 1 |-> <<b + i>>]
<1>1. Shape(X) /\ Len(X) = 4 /\ Shape(c.out)
  BY CallFacts DEF IsCall, Broadcasting, Batched
<1>2. X[3] \in Nat /\ X[4] \in Nat
  BY <1>1, FourCoords
<1>3. m \in Nat
  BY <1>2, TimesNat
<1>4. f \in Int
  BY Elements
<1>5. b \in Int
  BY <1>2, <1>4
<1>6. Meaning(c, x) = {<<b + i>> : i \in 0 .. m - 1}
  <2>1. Meaning(c, x) = Terms(c, f)
    BY GlobalMeans
  <2> QED
    BY <2>1 DEF Terms, GlobalAveragePool
<1> HIDE DEF m, b
<1>7. Meaning(c, x) = {g[i] : i \in 0 .. m - 1}
  BY <1>6
<1>8. \A i, j \in 0 .. m - 1 : g[i] = g[j] => i = j
  <2> SUFFICES ASSUME NEW i \in 0 .. m - 1, NEW j \in 0 .. m - 1, g[i] = g[j] PROVE i = j
    OBVIOUS
  <2>1. <<b + i>> = <<b + j>>
    OBVIOUS
  <2>2. b + i = b + j
    BY <2>1
  <2> QED
    BY <1>5, <2>2
<1>9. IsFiniteSet(0 .. m - 1) /\ Cardinality(0 .. m - 1) = m
  <2>1. 0 \in Int /\ m - 1 \in Int
    BY <1>3
  <2>2. IsFiniteSet(0 .. m - 1) /\ Cardinality(0 .. m - 1) = IF 0 > m - 1 THEN 0 ELSE m - 1 - 0 + 1
    BY <2>1, FS_Interval
  <2> QED
    BY <1>3, <2>2
<1> HIDE DEF g
<1> DEFINE S == 0 .. m - 1
           M == Meaning(c, x)
<1>10. M = {g[i] : i \in S} /\ (\A i, j \in S : g[i] = g[j] => i = j) /\ IsFiniteSet(S)
  BY <1>7, <1>8, <1>9
<1>11. Cardinality(S) = m
  BY <1>9
<1> HIDE DEF S, M
<1>12. Cardinality(M) = Cardinality(S)
  BY <1>10, ImageCounts
<1> QED
  BY <1>11, <1>12 DEF m, M

\* The position under a tap, and the taps there are.
Tapped(c, x, t) ==
  <<x[1], x[2], Covered(x[3], c.strides[1], t[1], 1, c.pads[1]),
    Covered(x[4], c.strides[2], t[2], 1, c.pads[2])>>

Window(c) == (0 .. c.window[1] - 1) \X (0 .. c.window[2] - 1)

\* A window that stays clear of the padding, before and behind.
LEMMA TapInside ==
  ASSUME NEW c, IsCall(c), c.kernel = "AveragePool", ~CountsPadding(c), NEW x \in Coords(c.out),
         NEW d \in {1, 2}, NEW u \in 0 .. c.window[d] - 1
  PROVE  /\ Covered(x[d + 2], c.strides[d], u, 1, c.pads[d]) = x[d + 2] * c.strides[d] + u
         /\ Covered(x[d + 2], c.strides[d], u, 1, c.pads[d]) \in 0 .. c.ins[1][d + 2] - 1
         /\ x[d + 2] * c.strides[d] \in Int
<1> DEFINE i == x[d + 2]
           s == c.strides[d]
           o == c.out[d + 2]
           X == c.ins[1][d + 2]
           w == c.window[d]
<1>1. Shape(c.ins[1]) /\ Shape(c.out) /\ IsPool(c)
  BY CallFacts DEF IsCall, Broadcasting
<1>2. w \in Nat /\ s \in Nat /\ c.pads[d] \in Nat
  <2>1. {1, 2} = 1 .. 2
    OBVIOUS
  <2> QED
    BY <1>1, <2>1 DEF IsPool, Positive
<1>3. d + 2 \in 1 .. 4
  OBVIOUS
<1>4. i \in 0 .. o - 1 /\ o \in Nat /\ X \in Nat
  <2>1. Len(c.ins[1]) = 4 /\ Len(c.out) = 4
    BY <1>1 DEF IsPool
  <2>2. \A e \in 1 .. 4 : x[e] \in 0 .. c.out[e] - 1 /\ c.out[e] \in Nat /\ c.ins[1][e] \in Nat
    BY <1>1, <2>1, FourCoords
  <2> QED
    BY <1>3, <2>2
<1>5. ~(c.pads[d] > 0) /\ ~((o - 1) * s + w > X)
  BY DEF CountsPadding
<1>6. Covered(i, s, u, 1, c.pads[d]) = i * s + u * 1 - c.pads[d]
  BY DEF Covered
<1>7. u \in Nat /\ u < w
  BY <1>2
<1> HIDE DEF i, s, o, X, w
<1>8. i * s <= (o - 1) * s /\ i * s \in Nat /\ (o - 1) * s \in Int
  <2>1. i \in Nat /\ o - 1 \in Int /\ i <= o - 1
    BY <1>4
  <2> QED
    BY <1>2, <2>1, TimesMonotone, TimesNat
<1> DEFINE p == i * s
           q == (o - 1) * s
<1>9. p \in Nat /\ q \in Int /\ p <= q /\ ~(q + w > X) /\ Covered(i, s, u, 1, c.pads[d]) = p + u
  <2>1. u * 1 = u /\ c.pads[d] = 0
    BY <1>2, <1>5, <1>7
  <2>2. Covered(i, s, u, 1, c.pads[d]) = p + u - 0
    BY <1>6, <2>1
  <2> QED
    BY <1>5, <1>7, <1>8, <2>2
<1> HIDE DEF p, q
<1>10. p + u \in 0 .. X - 1
  BY <1>2, <1>4, <1>7, <1>9
<1> QED
  BY <1>8, <1>9, <1>10 DEF i, s, X, p

\* An average of a window that counts no padding is over as many elements as
\* the window has.
LEMMA WindowCounts ==
  ASSUME NEW c, IsCall(c), c.kernel = "AveragePool", ~CountsPadding(c), NEW x \in Coords(c.out)
  PROVE  Cardinality(Meaning(c, x)) = c.window[1] * c.window[2]
<1> DEFINE X == c.ins[1]
           T == Window(c)
           f == Flat(c.out, x)
           w1 == c.window[1]
           w2 == c.window[2]
           g == [t \in T |-> <<Flat(X, Tapped(c, x, t))>>]
<1>1. Shape(X) /\ Shape(c.out) /\ IsPool(c)
  BY CallFacts DEF IsCall, Broadcasting
<1>2. /\ Len(X) = 4 /\ Len(c.out) = 4 /\ c.out[1] = X[1] /\ c.out[2] = X[2]
      /\ w1 \in Nat /\ w2 \in Nat
      /\ \A d \in {1, 2} : c.strides[d] \in Nat /\ c.strides[d] > 0
  <2>1. {1, 2} = 1 .. 2
    OBVIOUS
  <2> QED
    BY <1>1, <2>1 DEF IsPool, Positive
<1>3. x[1] \in 0 .. X[1] - 1 /\ x[2] \in 0 .. X[2] - 1
  <2>1. \A d \in 1 .. 4 : x[d] \in 0 .. c.out[d] - 1
    BY <1>1, <1>2, FourCoords
  <2> QED
    BY <1>2, <2>1
<1>4. At(c.out, f) = x
  BY <1>1, CoordsFunction, AtFlat
<1>5. Meaning(c, x) = {<<Index(X, Tapped(c, x, t))>> :
                         t \in {t \in T : /\ Tapped(c, x, t)[3] \in 0 .. X[3] - 1
                                          /\ Tapped(c, x, t)[4] \in 0 .. X[4] - 1}}
  <2>1. Meaning(c, x) = Terms(c, f)
    BY PoolMeans
  <2> DEFINE S(d) == IF c.strides[d] = 0 THEN c.window[d] ELSE c.strides[d]
             Jh(t) == Covered(x[3], S(1), t[1], 1, c.pads[1])
             Jw(t) == Covered(x[4], S(2), t[2], 1, c.pads[2])
  <2>2. S(1) = c.strides[1] /\ S(2) = c.strides[2]
    BY <1>2
  <2>3. Terms(c, f) = {<<Index(X, <<x[1], x[2], Jh(t), Jw(t)>>)>> :
                         t \in {t \in T : Jh(t) \in 0 .. X[3] - 1 /\ Jw(t) \in 0 .. X[4] - 1}}
    BY <1>4 DEF Terms, Pool, Window
  <2> HIDE DEF S
  <2>4. \A t : Tapped(c, x, t) = <<x[1], x[2], Jh(t), Jw(t)>>
    BY <2>2 DEF Tapped
  <2>5. \A t : Tapped(c, x, t)[3] = Jh(t) /\ Tapped(c, x, t)[4] = Jw(t)
    BY <2>4
  <2> HIDE DEF Jh, Jw
  <2> QED
    BY <2>1, <2>3, <2>4, <2>5
<1>6. ASSUME NEW t \in T
      PROVE  /\ Tapped(c, x, t) \in Coords(X) /\ Within(Tapped(c, x, t), X)
             /\ Tapped(c, x, t)[3] \in 0 .. X[3] - 1 /\ Tapped(c, x, t)[4] \in 0 .. X[4] - 1
             /\ Tapped(c, x, t)[3] = x[3] * c.strides[1] + t[1]
             /\ Tapped(c, x, t)[4] = x[4] * c.strides[2] + t[2]
  <2>1. t[1] \in 0 .. w1 - 1 /\ t[2] \in 0 .. w2 - 1
    BY DEF Window
  <2>2. 1 + 2 = 3 /\ 2 + 2 = 4
    OBVIOUS
  <2>3. /\ Covered(x[3], c.strides[1], t[1], 1, c.pads[1]) = x[3] * c.strides[1] + t[1]
        /\ Covered(x[3], c.strides[1], t[1], 1, c.pads[1]) \in 0 .. X[3] - 1
    BY <2>1, <2>2, TapInside
  <2>4. /\ Covered(x[4], c.strides[2], t[2], 1, c.pads[2]) = x[4] * c.strides[2] + t[2]
        /\ Covered(x[4], c.strides[2], t[2], 1, c.pads[2]) \in 0 .. X[4] - 1
    BY <2>1, <2>2, TapInside
  <2> DEFINE p == Covered(x[3], c.strides[1], t[1], 1, c.pads[1])
             q == Covered(x[4], c.strides[2], t[2], 1, c.pads[2])
  <2>5. Tapped(c, x, t) = <<x[1], x[2], p, q>>
    BY DEF Tapped
  <2> HIDE DEF p, q
  <2>6. p \in 0 .. X[3] - 1 /\ q \in 0 .. X[4] - 1
    BY <2>3, <2>4 DEF p, q
  <2>7. <<x[1], x[2], p, q>> \in Coords(X) /\ Within(<<x[1], x[2], p, q>>, X)
    BY <1>1, <1>2, <1>3, <2>6, FourCoords
  <2>8. Tapped(c, x, t)[3] = p /\ Tapped(c, x, t)[4] = q
    BY <2>5
  <2> QED
    BY <2>3, <2>4, <2>5, <2>6, <2>7, <2>8 DEF p, q
<1> HIDE DEF w1, w2, T, X
<1>7. Meaning(c, x) = {g[t] : t \in T}
  <2>1. \A t \in T : Index(X, Tapped(c, x, t)) = Flat(X, Tapped(c, x, t))
    BY <1>1, <1>6, IndexIsFlat
  <2>2. Meaning(c, x) = {<<Index(X, Tapped(c, x, t))>> : t \in T}
    BY <1>5, <1>6
  <2>3. {<<Index(X, Tapped(c, x, t))>> : t \in T} = {g[t] : t \in T}
    BY <2>1
  <2> QED
    BY <2>2, <2>3
<1>8. \A t, u \in T : g[t] = g[u] => t = u
  <2> SUFFICES ASSUME NEW t \in T, NEW u \in T, g[t] = g[u] PROVE t = u
    OBVIOUS
  <2> DEFINE a == Tapped(c, x, t)
             b == Tapped(c, x, u)
  <2>1. Flat(X, a) = Flat(X, b)
    <3>1. <<Flat(X, a)>> = <<Flat(X, b)>>
      OBVIOUS
    <3> QED
      BY <3>1
  <2>2. a = b
    BY <1>1, <1>6, <2>1, FlatInjective
  <2>3. a[3] = b[3] /\ a[4] = b[4]
    BY <2>2
  <2>4. /\ x[3] * c.strides[1] + t[1] = x[3] * c.strides[1] + u[1]
        /\ x[4] * c.strides[2] + t[2] = x[4] * c.strides[2] + u[2]
    BY <1>6, <2>3
  <2>5. /\ t[1] \in 0 .. w1 - 1 /\ t[2] \in 0 .. w2 - 1 /\ t = <<t[1], t[2]>>
        /\ u[1] \in 0 .. w1 - 1 /\ u[2] \in 0 .. w2 - 1 /\ u = <<u[1], u[2]>>
    BY DEF T, Window, w1, w2
  <2>6. x[3] * c.strides[1] \in Int /\ x[4] * c.strides[2] \in Int
    <3>1. 1 + 2 = 3 /\ 2 + 2 = 4
      OBVIOUS
    <3> QED
      BY <2>5, <3>1, TapInside DEF w1, w2
  <2> DEFINE p == x[3] * c.strides[1]
             q == x[4] * c.strides[2]
  <2>7. p \in Int /\ q \in Int /\ p + t[1] = p + u[1] /\ q + t[2] = q + u[2]
    BY <2>4, <2>6
  <2> HIDE DEF p, q
  <2>8. t[1] = u[1] /\ t[2] = u[2]
    BY <1>2, <2>5, <2>7
  <2> QED
    BY <2>5, <2>8
<1>9. IsFiniteSet(T) /\ Cardinality(T) = w1 * w2
  <2>1. 0 \in Int /\ w1 - 1 \in Int /\ w2 - 1 \in Int
    BY <1>2
  <2>2. /\ IsFiniteSet(0 .. w1 - 1) /\ Cardinality(0 .. w1 - 1) = IF 0 > w1 - 1 THEN 0 ELSE w1 - 1 - 0 + 1
        /\ IsFiniteSet(0 .. w2 - 1) /\ Cardinality(0 .. w2 - 1) = IF 0 > w2 - 1 THEN 0 ELSE w2 - 1 - 0 + 1
    BY <2>1, FS_Interval
  <2>3. /\ IsFiniteSet(0 .. w1 - 1) /\ Cardinality(0 .. w1 - 1) = w1
        /\ IsFiniteSet(0 .. w2 - 1) /\ Cardinality(0 .. w2 - 1) = w2
    BY <1>2, <2>2
  <2> QED
    BY <2>3, FS_Product DEF T, Window, w1, w2
<1> HIDE DEF g
<1>10. Cardinality(Meaning(c, x)) = Cardinality(T)
  BY <1>7, <1>8, <1>9, ImageCounts
<1> QED
  BY <1>9, <1>10 DEF w1, w2

-----------------------------------------------------------------------------
(* Divisors. *)

\* What each element of a mean is divided by.
Over(c) ==
  IF c.kernel = "ReduceMean" THEN <<Numel(c.ins[1]) \div Numel(KeptShape(c)), 1>> ELSE Divisor(c)

DivisorInv ==
  pc = "done" /\ call.kernel \in {"ReduceMean", "AveragePool", "GlobalAveragePool"} =>
    \A f \in 0 .. Numel(call.out) - 1 : divisor[f] = Over(call)

\* It holds from one step to the next.
LEMMA DivisorNext == OdometerInv /\ DataInv /\ DivisorInv /\ [Next]_vars => DivisorInv'
<1> SUFFICES ASSUME OdometerInv, DataInv, DivisorInv, [Next]_vars PROVE DivisorInv'
  OBVIOUS
<1>1. DOMAIN dst = 0 .. Numel(call.out) - 1
  BY DEF DataInv
<1>2. CASE Turn
  BY <1>2 DEF Turn, DivisorInv
<1>3. CASE Return
  BY <1>1, <1>3 DEF Return, DivisorInv, Over, Walking, Broadcasting, Batched, Recomputing
<1>4. CASE Refuse
  BY <1>4 DEF Refuse, DivisorInv
<1>5. CASE Run
  BY <1>1, <1>5 DEF Run, DivisorInv, Over, Walking
<1>6. CASE UNCHANGED vars
  BY <1>6 DEF vars, DivisorInv
<1> QED
  BY <1>2, <1>3, <1>4, <1>5, <1>6 DEF Next

\* A mean is divided by the number of elements it is the mean of: the window of
\* an average pool, the plane of a global one, the extents a reduction removes;
\* for every shape, but for means that scale up and windows that count padding.
THEOREM MeanDivides == Spec => []MeansExact
<1>1. Init => DivisorInv
  BY DEF Init, DivisorInv
<1>2. Spec => []DivisorInv
  BY <1>1, DivisorNext, DataSafe, PTL DEF Spec
<1>3. OdometerInv /\ DataInv /\ DivisorInv => MeansExact
  <2> SUFFICES ASSUME OdometerInv, DataInv, DivisorInv, pc = "done",
                      call.kernel \in {"ReduceMean", "AveragePool", "GlobalAveragePool"},
                      ~ScalesUp(call), ~CountsPadding(call), NEW x \in Coords(call.out)
               PROVE  divisor[Flat(call.out, x)] = <<1, Cardinality(Meaning(call, x))>>
    BY DEF MeansExact
  <2>1. IsCall(call)
    BY ShapesAssumption DEF OdometerInv
  <2>2. divisor[Flat(call.out, x)] = Over(call)
    BY <2>1, Elements DEF DivisorInv
  <2>3. CASE call.kernel = "ReduceMean"
    BY <2>1, <2>2, <2>3, OneReduced DEF Over, ScalesUp
  <2>4. CASE call.kernel = "AveragePool"
    BY <2>1, <2>2, <2>4, WindowCounts DEF Over, Divisor
  <2>5. CASE call.kernel = "GlobalAveragePool"
    BY <2>1, <2>2, <2>5, PlaneCounts DEF Over, Divisor
  <2> QED
    BY <2>3, <2>4, <2>5
<1> QED
  BY <1>2, <1>3, DataSafe, PTL

-----------------------------------------------------------------------------
(* What a kernel has done, against what it is charged for. *)

\* Ceilings grow with what is divided, and not beyond it.
LEMMA CeilGrows ==
  ASSUME NEW a \in Int, NEW b \in Int, NEW r \in Nat, r > 0, a <= b
  PROVE  CeilDiv(a, r) \in Int /\ CeilDiv(b, r) \in Int /\ CeilDiv(a, r) <= CeilDiv(b, r)
<1> DEFINE p == (-b) \div r
           q == (-a) \div r
<1>1. p \in Int /\ (-b) % r \in 0 .. r - 1 /\ -b = p * r + ((-b) % r)
  BY DivMod
<1>2. q \in Int /\ (-a) % r \in 0 .. r - 1 /\ -a = q * r + ((-a) % r)
  BY DivMod
<1>3. CeilDiv(a, r) = -q /\ CeilDiv(b, r) = -p
  BY DEF CeilDiv
<1> DEFINE m == (-b) % r
           n == (-a) % r
<1> HIDE DEF p, q, m, n
<1>4. ~(q < p)
  <2> SUFFICES ASSUME q < p PROVE FALSE
    OBVIOUS
  <2>1. q + 1 \in Int /\ q + 1 <= p
    BY <1>1, <1>2
  <2>2. (q + 1) * r <= p * r
    BY <1>1, <2>1, TimesMonotone
  <2>3. (q + 1) * r = q * r + r
    BY <1>2
  <2> DEFINE u == q * r
             v == p * r
  <2>4. u \in Int /\ v \in Int /\ u + r <= v /\ -b = v + m /\ -a = u + n
        /\ m \in 0 .. r - 1 /\ n \in 0 .. r - 1
    BY <1>1, <1>2, <2>2, <2>3 DEF m, n
  <2> HIDE DEF u, v
  <2> QED
    BY <2>4
<1> QED
  BY <1>1, <1>2, <1>3, <1>4

\* Dividing makes nothing larger.
LEMMA CeilShrinks ==
  ASSUME NEW a \in Nat, NEW r \in Nat, r > 0
  PROVE  CeilDiv(a, r) \in Int /\ CeilDiv(a, r) <= a
<1> DEFINE q == (-a) \div r
           n == (-a) % r
<1>1. q \in Int /\ n \in 0 .. r - 1 /\ -a = q * r + n
  BY DivMod
<1>2. CeilDiv(a, r) = -q
  BY DEF CeilDiv
<1> HIDE DEF q, n
<1>3. q >= -a
  <2> SUFFICES ASSUME q < -a PROVE FALSE
    BY <1>1
  <2>1. q + 1 \in Int /\ -a \in Int /\ q + 1 <= -a
    BY <1>1
  <2>2. (q + 1) * r <= (-a) * r
    BY <2>1, TimesMonotone
  <2>3. (q + 1) * r = q * r + r
    BY <1>1
  <2>4. (-a) * r <= -a
    <3>1. r - 1 \in Nat
      OBVIOUS
    <3>2. a * (r - 1) \in Nat
      BY <3>1, TimesNat
    <3>3. (-a) * r = -a - a * (r - 1)
      OBVIOUS
    <3> DEFINE w == a * (r - 1)
    <3>4. w \in Nat /\ (-a) * r = -a - w
      BY <3>2, <3>3
    <3> HIDE DEF w
    <3> QED
      BY <3>4
  <2> DEFINE u == q * r
             v == (-a) * r
  <2>5. u \in Int /\ v \in Int /\ u + r <= v /\ v <= -a /\ -a = u + n /\ n \in 0 .. r - 1
    BY <1>1, <2>2, <2>3, <2>4
  <2> HIDE DEF u, v
  <2> QED
    BY <2>5
<1> QED
  BY <1>1, <1>2, <1>3

\* What the elements of a result have taken so far.
Efforts(m, c, d) == [f \in 1 .. m |-> Effort(c, d[f - 1])]

\* The work of a call is the sum over the elements of its result.
LEMMA WorkIsSum ==
  ASSUME NEW m \in Nat, Numel(call.out) = m, \A f \in 0 .. m - 1 : Effort(call, dst[f]) \in Int
  PROVE  Work = CeilDiv(SumFunctionOnSet(Efforts(m, call, dst), 1 .. m), Rate(call))
<1> DEFINE S == 1 .. m
           f == Efforts(m, call, dst)
           id == [d \in S |-> d]
           k == CHOOSE g : g = [U \in SUBSET S |->
                  IF U = {} THEN 0 ELSE g[U \ {Max(U)}] + Effort(call, dst[id[Max(U)] - 1])]
<1>1. IsFiniteSet(S) /\ S \subseteq Int
  <2>1. 1 \in Int /\ m \in Int
    OBVIOUS
  <2>2. IsFiniteSet(1 .. m)
    BY <2>1, FS_Interval
  <2> QED
    BY <2>2
<1>2. \A d \in S : f[d] \in Int /\ f[d] = Effort(call, dst[id[d] - 1])
  <2> SUFFICES ASSUME NEW d \in S PROVE f[d] \in Int /\ f[d] = Effort(call, dst[id[d] - 1])
    OBVIOUS
  <2>1. d - 1 \in 0 .. m - 1 /\ id[d] = d
    OBVIOUS
  <2>2. f[d] = Effort(call, dst[d - 1])
    BY DEF Efforts
  <2> QED
    BY <2>1, <2>2
<1>3. Work = CeilDiv(k[S], Rate(call))
  <2>1. DOMAIN id = S
    OBVIOUS
  <2> QED
    BY <2>1 DEF Work, FoldLeft, MapThenFoldSet
<1>4. \A U \in SUBSET S : U # {} => Max(U) \in S
  BY <1>1, FS_Subset, MaxFacts
<1> HIDE DEF f, id
<1>5. PICK h : Accumulates(S, f, h)
  BY <1>1, <1>2, AddingUp
<1>6. h = [U \in SUBSET S |-> IF U = {} THEN 0 ELSE h[U \ {Max(U)}] + Effort(call, dst[id[Max(U)] - 1])]
  BY <1>2, <1>4, <1>5 DEF Accumulates
<1>7. k = [U \in SUBSET S |-> IF U = {} THEN 0 ELSE k[U \ {Max(U)}] + Effort(call, dst[id[Max(U)] - 1])]
  BY <1>6
<1> HIDE DEF k
<1>8. Accumulates(S, f, k)
  BY <1>2, <1>4, <1>7 DEF Accumulates
<1>9. k[S] = SumFunctionOnSet(f, S)
  BY <1>1, <1>2, <1>8, AddingUp
<1> QED
  BY <1>3, <1>9 DEF f

\* The sum of numbers that are each at most b.
LEMMA SumBounded ==
  ASSUME NEW m \in Nat, NEW b \in Nat, NEW f, \A i \in 1 .. m : f[i] \in Int /\ f[i] <= b
  PROVE  SumFunctionOnSet(f, 1 .. m) \in Int /\ SumFunctionOnSet(f, 1 .. m) <= m * b
<1> DEFINE G == {n \in Nat : n <= m => /\ SumFunctionOnSet(f, 1 .. n) \in Int
                                       /\ SumFunctionOnSet(f, 1 .. n) <= n * b}
<1>1. \A n \in Nat : IsFiniteSet(1 .. n)
  <2> SUFFICES ASSUME NEW n \in Nat PROVE IsFiniteSet(1 .. n)
    OBVIOUS
  <2>1. 1 \in Int /\ n \in Int
    OBVIOUS
  <2> QED
    BY <2>1, FS_Interval
<1>2. 0 \in G
  <2>1. IsFiniteSet(1 .. 0) /\ 1 .. 0 = {}
    BY <1>1
  <2>2. SumFunctionOnSet(f, 1 .. 0) = 0
    BY <2>1, SumFacts
  <2>3. 0 * b = 0
    OBVIOUS
  <2> QED
    BY <2>2, <2>3
<1>3. ASSUME NEW n \in Nat, n \in G PROVE n + 1 \in G
  <2> SUFFICES ASSUME n + 1 <= m
               PROVE  /\ SumFunctionOnSet(f, 1 .. n + 1) \in Int
                      /\ SumFunctionOnSet(f, 1 .. n + 1) <= (n + 1) * b
    OBVIOUS
  <2> DEFINE T == 1 .. n + 1
             x == n + 1
             s == SumFunctionOnSet(f, 1 .. n)
  <2>1. x \in T /\ T \ {x} = 1 .. n /\ IsFiniteSet(T) /\ \A i \in T : f[i] \in Int
    <3>1. n + 1 \in Nat
      OBVIOUS
    <3>2. T \ {x} = 1 .. n /\ x \in T /\ T \subseteq 1 .. m
      OBVIOUS
    <3> QED
      BY <1>1, <3>1, <3>2
  <2> HIDE DEF T, x
  <2>2. SumFunctionOnSet(f, T) = f[x] + SumFunctionOnSet(f, T \ {x})
    BY <2>1, SumFacts
  <2>3. s \in Int /\ s <= n * b
    BY <1>3
  <2>4. f[x] \in Int /\ f[x] <= b
    BY DEF x
  <2>5. SumFunctionOnSet(f, T) = f[x] + s
    BY <2>1, <2>2
  <2>6. (n + 1) * b = n * b + b /\ n * b \in Int
    OBVIOUS
  <2> DEFINE y == n * b
             z == (n + 1) * b
             w == f[x]
             v == SumFunctionOnSet(f, T)
  <2>7. y \in Int /\ z = y + b /\ s \in Int /\ s <= y /\ w \in Int /\ w <= b /\ v = w + s
    BY <2>3, <2>4, <2>5, <2>6
  <2> HIDE DEF y, z, s, w, v
  <2>8. v \in Int /\ v <= z
    BY <2>7
  <2> QED
    BY <2>8 DEF v, z, T
<1> HIDE DEF G
<1>4. m \in G
  BY <1>2, <1>3, NatInductive
<1> QED
  BY <1>4 DEF G

-----------------------------------------------------------------------------
(* An element takes no more than its share of what is charged. *)

\* How much an element can take.
Gemms(c) == c.ins[1][IF c.transA THEN 1 ELSE 2]

Bound(c) ==
  CASE c.kernel \in Batched -> Last(c.ins[1])
    [] c.kernel = "Gemm"    -> Gemms(c)
    [] c.kernel = "Conv"    -> (c.ins[2][2] * c.ins[2][3]) * c.ins[2][4]
    [] c.kernel \in {"MaxPool", "AveragePool"} -> c.window[1] * c.window[2]
    [] c.kernel = "Softmax" -> 3
    [] OTHER                -> 1

Light(c, terms) == Effort(c, terms) \in Nat /\ Effort(c, terms) <= Bound(c)

\* How many numbers are below m.
LEMMA Interval ==
  ASSUME NEW m \in Nat
  PROVE  IsFiniteSet(0 .. m - 1) /\ Cardinality(0 .. m - 1) = m
<1>1. 0 \in Int /\ m - 1 \in Int
  OBVIOUS
<1>2. IsFiniteSet(0 .. m - 1) /\ Cardinality(0 .. m - 1) = IF 0 > m - 1 THEN 0 ELSE m - 1 - 0 + 1
  BY <1>1, FS_Interval
<1> QED
  BY <1>2

\* Products summed, beside a bias.
Pairs(S, g, B) == {t \in {g[k] : k \in S} \cup B : Len(t) = 2}

\* There are no more products than loop counters.
LEMMA PairsFew ==
  ASSUME NEW S, IsFiniteSet(S), NEW g, NEW B, \A t \in B : Len(t) # 2
  PROVE  Cardinality(Pairs(S, g, B)) \in Nat /\ Cardinality(Pairs(S, g, B)) <= Cardinality(S)
<1> DEFINE T == {g[k] : k \in S}
           P == Pairs(S, g, B)
<1>1. IsFiniteSet(T) /\ Cardinality(T) <= Cardinality(S)
  <2>1. T = {g[k] : k \in S}
    OBVIOUS
  <2> HIDE DEF T
  <2> QED
    BY <2>1, ImageCounts
<1>2. P \in SUBSET T
  BY DEF Pairs
<1> HIDE DEF T, P
<1>3. IsFiniteSet(P) /\ Cardinality(P) <= Cardinality(T)
  BY <1>1, <1>2, FS_Subset
<1>4. Cardinality(P) \in Nat /\ Cardinality(T) \in Nat /\ Cardinality(S) \in Nat
  BY <1>1, <1>3, FS_CardinalityType
<1> QED
  BY <1>1, <1>3, <1>4 DEF P

\* A copied or combined element alone; so is what was in a result's place before.
LEMMA OneIsLight ==
  ASSUME NEW c, c.kernel \in Broadcasting \cup Recomputing, NEW t
  PROVE  Light(c, {t})
<1>1. Cardinality({t}) = 1
  BY FS_Singleton
<1>2. Effort(c, {t}) = Cardinality({t}) /\ Bound(c) = 1
  BY DEF Effort, Bound, Broadcasting, Recomputing, Batched, Multiplying
<1> QED
  BY <1>1, <1>2 DEF Light

\* Garbage takes no more than an element.
LEMMA GarbageIsLight ==
  ASSUME NEW c, IsCall(c), c.kernel \in Walking, c.kernel # "ReduceMean"
  PROVE  Light(c, Garbage)
<1>1. CASE c.kernel \in Broadcasting \cup Recomputing
  BY <1>1, OneIsLight DEF Garbage
<1>2. CASE c.kernel \in Batched
  <2>1. {t \in Garbage : Len(t) = 2} = {}
    BY DEF Garbage
  <2>2. Effort(c, Garbage) = Cardinality({})
    BY <1>2, <2>1 DEF Effort, Multiplying, Batched
  <2>3. Cardinality({}) = 0
    BY FS_EmptySet
  <2>4. Bound(c) = Last(c.ins[1])
    BY <1>2 DEF Bound, Batched
  <2>5. Last(c.ins[1]) \in Nat
    <3>1. Shape(c.ins[1]) /\ Len(c.ins[1]) >= 2
      BY <1>2, BatchedFacts
    <3>2. Len(c.ins[1]) \in 1 .. Len(c.ins[1])
      BY <3>1, ShapeFacts
    <3> QED
      BY <3>1, <3>2, ShapeFacts DEF Last
  <2> QED
    BY <2>2, <2>3, <2>4, <2>5 DEF Light
<1> QED
  BY <1>1, <1>2 DEF Walking

\* A matrix element takes as many products as a row has elements.
LEMMA ProductIsLight ==
  ASSUME NEW c, IsCall(c), c.kernel \in Batched, NEW f
  PROVE  Light(c, Product(c, f))
<1> DEFINE K == Last(c.ins[1])
           N == Last(c.out)
           m == (f % (c.out[Len(c.out) - 1] * N)) \div N
           n == f % N
           g == [k \in 0 .. K - 1 |-> <<off[1] + m * K + k, off[2] + k * N + n>>]
           B == IF c.kernel = "MatMul_Add" THEN {<<n>>} ELSE {}
           S == 0 .. K - 1
           P == {t \in Product(c, f) : Len(t) = 2}
<1>1. K \in Nat
  <2>1. Shape(c.ins[1]) /\ Len(c.ins[1]) >= 2
    BY BatchedFacts
  <2> QED
    BY <2>1, ShapeFacts DEF Last
<1>2. Product(c, f) = {g[k] : k \in S} \cup B
  BY DEF Product
<1>3. \A t \in B : Len(t) # 2
  OBVIOUS
<1>4. Effort(c, Product(c, f)) = Cardinality(P) /\ Bound(c) = K
  BY DEF Effort, Bound, Multiplying, Batched
<1> HIDE DEF g, B, K
<1>5. IsFiniteSet(S) /\ Cardinality(S) = K
  BY <1>1, Interval
<1>6. P = Pairs(S, g, B)
  BY <1>2 DEF Pairs
<1> HIDE DEF S, P
<1>7. Cardinality(P) \in Nat /\ Cardinality(P) <= Cardinality(S)
  BY <1>3, <1>5, <1>6, PairsFew
<1> QED
  BY <1>4, <1>5, <1>7 DEF Light

\* So does an element of a general product, besides its bias.
LEMMA GemmIsLight ==
  ASSUME NEW c, IsCall(c), c.kernel = "Gemm", NEW f
  PROVE  Light(c, Terms(c, f))
<1> DEFINE A == c.ins[1]
           M == IF c.transA THEN A[2] ELSE A[1]
           K == IF c.transA THEN A[1] ELSE A[2]
           N == IF c.transB THEN c.ins[2][1] ELSE c.ins[2][2]
           m == f \div N
           n == f % N
           g == [k \in 0 .. K - 1 |-> <<IF c.transA THEN k * M + m ELSE m * K + k,
                                        IF c.transB THEN n * K + k ELSE k * N + n>>]
           B == IF Len(c.ins) > 2 THEN {<<f % Numel(c.ins[3])>>} ELSE {}
           S == 0 .. K - 1
           P == {t \in Terms(c, f) : Len(t) = 2}
<1>1. K \in Nat
  <2>1. Shape(A) /\ Len(A) = 2
    BY CallFacts DEF IsCall, IsGemm, Broadcasting, Batched
  <2> QED
    BY <2>1, ShapeFacts
<1>2. Terms(c, f) = {g[k] : k \in S} \cup B
  BY DEF Terms, Gemm
<1>3. \A t \in B : Len(t) # 2
  OBVIOUS
<1>4. Effort(c, Terms(c, f)) = Cardinality(P) /\ Bound(c) = K
  BY DEF Effort, Bound, Multiplying, Batched, Gemms
<1> HIDE DEF g, B, K
<1>5. IsFiniteSet(S) /\ Cardinality(S) = K
  BY <1>1, Interval
<1>6. P = Pairs(S, g, B)
  BY <1>2 DEF Pairs
<1> HIDE DEF S, P
<1>7. Cardinality(P) \in Nat /\ Cardinality(P) <= Cardinality(S)
  BY <1>3, <1>5, <1>6, PairsFew
<1> QED
  BY <1>4, <1>5, <1>7 DEF Light

\* A convolved element takes a product for each weight of its filter.
LEMMA ConvIsLight ==
  ASSUME NEW c, IsCall(c), c.kernel = "Conv", NEW f
  PROVE  Light(c, Terms(c, f))
<1> DEFINE X == c.ins[1]
           W == c.ins[2]
           at == At(c.out, f)
           Ih(t) == Covered(at[3], c.strides[1], t[2], c.dilations[1], c.pads[1])
           Iw(t) == Covered(at[4], c.strides[2], t[3], c.dilations[2], c.pads[2])
           a == 0 .. W[2] - 1
           b == 0 .. W[3] - 1
           e == 0 .. W[4] - 1
           Taps == {t \in a \X b \X e : Ih(t) \in 0 .. X[3] - 1 /\ Iw(t) \in 0 .. X[4] - 1}
           g == [t \in Taps |-> <<Index(X, <<at[1], FirstChannel(c, at[2]) + t[1], Ih(t), Iw(t)>>),
                                  Index(W, <<at[2], t[1], t[2], t[3]>>)>>]
           B == IF Len(c.ins) > 2 THEN {<<at[2]>>} ELSE {}
           P == {t \in Terms(c, f) : Len(t) = 2}
<1>1. W[2] \in Nat /\ W[3] \in Nat /\ W[4] \in Nat
  <2>1. Shape(W) /\ Len(W) = 4
    BY CallFacts DEF IsCall, IsConv, Broadcasting, Batched
  <2> QED
    BY <2>1, FourCoords
<1>2. Terms(c, f) = {g[t] : t \in Taps} \cup B
  BY DEF Terms, Conv
<1>3. \A t \in B : Len(t) # 2
  OBVIOUS
<1>4. Effort(c, Terms(c, f)) = Cardinality(P) /\ Bound(c) = (W[2] * W[3]) * W[4]
  BY DEF Effort, Bound, Multiplying, Batched
<1>5. Taps \in SUBSET (a \X b \X e)
  OBVIOUS
<1>6. P = Pairs(Taps, g, B)
  BY <1>2 DEF Pairs
<1> HIDE DEF g, B, Taps, P, W
<1>7. IsFiniteSet((a \X b) \X e) /\ Cardinality((a \X b) \X e) = (W[2] * W[3]) * W[4]
  <2>1. /\ IsFiniteSet(a) /\ Cardinality(a) = W[2] /\ IsFiniteSet(b) /\ Cardinality(b) = W[3]
        /\ IsFiniteSet(e) /\ Cardinality(e) = W[4]
    BY <1>1, Interval
  <2> HIDE DEF a, b, e
  <2>2. IsFiniteSet(a \X b) /\ Cardinality(a \X b) = W[2] * W[3]
    BY <2>1, FS_Product
  <2> DEFINE U == a \X b
  <2>3. IsFiniteSet(U) /\ Cardinality(U) = W[2] * W[3]
    BY <2>2
  <2> HIDE DEF U
  <2>4. IsFiniteSet(U \X e) /\ Cardinality(U \X e) = Cardinality(U) * Cardinality(e)
    BY <2>1, <2>3, FS_Product
  <2> QED
    BY <2>1, <2>3, <2>4 DEF U
<1> HIDE DEF a, b, e
<1>8. IsFiniteSet(a \X b \X e) /\ Cardinality(a \X b \X e) <= Cardinality((a \X b) \X e)
  <2> DEFINE R == (a \X b) \X e
             h == [p \in R |-> <<p[1][1], p[1][2], p[2]>>]
             Q == a \X b \X e
  <2>1. Q = {h[p] : p \in R}
    <3>1. ASSUME NEW q \in Q PROVE \E p \in R : q = h[p]
      <4>1. <<<<q[1], q[2]>>, q[3]>> \in R
        OBVIOUS
      <4>2. h[<<<<q[1], q[2]>>, q[3]>>] = <<q[1], q[2], q[3]>>
        BY <4>1
      <4>3. q = <<q[1], q[2], q[3]>>
        OBVIOUS
      <4> QED
        BY <4>1, <4>2, <4>3
    <3>2. ASSUME NEW p \in R PROVE h[p] \in Q
      OBVIOUS
    <3> QED
      BY <3>1, <3>2
  <2>2. IsFiniteSet(R)
    BY <1>7
  <2> HIDE DEF R, h, Q
  <2>3. IsFiniteSet(Q) /\ Cardinality(Q) <= Cardinality(R)
    BY <2>1, <2>2, ImageCounts
  <2> QED
    BY <2>3 DEF Q, R
<1>9. IsFiniteSet(Taps) /\ Cardinality(Taps) <= Cardinality(a \X b \X e)
  BY <1>5, <1>8, FS_Subset
<1>10. Cardinality(P) \in Nat /\ Cardinality(P) <= Cardinality(Taps)
  BY <1>3, <1>6, <1>9, PairsFew
<1>11. Cardinality(Taps) \in Nat /\ Cardinality(a \X b \X e) \in Nat /\ Cardinality((a \X b) \X e) \in Nat
  BY <1>7, <1>8, <1>9, FS_CardinalityType
<1>12. Cardinality(P) <= (W[2] * W[3]) * W[4]
  <2> DEFINE w == (W[2] * W[3]) * W[4]
  <2>1. Cardinality((a \X b) \X e) = w
    BY <1>7
  <2> HIDE DEF w
  <2>2. Cardinality(P) <= w
    BY <1>8, <1>9, <1>10, <1>11, <2>1
  <2> QED
    BY <2>2 DEF w
<1> QED
  BY <1>4, <1>10, <1>12 DEF Light

\* A pooled element takes a read for each element of its window.
LEMMA PoolIsLight ==
  ASSUME NEW c, IsCall(c), c.kernel \in {"MaxPool", "AveragePool"}, NEW f
  PROVE  Light(c, Terms(c, f))
<1> DEFINE X == c.ins[1]
           at == At(c.out, f)
           Stride(d) == IF c.strides[d] = 0 THEN c.window[d] ELSE c.strides[d]
           Ih(t) == Covered(at[3], Stride(1), t[1], 1, c.pads[1])
           Iw(t) == Covered(at[4], Stride(2), t[2], 1, c.pads[2])
           T == Window(c)
           Taps == {t \in T : Ih(t) \in 0 .. X[3] - 1 /\ Iw(t) \in 0 .. X[4] - 1}
           g == [t \in Taps |-> <<Index(X, <<at[1], at[2], Ih(t), Iw(t)>>)>>]
           P == Terms(c, f)
           w == c.window[1] * c.window[2]
<1>1. c.window[1] \in Nat /\ c.window[2] \in Nat
  <2>1. IsPool(c) /\ {1, 2} = 1 .. 2
    BY DEF IsCall, Broadcasting, Batched
  <2> QED
    BY <2>1 DEF IsPool, Positive
<1>2. P = {g[t] : t \in Taps}
  BY DEF Terms, Pool, Window
<1>3. Effort(c, P) = Cardinality(P) /\ Bound(c) = w
  BY DEF Effort, Bound, Multiplying, Batched
<1>4. Taps \in SUBSET T
  OBVIOUS
<1>5. IsFiniteSet(T) /\ Cardinality(T) = w
  <2> DEFINE a == 0 .. c.window[1] - 1
             b == 0 .. c.window[2] - 1
  <2>1. /\ IsFiniteSet(a) /\ Cardinality(a) = c.window[1]
        /\ IsFiniteSet(b) /\ Cardinality(b) = c.window[2]
    BY <1>1, Interval
  <2>2. T = a \X b
    BY DEF Window
  <2> HIDE DEF a, b
  <2> QED
    BY <2>1, <2>2, FS_Product
<1> HIDE DEF g, Taps, T, P, w
<1>6. IsFiniteSet(Taps) /\ Cardinality(Taps) <= Cardinality(T)
  BY <1>4, <1>5, FS_Subset
<1>7. IsFiniteSet(P) /\ Cardinality(P) <= Cardinality(Taps)
  BY <1>2, <1>6, ImageCounts
<1>8. Cardinality(P) \in Nat /\ Cardinality(Taps) \in Nat /\ Cardinality(T) \in Nat
  BY <1>5, <1>6, <1>7, FS_CardinalityType
<1>9. Effort(c, P) \in Nat /\ Effort(c, P) <= Bound(c)
  BY <1>3, <1>5, <1>6, <1>7, <1>8
<1> QED
  BY <1>9 DEF Light, P

\* The operands of a concatenation follow one another.
LEMMA AheadGrows ==
  ASSUME NEW c, NEW a, NEW n \in Nat, \A k \in 1 .. n : c.ins[k][a] \in Nat,
         NEW i \in 1 .. n, NEW j \in 1 .. n, i < j
  PROVE  Ahead(c, a, i) + c.ins[i][a] <= Ahead(c, a, j)
<1> DEFINE F(m) == [k \in 1 .. m |-> c.ins[k][a]]
           S(m) == SumFunctionOnSet(F(m), 1 .. m)
<1>1. ASSUME NEW m \in 0 .. n PROVE Ahead(c, a, m + 1) = S(m) /\ S(m) \in Int
  <2>1. m \in Nat /\ \A k \in 1 .. m : c.ins[k][a] \in Int
    OBVIOUS
  <2>2. Ahead(c, a, m + 1) = S(m)
    BY <2>1, AheadIsSum
  <2>3. IsFiniteSet(1 .. m)
    <3>1. 1 \in Int /\ m \in Int
      OBVIOUS
    <3> QED
      BY <3>1, FS_Interval
  <2>4. \A k \in 1 .. m : F(m)[k] \in Int
    BY <2>1
  <2> HIDE DEF F
  <2> QED
    BY <2>2, <2>3, <2>4, SumFacts
<1>2. ASSUME NEW m \in 1 .. n PROVE Ahead(c, a, m + 1) = Ahead(c, a, m) + c.ins[m][a]
  <2>1. IsFiniteSet(1 .. m) /\ m \in 1 .. m /\ (1 .. m) \ {m} = 1 .. (m - 1) /\ IsFiniteSet(1 .. (m - 1))
    <3>1. 1 \in Int /\ m \in Int /\ m - 1 \in Int
      OBVIOUS
    <3>2. IsFiniteSet(1 .. m) /\ IsFiniteSet(1 .. (m - 1))
      BY <3>1, FS_Interval
    <3> QED
      BY <3>2
  <2>2. m - 1 \in 0 .. n /\ m \in 0 .. n /\ (m - 1) + 1 = m
    OBVIOUS
  <2>3. Ahead(c, a, m) = S(m - 1) /\ Ahead(c, a, m + 1) = S(m) /\ S(m - 1) \in Int /\ c.ins[m][a] \in Int
    BY <1>1, <2>2
  <2>4. \A k \in 1 .. m : F(m)[k] \in Int
    OBVIOUS
  <2>5. F(m)[m] = c.ins[m][a]
    OBVIOUS
  <2>6. S(m) = F(m)[m] + SumFunctionOnSet(F(m), (1 .. m) \ {m})
    <3> HIDE DEF F
    <3> QED
      BY <2>1, <2>4, SumFacts
  <2>7. SumFunctionOnSet(F(m), 1 .. (m - 1)) = S(m - 1)
    <3>1. \A k \in 1 .. (m - 1) : F(m - 1)[k] \in Int /\ F(m)[k] = F(m - 1)[k]
      OBVIOUS
    <3> HIDE DEF F
    <3> QED
      BY <2>1, <3>1, SumEqual
  <2>8. S(m) = c.ins[m][a] + S(m - 1)
    BY <2>1, <2>5, <2>6, <2>7
  <2> HIDE DEF S
  <2> QED
    BY <2>3, <2>8
<1> HIDE DEF F, S
<1>3. \A m \in 1 .. n : Ahead(c, a, m) \in Int
  <2> SUFFICES ASSUME NEW m \in 1 .. n PROVE Ahead(c, a, m) \in Int
    OBVIOUS
  <2>1. m - 1 \in 0 .. n /\ (m - 1) + 1 = m
    OBVIOUS
  <2> QED
    BY <1>1, <2>1
<1> DEFINE G == {m \in Nat : i + 1 + m <= n => Ahead(c, a, i + 1) <= Ahead(c, a, i + 1 + m)}
<1>4. 0 \in G
  <2>1. i + 1 <= n /\ i + 1 + 0 = i + 1
    OBVIOUS
  <2>2. Ahead(c, a, i + 1) \in Int
    BY <1>3, <2>1
  <2> QED
    BY <2>1, <2>2
<1>5. ASSUME NEW m \in Nat, m \in G PROVE m + 1 \in G
  <2> SUFFICES ASSUME i + 1 + (m + 1) <= n
               PROVE  Ahead(c, a, i + 1) <= Ahead(c, a, i + 1 + (m + 1))
    OBVIOUS
  <2> DEFINE l == i + 1 + m
  <2>1. l \in 1 .. n /\ i + 1 \in 1 .. n /\ i + 1 + (m + 1) = l + 1 /\ l + 1 \in 1 .. n
    OBVIOUS
  <2>2. Ahead(c, a, i + 1) <= Ahead(c, a, l)
    BY <1>5
  <2> HIDE DEF l
  <2>3. Ahead(c, a, l + 1) = Ahead(c, a, l) + c.ins[l][a] /\ c.ins[l][a] \in Nat
    BY <1>2, <2>1
  <2>4. Ahead(c, a, i + 1) \in Int /\ Ahead(c, a, l) \in Int
    BY <1>3, <2>1
  <2> QED
    BY <2>1, <2>2, <2>3, <2>4
<1> HIDE DEF G
<1>6. j - i - 1 \in G
  <2>1. j - i - 1 \in Nat
    OBVIOUS
  <2> QED
    BY <1>4, <1>5, <2>1, NatInductive
<1>7. Ahead(c, a, i + 1) <= Ahead(c, a, j)
  <2>1. i + 1 + (j - i - 1) = j
    OBVIOUS
  <2> QED
    BY <1>6, <2>1 DEF G
<1>8. Ahead(c, a, i + 1) = Ahead(c, a, i) + c.ins[i][a]
  BY <1>2
<1> QED
  BY <1>7, <1>8

\* A concatenated element is one element.
LEMMA ConcatIsLight ==
  ASSUME NEW c, IsCall(c), c.kernel = "Concat", NEW f \in Nat
  PROVE  Light(c, Terms(c, f))
<1> DEFINE a == Axis(c.axis, Len(c.out)) + 1
           w == RowMajor(c.out)[a]
           o == f \div (c.out[a] * w)
           Base(i) == (o * c.out[a] + Ahead(c, a, i)) * w
           Chunk(i) == c.ins[i][a] * w
           N == {k \in DOMAIN c.ins : f \in Base(k) .. Base(k) + Chunk(k) - 1}
           P == Terms(c, f)
<1>1. /\ \A k \in DOMAIN c.ins : c.ins[k][a] \in Nat /\ Ahead(c, a, k) \in Int
      /\ a \in 1 .. Len(c.out) /\ DOMAIN c.ins = 1 .. Len(c.ins) /\ Len(c.ins) \in Nat
  BY ConcatFacts
<1>2. Shape(c.out)
  BY CallFacts
<1>3. c.out[a] \in Nat /\ c.out[a] > 0 /\ w \in Nat /\ w > 0
  <2>1. c.out[a] \in Nat /\ c.out[a] > 0
    BY <1>1, <1>2, ShapeFacts
  <2>2. /\ \A d \in 0 .. Len(c.out) : Weight(c.out)[d] \in Nat /\ Weight(c.out)[d] > 0
        /\ \A d \in 1 .. Len(c.out) : RowMajor(c.out)[d] = Weight(c.out)[d]
    BY <1>2, WeightsOfShape
  <2>3. \A d \in 1 .. Len(c.out) : d \in 0 .. Len(c.out)
    BY <1>2, ShapeFacts
  <2> QED
    BY <1>1, <2>1, <2>2, <2>3
<1>4. P = {<<i, o * Chunk(i) + f - Base(i)>> : i \in N}
  BY DEF Terms, Concat, Ahead
<1>5. Effort(c, P) = Cardinality(P) /\ Bound(c) = 1
  BY DEF Effort, Bound, Multiplying, Batched
<1>6. o \in Int /\ o * c.out[a] \in Int
  <2>1. c.out[a] * w \in Nat /\ c.out[a] * w > 0
    BY <1>3, TimesNat
  <2> DEFINE q == c.out[a] * w
  <2>2. f \div q \in Int
    <3> HIDE DEF q
    <3> QED
      BY <2>1, DivMod DEF q
  <2>3. o \in Int
    BY <2>2
  <2> HIDE DEF o
  <2> QED
    BY <1>3, <2>3
<1> DEFINE b == o * c.out[a]
<1>7. b \in Int
  BY <1>6
<1> HIDE DEF o, w, a
<1>8. ASSUME NEW i \in N, NEW j \in N, i < j PROVE FALSE
  <2>1. i \in 1 .. Len(c.ins) /\ j \in 1 .. Len(c.ins)
    BY <1>1
  <2>2. Ahead(c, a, i) + c.ins[i][a] <= Ahead(c, a, j)
    BY <1>1, <1>8, <2>1, AheadGrows
  <2> DEFINE u == Ahead(c, a, i)
             v == Ahead(c, a, j)
             e == c.ins[i][a]
  <2>3. u \in Int /\ v \in Int /\ e \in Nat /\ u + e <= v
    BY <1>1, <2>1, <2>2
  <2>4. f < Base(i) + Chunk(i) /\ Base(j) <= f /\ Base(i) \in Int /\ Chunk(i) \in Int /\ Base(j) \in Int
    <3>1. Base(i) = (b + u) * w /\ Base(j) = (b + v) * w /\ Chunk(i) = e * w
      OBVIOUS
    <3> HIDE DEF b, u, v, e
    <3>2. (b + u) * w \in Int /\ (b + v) * w \in Int /\ e * w \in Int
      BY <1>3, <1>7, <2>3
    <3>3. f \in Base(i) .. Base(i) + Chunk(i) - 1 /\ f \in Base(j) .. Base(j) + Chunk(j) - 1
      OBVIOUS
    <3> HIDE DEF Base, Chunk
    <3>4. Base(i) \in Int /\ Chunk(i) \in Int /\ Base(j) \in Int
      BY <3>1, <3>2
    <3> QED
      BY <3>3, <3>4
  <2>5. Base(i) + Chunk(i) <= Base(j)
    <3>1. Base(i) = (b + u) * w /\ Base(j) = (b + v) * w /\ Chunk(i) = e * w
      OBVIOUS
    <3> HIDE DEF b, u, v, e, Base, Chunk
    <3>2. b + u + e \in Int /\ b + v \in Int /\ b + u + e <= b + v
      BY <1>7, <2>3
    <3>3. (b + u + e) * w <= (b + v) * w
      BY <1>3, <3>2, TimesMonotone
    <3> DEFINE p == b + u
    <3>4. p \in Int /\ b + u + e = p + e
      BY <1>7, <2>3
    <3> HIDE DEF p
    <3>5. (p + e) * w = p * w + e * w
      BY <1>3, <2>3, <3>4
    <3> QED
      BY <3>1, <3>3, <3>4, <3>5 DEF p
  <2> HIDE DEF Base, Chunk
  <2> QED
    BY <2>4, <2>5
<1>9. \A i, j \in N : i = j
  <2> SUFFICES ASSUME NEW i \in N, NEW j \in N PROVE i = j
    OBVIOUS
  <2>1. i \in Int /\ j \in Int
    BY <1>1
  <2>2. ~(i < j) /\ ~(j < i)
    BY <1>8
  <2> QED
    BY <2>1, <2>2
<1> HIDE DEF N, Base, Chunk
<1>10. CASE N = {}
  <2>1. P = {}
    BY <1>4, <1>10
  <2>2. Cardinality(P) = 0
    BY <2>1, FS_EmptySet
  <2> QED
    BY <1>5, <2>2 DEF Light
<1>11. CASE N # {}
  <2>1. PICK i : N = {i}
    BY <1>9, <1>11
  <2>2. P = {<<i, o * Chunk(i) + f - Base(i)>>}
    BY <1>4, <2>1
  <2>3. Cardinality(P) = 1
    BY <2>2, FS_Singleton
  <2> QED
    BY <1>5, <2>3 DEF Light
<1> QED
  BY <1>10, <1>11

-----------------------------------------------------------------------------
(* What a row is charged. *)

\* At least one per dimension is what a shape has.
LEMMA AtLeastOneIs ==
  ASSUME NEW s, Shape(s)
  PROVE  AtLeastOne(s) = Numel(s)
<1>1. s = [d \in DOMAIN s |-> s[d]]
  BY DEF Shape
<1>2. ASSUME NEW d \in DOMAIN s PROVE Max({s[d], 1}) = s[d]
  <2> DEFINE v == s[d]
  <2>1. v \in Nat /\ v >= 1
    BY ShapeFacts
  <2> HIDE DEF v
  <2>2. IsFiniteSet({v, 1}) /\ {v, 1} # {} /\ {v, 1} \subseteq Int
    <3>1. IsFiniteSet({v} \cup {1})
      BY FS_Singleton, FS_Union
    <3>2. {v} \cup {1} = {v, 1}
      OBVIOUS
    <3> QED
      BY <2>1, <3>1, <3>2
  <2>3. Max({v, 1}) \in {v, 1} /\ \A y \in {v, 1} : y <= Max({v, 1})
    BY <2>2, MaxFacts
  <2>4. Max({v, 1}) = v
    BY <2>1, <2>3
  <2> QED
    BY <2>4 DEF v
<1>3. [d \in DOMAIN s |-> Max({s[d], 1})] = s
  BY <1>1, <1>2
<1> QED
  BY <1>3 DEF AtLeastOne

\* A shape has a natural number of elements.
LEMMA NumelNatural ==
  ASSUME NEW s, Shape(s)
  PROVE  Numel(s) \in Nat
BY WeightsOfShape, ShapeFacts

\* The elements of a batch of images.
LEMMA NumelOfFour ==
  ASSUME NEW s, Shape(s), Len(s) = 4
  PROVE  Numel(s) = ((s[1] * s[2]) * s[3]) * s[4]
<1>1. \A d \in 1 .. 4 : s[d] \in Nat
  BY FourCoords
<1>2. /\ Weight(s)[4] = 1 /\ Weight(s)[0] = Numel(s)
      /\ \A d \in 1 .. 4 : Weight(s)[d - 1] = s[d] * Weight(s)[d]
  BY WeightsOfShape
<1>3. 4 - 1 = 3 /\ 3 - 1 = 2 /\ 2 - 1 = 1 /\ 1 - 1 = 0
  OBVIOUS
<1>4. s[1] \in Nat /\ s[2] \in Nat /\ s[3] \in Nat /\ s[4] \in Nat
  BY <1>1
<1>5. Weight(s)[3] = s[4] * 1 /\ Weight(s)[2] = s[3] * Weight(s)[3]
      /\ Weight(s)[1] = s[2] * Weight(s)[2] /\ Weight(s)[0] = s[1] * Weight(s)[1]
  <2>1. Weight(s)[4 - 1] = s[4] * Weight(s)[4] /\ Weight(s)[3 - 1] = s[3] * Weight(s)[3]
        /\ Weight(s)[2 - 1] = s[2] * Weight(s)[2] /\ Weight(s)[1 - 1] = s[1] * Weight(s)[1]
    BY <1>2
  <2> QED
    BY <1>2, <1>3, <2>1
<1>6. ASSUME NEW a \in Nat, NEW b \in Nat, NEW i \in Nat, NEW j \in Nat
      PROVE  a * (b * (i * (j * 1))) = ((a * b) * i) * j
  OBVIOUS
<1>7. Numel(s) = s[1] * (s[2] * (s[3] * (s[4] * 1)))
  BY <1>2, <1>5
<1> QED
  BY <1>4, <1>6, <1>7

\* A batch of matrices.
LEMMA MatrixNumel ==
  ASSUME NEW s, Shape(s), Len(s) >= 2
  PROVE  /\ Numel(s) = Numel(BatchShape(s)) * (s[Len(s) - 1] * Last(s))
         /\ Numel(s) = Numel(Front(s)) * Last(s)
         /\ Numel(BatchShape(s)) \in Nat /\ Numel(Front(s)) \in Nat /\ Shape(Front(s))
         /\ s[Len(s) - 1] \in Nat /\ Last(s) \in Nat
<1> DEFINE n == Len(s)
<1>1. s \in Seq(Nat) /\ n \in Nat /\ n >= 2
  BY ShapeFacts
<1>2. n - 2 \in 0 .. n /\ n - 1 \in 0 .. n /\ n - 1 \in 1 .. n /\ n \in 1 .. n /\ (n - 1) - 1 = n - 2
      /\ (n - 2) + 1 = n - 1 /\ (n - 1) + 1 = n
  BY <1>1
<1>3. s[n] \in Nat /\ s[n - 1] \in Nat /\ Last(s) = s[n]
  BY <1>2, ShapeFacts DEF Last
<1>4. Numel(SubSeq(s, n - 1, n)) = s[n - 1] * s[n] /\ Numel(SubSeq(s, n, n)) = s[n]
  <2>1. \A d \in 0 .. n : Weight(s)[d] = Numel(SubSeq(s, d + 1, n))
    BY DEF Weight
  <2>2. /\ Weight(s)[n] = 1
        /\ \A d \in 1 .. n : Weight(s)[d - 1] = s[d] * Weight(s)[d]
    BY WeightsOfShape
  <2>3. Weight(s)[n - 1] = s[n] * 1 /\ Weight(s)[(n - 1) - 1] = s[n - 1] * Weight(s)[n - 1]
    BY <1>2, <2>2
  <2>4. Weight(s)[n - 1] = Numel(SubSeq(s, (n - 1) + 1, n))
        /\ Weight(s)[n - 2] = Numel(SubSeq(s, (n - 2) + 1, n))
    BY <1>2, <2>1
  <2>5. s[n] * 1 = s[n]
    BY <1>3
  <2> QED
    BY <1>2, <2>3, <2>4, <2>5
<1>5. Numel(s) = Numel(BatchShape(s)) * Numel(SubSeq(s, n - 1, n)) /\ Numel(BatchShape(s)) \in Nat
  BY <1>1, <1>2, NumelSplits DEF BatchShape
<1>6. Numel(s) = Numel(Front(s)) * Numel(SubSeq(s, n, n)) /\ Numel(Front(s)) \in Nat
  BY <1>1, <1>2, NumelSplits DEF Front
<1>7. Shape(Front(s))
  BY <1>2, Prefix DEF Shape, Front
<1> QED
  BY <1>3, <1>4, <1>5, <1>6, <1>7

\* The order of four factors.
LEMMA Factors4 ==
  ASSUME NEW a \in Nat, NEW b \in Nat, NEW i \in Nat, NEW j \in Nat
  PROVE  (a * (b * i)) * j = (a * (b * j)) * i
OBVIOUS

\* A kernel is charged for as much as each of its elements can take.
LEMMA ChargesAll ==
  ASSUME NEW c, IsCall(c), c.kernel \in Multiplying, BatchOfFirst(c)
  PROVE  /\ Estimate(c) = CeilDiv(Numel(c.out) * Bound(c), MacsPerCycle)
         /\ Numel(c.out) \in Nat /\ Bound(c) \in Nat
<1> DEFINE m == Numel(c.out)
<1>0. Shape(c.out) /\ Shape(c.ins[1])
  BY CallFacts
<1>1. CASE c.kernel \in Batched
  <2> DEFINE A == c.ins[1]
             K == Last(A)
             N == Last(c.out)
             M == c.out[Len(c.out) - 1]
             B == Numel(BatchShape(c.out))
             F == Numel(Front(A))
  <2>1. /\ Len(A) >= 2 /\ Len(c.out) >= 2 /\ A[Len(A) - 1] = M /\ Last(c.ins[2]) = N
    BY <1>1, BatchedFacts DEF Last
  <2>2. Numel(BatchShape(A)) = B
    BY <1>1 DEF BatchOfFirst
  <2>3. m = B * (M * N) /\ B \in Nat /\ M \in Nat /\ N \in Nat
    BY <1>0, <2>1, MatrixNumel
  <2>4. F * K = B * (M * K) /\ Shape(Front(A)) /\ K \in Nat /\ F \in Nat
    BY <1>0, <2>1, <2>2, MatrixNumel
  <2>5. BatchedMacs(A, c.ins[2]) = (F * K) * N
    BY <2>1, <2>4, AtLeastOneIs DEF BatchedMacs
  <2>6. Bound(c) = K /\ Estimate(c) = CeilDiv(BatchedMacs(A, c.ins[2]), MacsPerCycle)
    BY <1>1 DEF Bound, Estimate, Batched
  <2> HIDE DEF m, A, K, N, M, B, F
  <2>7. (B * (M * K)) * N = (B * (M * N)) * K
    BY <2>3, <2>4, Factors4
  <2>8. (F * K) * N = m * K
    BY <2>3, <2>4, <2>7
  <2>9. m \in Nat
    BY <2>3, TimesNat
  <2> QED
    BY <2>4, <2>5, <2>6, <2>8, <2>9 DEF m
<1>2. CASE c.kernel = "Gemm"
  <2> DEFINE A == c.ins[1]
             N == c.out[2]
             M == c.out[1]
             K == Gemms(c)
  <2>1. IsGemm(c) /\ c.transA \in BOOLEAN /\ Len(A) = 2 /\ Len(c.out) = 2
    BY <1>2 DEF IsCall, IsGemm, Broadcasting, Batched
  <2>2. M = A[IF c.transA THEN 2 ELSE 1] /\ N = c.ins[2][IF c.transB THEN 1 ELSE 2]
        /\ K = A[IF c.transA THEN 1 ELSE 2]
    BY <2>1 DEF IsGemm, Gemms
  <2>3. m = M * N /\ A[1] \in Nat /\ A[2] \in Nat /\ M \in Nat /\ N \in Nat
    <3>1. 1 \in 1 .. 2 /\ 2 \in 1 .. 2
      OBVIOUS
    <3>2. \A d \in 1 .. 2 : A[d] \in Nat /\ c.out[d] \in Nat
      BY <1>0, <2>1, ShapeFacts
    <3> QED
      BY <1>0, <2>1, <3>1, <3>2, NumelOfTwo
  <2>4. GemmMacs(c) = (A[1] * A[2]) * N
    BY <2>2 DEF GemmMacs
  <2>5. Bound(c) = K /\ Estimate(c) = CeilDiv(GemmMacs(c), MacsPerCycle)
    BY <1>2 DEF Bound, Estimate, Batched
  <2>6. K \in Nat /\ (A[1] * A[2]) * N = (M * K) * N
    <3>1. CASE c.transA
      <4>1. M = A[2] /\ K = A[1]
        BY <2>2, <3>1
      <4>2. A[1] * A[2] = A[2] * A[1]
        BY <2>3
      <4> QED
        BY <2>3, <4>1, <4>2
    <3>2. CASE ~c.transA
      BY <2>2, <2>3, <3>2
    <3> QED
      BY <3>1, <3>2
  <2> HIDE DEF M, N, K, A, m
  <2>7. (M * K) * N = (M * N) * K
    BY <2>3, <2>6
  <2>8. GemmMacs(c) = m * K /\ m \in Nat
    BY <2>3, <2>4, <2>6, <2>7, TimesNat
  <2> QED
    BY <2>5, <2>6, <2>8 DEF m
<1>3. CASE c.kernel = "Conv"
  <2> DEFINE o == c.out
             W == c.ins[2]
             w == (W[2] * W[3]) * W[4]
  <2>1. Len(o) = 4 /\ Len(W) = 4 /\ Shape(W) /\ W[1] = o[2]
    BY <1>3, CallFacts DEF IsCall, IsConv, Broadcasting, Batched
  <2>2. \A d \in 1 .. 4 : o[d] \in Nat /\ W[d] \in Nat
    BY <1>0, <2>1, FourCoords
  <2>3. m = ((o[1] * o[2]) * o[3]) * o[4]
    BY <1>0, <2>1, NumelOfFour
  <2>4. ConvMacs(c) = o[1] * W[1] * o[3] * o[4] * W[2] * W[3] * W[4]
    BY DEF ConvMacs
  <2>5. Bound(c) = w /\ Estimate(c) = CeilDiv(ConvMacs(c), MacsPerCycle)
    BY <1>3 DEF Bound, Estimate, Batched
  <2>6. o[1] \in Nat /\ o[2] \in Nat /\ o[3] \in Nat /\ o[4] \in Nat
        /\ W[2] \in Nat /\ W[3] \in Nat /\ W[4] \in Nat
    BY <2>2
  <2>7. m \in Nat
    BY <1>0, NumelNatural
  <2>8. ConvMacs(c) = m * W[2] * W[3] * W[4]
    BY <2>1, <2>3, <2>4
  <2> HIDE DEF m, o, W
  <2>9. ASSUME NEW n \in Nat, NEW a \in Nat, NEW b \in Nat, NEW e \in Nat
        PROVE  n * a * b * e = n * ((a * b) * e) /\ (a * b) * e \in Nat
    OBVIOUS
  <2>10. ConvMacs(c) = m * w /\ w \in Nat
    BY <2>6, <2>7, <2>8, <2>9
  <2> QED
    BY <2>5, <2>7, <2>10 DEF m
<1> QED
  BY <1>1, <1>2, <1>3 DEF Multiplying

\* What is left to charge: elements written or read.
LEMMA ChargesElements ==
  ASSUME NEW c, IsCall(c), c.kernel \notin Multiplying \cup {"ReduceMean", "GlobalAveragePool"},
         NEW w \in Int, w <= Numel(c.out) * Bound(c)
  PROVE  CeilDiv(w, ElemsPerCycle) <= Estimate(c)
<1> DEFINE m == Numel(c.out)
           E == ElemsPerCycle
<1>1. Shape(c.out) /\ m \in Nat /\ AtLeastOne(c.out) = m
  BY CallFacts, NumelNatural, AtLeastOneIs
<1>2. E \in Nat /\ E > 0
  BY RatesAssumption
<1>3. CASE c.kernel \in {"MaxPool", "AveragePool"}
  <2> DEFINE a == c.window[1]
             b == c.window[2]
  <2>1. a \in Nat /\ b \in Nat
    <3>1. IsPool(c) /\ {1, 2} = 1 .. 2
      BY <1>3 DEF IsCall, Broadcasting, Batched
    <3> QED
      BY <3>1 DEF IsPool, Positive
  <2>2. Bound(c) = a * b /\ Estimate(c) = CeilDiv(AtLeastOne(c.out) * a * b, E)
    BY <1>3 DEF Bound, Estimate, Batched
  <2> HIDE DEF m, a, b, E
  <2>3. (m * a) * b = m * (a * b) /\ a * b \in Nat /\ m * (a * b) \in Int
    BY <1>1, <2>1, TimesAssociates, TimesNat
  <2> DEFINE p == m * (a * b)
  <2>4. w <= p /\ p \in Int /\ Estimate(c) = CeilDiv(p, E)
    BY <1>1, <2>2, <2>3 DEF m
  <2> HIDE DEF p
  <2>5. CeilDiv(w, E) <= CeilDiv(p, E)
    BY <1>2, <2>4, CeilGrows
  <2> QED
    BY <1>1, <2>2, <2>3, <2>4, <2>5 DEF E, m
<1>4. CASE c.kernel = "Softmax"
  <2>1. c.out = c.ins[1]
    BY <1>4 DEF IsCall, Broadcasting, Batched
  <2>2. Bound(c) = 3 /\ Estimate(c) = m * 3
    BY <1>1, <1>4, <2>1 DEF Bound, Estimate, Batched
  <2> DEFINE p == m * 3
  <2>3. p \in Nat /\ w <= p
    BY <1>1, <2>2
  <2> HIDE DEF p, E
  <2>4. CeilDiv(w, E) <= CeilDiv(p, E) /\ CeilDiv(p, E) <= p
        /\ CeilDiv(w, E) \in Int /\ CeilDiv(p, E) \in Int
    BY <1>2, <2>3, CeilGrows, CeilShrinks
  <2>5. CeilDiv(w, E) <= p
    BY <2>3, <2>4
  <2> QED
    BY <1>1, <2>2, <2>5 DEF p, E
<1>5. CASE c.kernel \notin {"MaxPool", "AveragePool", "Softmax"}
  <2>1. Bound(c) = 1
    BY <1>5 DEF Bound, Multiplying, Batched
  <2>2. w <= m
    BY <1>1, <2>1
  <2>3. CeilDiv(w, E) <= CeilDiv(m, E) /\ CeilDiv(w, E) \in Int /\ CeilDiv(m, E) \in Int
    BY <1>1, <1>2, <2>2, CeilGrows
  <2>4. CASE c.kernel = "Slice"
    <3>1. Estimate(c) = CeilDiv(m, E)
      BY <1>1, <2>4 DEF Estimate, Batched
    <3> QED
      BY <1>1, <2>1, <2>3, <3>1
  <2>5. CASE c.kernel # "Slice"
    <3> DEFINE v == CeilDiv(m, E)
    <3>1. Estimate(c) = Max({1, v})
      BY <1>1, <1>5, <2>5 DEF Estimate, Multiplying, Batched
    <3> HIDE DEF v
    <3>2. v \in Int
      BY <2>3 DEF v
    <3>3. IsFiniteSet({1, v}) /\ {1, v} # {} /\ {1, v} \subseteq Int
      <4>1. IsFiniteSet({1} \cup {v})
        BY FS_Singleton, FS_Union
      <4>2. {1} \cup {v} = {1, v}
        OBVIOUS
      <4> QED
        BY <3>2, <4>1, <4>2
    <3>4. Max({1, v}) \in Int /\ v <= Max({1, v})
      BY <3>3, MaxFacts
    <3>5. CeilDiv(w, E) <= Estimate(c)
      BY <2>3, <3>1, <3>2, <3>4 DEF v
    <3> QED
      BY <1>1, <2>1, <3>5
  <2> QED
    BY <2>4, <2>5
<1> QED
  BY <1>3, <1>4, <1>5

\* A share is a natural number.
LEMMA BoundNatural ==
  ASSUME NEW c, IsCall(c), BatchOfFirst(c)
  PROVE  Bound(c) \in Nat
<1>1. CASE c.kernel \in Multiplying
  BY <1>1, ChargesAll
<1>2. CASE c.kernel \in {"MaxPool", "AveragePool"}
  <2>1. IsPool(c) /\ {1, 2} = 1 .. 2
    BY <1>2 DEF IsCall, Broadcasting, Batched
  <2>2. c.window[1] \in Nat /\ c.window[2] \in Nat
    BY <2>1 DEF IsPool, Positive
  <2>3. Bound(c) = c.window[1] * c.window[2]
    BY <1>2 DEF Bound, Batched
  <2> QED
    BY <2>2, <2>3, TimesNat
<1>3. CASE c.kernel \notin Multiplying \cup {"MaxPool", "AveragePool"}
  <2>1. Bound(c) \in {1, 3}
    BY <1>3 DEF Bound, Multiplying, Batched
  <2> QED
    BY <2>1
<1> QED
  BY <1>1, <1>2, <1>3

-----------------------------------------------------------------------------
(* The elements of a mean take, together, one read for each turn made;      *)
(* those of another kernel are light at every turn.                         *)

Reads(d) == SumFunctionOnSet(Efforts(Numel(call.out), call, d), 1 .. Numel(call.out))

CostInv ==
  /\ call.kernel \notin {"ReduceMean", "GlobalAveragePool"} /\ (pc = "done" \/ call.kernel \in Walking)
       => \A f \in 0 .. Numel(call.out) - 1 : Light(call, dst[f])
  /\ call.kernel = "ReduceMean" =>
       /\ flat \in 0 .. Numel(call.ins[1])
       /\ \A f \in 0 .. Numel(call.out) - 1 : IsFiniteSet(dst[f])
       /\ Reads(dst) <= flat

\* It holds at the first turn.
LEMMA CostInit == Init => CostInv
<1> SUFFICES ASSUME Init PROVE CostInv
  OBVIOUS
<1>1. call \in Calls /\ IsCall(call) /\ pc = "loop" /\ flat = 0
      /\ dst = [f \in 0 .. Numel(call.out) - 1 |-> IF call.kernel = "ReduceMean" THEN {} ELSE Garbage]
  BY ShapesAssumption DEF Init
<1>2. Shape(call.out) /\ Numel(call.out) \in Nat /\ Shape(call.ins[1]) /\ Numel(call.ins[1]) \in Nat
  BY <1>1, CallFacts, NumelNatural
<1>3. ASSUME call.kernel # "ReduceMean", call.kernel \in Walking, NEW f \in 0 .. Numel(call.out) - 1
      PROVE  Light(call, dst[f])
  <2>1. dst[f] = Garbage
    BY <1>1, <1>3
  <2> QED
    BY <1>1, <1>3, <2>1, GarbageIsLight
<1>4. ASSUME call.kernel = "ReduceMean"
      PROVE  /\ \A f \in 0 .. Numel(call.out) - 1 : IsFiniteSet(dst[f])
             /\ Reads(dst) <= 0
  <2> DEFINE m == Numel(call.out)
             e == Efforts(m, call, dst)
  <2>1. \A f \in 0 .. m - 1 : dst[f] = {}
    BY <1>1, <1>4
  <2>2. IsFiniteSet({}) /\ Cardinality({}) = 0
    BY FS_EmptySet
  <2>3. \A i \in 1 .. m : e[i] = 0
    <3> SUFFICES ASSUME NEW i \in 1 .. m PROVE e[i] = 0
      OBVIOUS
    <3>1. i - 1 \in 0 .. m - 1
      BY <1>2
    <3>2. e[i] = Effort(call, dst[i - 1])
      BY DEF Efforts
    <3> QED
      BY <1>4, <2>1, <2>2, <3>1, <3>2 DEF Effort, Multiplying, Batched
  <2> DEFINE zero == 0
             s == SumFunctionOnSet(e, 1 .. m)
  <2>4. zero \in Nat /\ m \in Nat /\ \A i \in 1 .. m : e[i] \in Int /\ e[i] <= zero
    BY <1>2, <2>3
  <2> HIDE DEF zero, e, m
  <2>5. s \in Int /\ s <= m * zero
    BY <2>4, SumBounded
  <2> HIDE DEF s
  <2>6. s <= 0
    BY <2>4, <2>5 DEF zero
  <2>7. Reads(dst) = s
    BY DEF Reads, s, e, m
  <2> QED
    BY <2>1, <2>2, <2>6, <2>7 DEF m
<1> QED
  BY <1>1, <1>2, <1>3, <1>4 DEF CostInv

\* A turn of a reduction adds one element to one sum.
LEMMA ReadsGrow ==
  ASSUME OdometerInv, DataInv, CostInv, Turn, call.kernel = "ReduceMean"
  PROVE  /\ \A f \in 0 .. Numel(call.out) - 1 : IsFiniteSet(dst'[f])
         /\ Reads(dst') <= flat + 1
<1> DEFINE m == Numel(call.out)
           e == Efforts(m, call, dst)
           g == Efforts(m, call, dst')
           r == off[1]
           x == r + 1
           S == 1 .. m
<1>1. IsCall(call) /\ Walk /\ flat < Numel(Walked(call)) /\ ~Mismatch(call) /\ call.kernel \in Walking
  BY ShapesAssumption DEF OdometerInv, Turn, Walk
<1>2. m \in Nat
  BY <1>1, CallFacts, NumelNatural
<1>3. r \in 0 .. m - 1
  <2>1. WalksOver(call) /\ StaysInside(call)
    BY <1>1, CallsAssumption, Walks
  <2>2. coords \in Coords(Walked(call)) /\ off = Offset(call, coords)
    BY <1>1 DEF OdometerInv
  <2>3. Within(coords, Walked(call))
    BY <2>1, <2>2, CoordsFunction DEF WalksOver
  <2>4. DOMAIN Strides(call) = 1 .. 1 /\ Indexed(call, 1) = call.out
    BY <1>1, ReduceFacts DEF Indexed
  <2> QED
    BY <2>1, <2>2, <2>3, <2>4 DEF StaysInside
<1>4. dst' = [dst EXCEPT ![r] = @ \cup {<<flat>>}] /\ DOMAIN dst = 0 .. m - 1
  BY DEF Turn, Written, Broadcasting, Batched, Recomputing, DataInv
<1>5. \A f \in 0 .. m - 1 : dst'[f] = IF f = r THEN dst[f] \cup {<<flat>>} ELSE dst[f]
  BY <1>4
<1>6. /\ \A f \in 0 .. m - 1 : IsFiniteSet(dst[f])
      /\ flat \in 0 .. Numel(call.ins[1]) /\ Reads(dst) <= flat /\ flat \in Int
  <2>1. flat \in 0 .. Numel(call.ins[1])
    BY DEF CostInv
  <2> QED
    BY <2>1 DEF CostInv
<1>7. ASSUME NEW T, IsFiniteSet(T)
      PROVE  /\ Effort(call, T) = Cardinality(T) /\ Effort(call, T) \in Int
             /\ IsFiniteSet(T \cup {<<flat>>})
             /\ Effort(call, T \cup {<<flat>>}) \in Int
             /\ Effort(call, T \cup {<<flat>>}) - Effort(call, T) <= 1
  <2>1. \A U : Effort(call, U) = Cardinality(U)
    BY DEF Effort, Multiplying, Batched
  <2>2. /\ IsFiniteSet(T \cup {<<flat>>})
        /\ Cardinality(T \cup {<<flat>>}) = IF <<flat>> \in T THEN Cardinality(T) ELSE Cardinality(T) + 1
    BY <1>7, FS_AddElement
  <2>3. Cardinality(T) \in Nat
    BY <1>7, FS_CardinalityType
  <2> QED
    BY <2>1, <2>2, <2>3
<1>8. \A f \in 0 .. m - 1 : IsFiniteSet(dst'[f])
  BY <1>5, <1>6, <1>7
<1>9. ASSUME NEW y \in S
      PROVE  /\ e[y] = Effort(call, dst[y - 1]) /\ g[y] = Effort(call, dst'[y - 1])
             /\ e[y] \in Int /\ g[y] \in Int /\ (y # x => g[y] = e[y])
  <2>1. e[y] = Effort(call, dst[y - 1]) /\ g[y] = Effort(call, dst'[y - 1])
    BY DEF Efforts
  <2>2. y - 1 \in 0 .. m - 1 /\ (y # x => y - 1 # r)
    BY <1>2, <1>3
  <2>3. IsFiniteSet(dst[y - 1]) /\ IsFiniteSet(dst'[y - 1])
    BY <1>6, <1>8, <2>2
  <2>4. e[y] \in Int /\ g[y] \in Int
    BY <1>7, <2>1, <2>3
  <2>5. y # x => g[y] = e[y]
    BY <1>5, <2>1, <2>2
  <2> QED
    BY <2>1, <2>4, <2>5
<1>10. x \in S /\ g[x] - e[x] <= 1
  <2>1. x \in S /\ x - 1 = r
    BY <1>2, <1>3
  <2>2. e[x] = Effort(call, dst[r]) /\ g[x] = Effort(call, dst'[r])
    BY <1>9, <2>1
  <2>3. dst'[r] = dst[r] \cup {<<flat>>} /\ IsFiniteSet(dst[r])
    BY <1>3, <1>5, <1>6
  <2> QED
    BY <1>7, <2>1, <2>2, <2>3
<1> HIDE DEF e, g, x
<1>11. IsFiniteSet(S)
  <2>1. 1 \in Int /\ m \in Int
    BY <1>2
  <2> QED
    BY <2>1, FS_Interval
<1> HIDE DEF S
<1>12. SumFunctionOnSet(g, S) = SumFunctionOnSet(e, S) + (g[x] - e[x])
  <2>1. /\ x \in S /\ \A y \in S : e[y] \in Int /\ g[y] \in Int
        /\ \A y \in S \ {x} : g[y] = e[y]
    BY <1>9, <1>10
  <2> QED
    BY <1>11, <2>1, SumChanged
<1>13. SumFunctionOnSet(e, S) \in Int
  BY <1>9, <1>11, SumFacts
<1>14. Reads(dst) = SumFunctionOnSet(e, S) /\ Reads(dst') = SumFunctionOnSet(g, S)
  BY DEF Reads, e, g, S
<1> DEFINE a == SumFunctionOnSet(e, S)
           b == SumFunctionOnSet(g, S)
<1>15. a \in Int /\ b = a + (g[x] - e[x]) /\ a <= flat /\ flat \in Int
       /\ g[x] \in Int /\ e[x] \in Int /\ g[x] - e[x] <= 1
  BY <1>6, <1>9, <1>10, <1>12, <1>13, <1>14
<1> HIDE DEF a, b
<1>16. b <= flat + 1
  BY <1>15
<1> QED
  BY <1>8, <1>14, <1>16 DEF b

\* A turn of another kernel leaves each element light.
LEMMA TurnIsLight ==
  ASSUME OdometerInv, DataInv, CostInv, Turn, call.kernel # "ReduceMean",
         NEW f \in 0 .. Numel(call.out) - 1
  PROVE  Light(call, dst'[f])
<1>1. IsCall(call) /\ call.kernel \in Walking /\ dst' = Written(call) /\ f \in DOMAIN dst
  BY ShapesAssumption DEF OdometerInv, DataInv, Turn
<1>2. Light(call, dst[f])
  BY <1>1 DEF CostInv, Walking, Broadcasting, Batched, Recomputing
<1>3. CASE call.kernel \in Broadcasting \cup Recomputing
  <2>1. dst' = [dst EXCEPT ![flat] = {off}]
    BY <1>1, <1>3 DEF Written, Broadcasting, Batched, Recomputing
  <2>2. dst'[f] = dst[f] \/ dst'[f] = {off}
    BY <1>1, <2>1
  <2> QED
    BY <1>2, <1>3, <2>2, OneIsLight
<1>4. CASE call.kernel \in Batched
  <2> DEFINE size == call.out[Len(call.out) - 1] * Last(call.out)
  <2>1. dst' = [h \in DOMAIN dst |-> IF h \div size = flat THEN Product(call, h) ELSE dst[h]]
    <3>1. call.kernel \notin Broadcasting /\ call.kernel \notin Recomputing
      BY <1>4 DEF Broadcasting, Batched, Recomputing
    <3> QED
      BY <1>1, <1>4, <3>1 DEF Written
  <2> HIDE DEF size
  <2>2. dst'[f] = dst[f] \/ dst'[f] = Product(call, f)
    BY <1>1, <2>1
  <2> QED
    BY <1>1, <1>2, <1>4, <2>2, ProductIsLight
<1> QED
  BY <1>1, <1>3, <1>4 DEF Walking

\* So does a kernel that computes its indices.
LEMMA TermsAreLight ==
  ASSUME NEW c, IsCall(c), c.kernel \notin Walking, c.kernel # "GlobalAveragePool", NEW f \in Nat
  PROVE  Light(c, Terms(c, f))
<1>1. CASE c.kernel = "Softmax"
  <2>1. Effort(c, Terms(c, f)) = 3 /\ Bound(c) = 3
    BY <1>1 DEF Effort, Bound, Batched
  <2> QED
    BY <2>1 DEF Light
<1>2. c.kernel \in {"Gemm", "Conv", "MaxPool", "AveragePool", "Softmax", "Concat"}
  BY DEF IsCall, Walking, Broadcasting, Batched, Recomputing
<1> QED
  BY <1>1, <1>2, GemmIsLight, ConvIsLight, PoolIsLight, ConcatIsLight

-----------------------------------------------------------------------------
(* So the charge covers the work. *)

\* It holds from one turn to the next.
LEMMA CostNext == OdometerInv /\ DataInv /\ CostInv /\ [Next]_vars => CostInv'
<1> SUFFICES ASSUME OdometerInv, DataInv, CostInv, [Next]_vars PROVE CostInv'
  OBVIOUS
<1>1. IsCall(call) /\ Numel(call.out) \in Nat /\ DOMAIN dst = 0 .. Numel(call.out) - 1
  BY ShapesAssumption, CallFacts, NumelNatural DEF OdometerInv, DataInv
<1>2. CASE Turn
  <2>1. call' = call /\ flat' = flat + 1 /\ pc' = pc /\ pc = "loop" /\ call.kernel \in Walking
    BY <1>2 DEF Turn
  <2>2. ASSUME call.kernel # "ReduceMean", NEW f \in 0 .. Numel(call.out) - 1
        PROVE  Light(call, dst'[f])
    BY <1>2, <2>2, TurnIsLight
  <2>3. ASSUME call.kernel = "ReduceMean"
        PROVE  /\ flat + 1 \in 0 .. Numel(call.ins[1])
               /\ \A f \in 0 .. Numel(call.out) - 1 : IsFiniteSet(dst'[f])
               /\ Reads(dst') <= flat + 1
    <3>1. Walked(call) = call.ins[1] /\ Shape(call.ins[1])
      BY <1>1, <2>3, ReduceFacts
    <3>2. flat \in Nat /\ flat < Numel(call.ins[1]) /\ Numel(call.ins[1]) \in Nat
      BY <1>2, <2>3, <3>1, NumelNatural DEF Turn, CostInv
    <3>3. flat + 1 \in 0 .. Numel(call.ins[1])
      BY <3>2
    <3> QED
      BY <1>2, <2>3, <3>3, ReadsGrow
  <2>4. Reads(dst)' = Reads(dst')
    BY <2>1 DEF Reads
  <2> HIDE DEF Reads
  <2> QED
    BY <2>1, <2>2, <2>3, <2>4 DEF CostInv
<1>3. CASE Return
  <2>1. call' = call /\ flat' = flat /\ dst' = dst /\ call.kernel \in Walking
    BY <1>3 DEF Return
  <2> QED
    BY <2>1 DEF CostInv, Reads
<1>4. CASE Refuse
  <2>1. call' = call /\ flat' = flat /\ dst' = dst /\ pc' = "refused"
    BY <1>4 DEF Refuse
  <2> QED
    BY <2>1 DEF CostInv, Reads
<1>5. CASE Run
  <2>1. /\ call' = call /\ flat' = flat /\ call.kernel \notin Walking /\ call.kernel # "ReduceMean"
        /\ dst' = [f \in DOMAIN dst |-> Terms(call, f)]
    BY <1>5 DEF Run, Walking
  <2>2. ASSUME call.kernel # "GlobalAveragePool", NEW f \in 0 .. Numel(call.out) - 1
        PROVE  Light(call, dst'[f])
    <3>1. dst'[f] = Terms(call, f) /\ f \in Nat
      BY <1>1, <2>1
    <3> QED
      BY <1>1, <2>1, <2>2, <3>1, TermsAreLight
  <2> QED
    BY <2>1, <2>2 DEF CostInv
<1>6. CASE UNCHANGED vars
  BY <1>6 DEF CostInv, Reads, vars
<1> QED
  BY <1>2, <1>3, <1>4, <1>5, <1>6 DEF Next

\* The work of a kernel whose elements are all light.
LEMMA LightWork ==
  ASSUME IsCall(call), call.kernel \notin {"ReduceMean", "GlobalAveragePool"}, BatchOfFirst(call),
         \A f \in 0 .. Numel(call.out) - 1 : Light(call, dst[f])
  PROVE  Work <= Estimate(call)
<1> DEFINE m == Numel(call.out)
           b == Bound(call)
           e == Efforts(m, call, dst)
           w == SumFunctionOnSet(e, 1 .. m)
<1>1. m \in Nat
  BY CallFacts, NumelNatural
<1>2. b \in Nat
  BY BoundNatural
<1>3. \A f \in 0 .. m - 1 : Effort(call, dst[f]) \in Int /\ Effort(call, dst[f]) <= b
  BY DEF Light
<1>4. Work = CeilDiv(w, Rate(call))
  BY <1>1, <1>3, WorkIsSum
<1>5. \A i \in 1 .. m : e[i] \in Int /\ e[i] <= b
  <2> SUFFICES ASSUME NEW i \in 1 .. m PROVE e[i] \in Int /\ e[i] <= b
    OBVIOUS
  <2>1. i - 1 \in 0 .. m - 1
    BY <1>1
  <2>2. e[i] = Effort(call, dst[i - 1])
    BY DEF Efforts
  <2> QED
    BY <1>3, <2>1, <2>2
<1> HIDE DEF e, m, b
<1>6. w \in Int /\ w <= m * b
  BY <1>1, <1>2, <1>5, SumBounded
<1> HIDE DEF w
<1>7. CASE call.kernel \in Multiplying
  <2> DEFINE p == m * b
  <2>1. Estimate(call) = CeilDiv(p, MacsPerCycle) /\ Rate(call) = MacsPerCycle
    BY <1>7, ChargesAll DEF Rate, m, b
  <2>2. p \in Int /\ w <= p /\ MacsPerCycle \in Nat /\ MacsPerCycle > 0
    BY <1>1, <1>2, <1>6, RatesAssumption
  <2> HIDE DEF p
  <2>3. CeilDiv(w, MacsPerCycle) <= CeilDiv(p, MacsPerCycle)
    BY <1>6, <2>2, CeilGrows
  <2> QED
    BY <1>4, <2>1, <2>3
<1>8. CASE call.kernel \notin Multiplying
  <2>1. Rate(call) = ElemsPerCycle
    BY <1>8 DEF Rate
  <2>2. CeilDiv(w, ElemsPerCycle) <= Estimate(call)
    BY <1>6, <1>8, ChargesElements DEF m, b
  <2> QED
    BY <1>4, <2>1, <2>2
<1> QED
  BY <1>7, <1>8

\* A mean reads each element of its operand once, and is charged for it.
LEMMA MeanWork ==
  ASSUME IsCall(call), call.kernel = "ReduceMean", CostInv
  PROVE  Work <= Estimate(call)
<1> DEFINE m == Numel(call.out)
           e == Efforts(m, call, dst)
           w == SumFunctionOnSet(e, 1 .. m)
           n == Numel(call.ins[1])
           r == ElemsPerCycle
<1>1. m \in Nat /\ n \in Nat /\ AtLeastOne(call.ins[1]) = n /\ r \in Nat /\ r > 0
  BY CallFacts, NumelNatural, AtLeastOneIs, RatesAssumption
<1>2. /\ \A f \in 0 .. m - 1 : IsFiniteSet(dst[f])
      /\ Reads(dst) <= flat /\ flat \in 0 .. n
  BY DEF CostInv
<1>3. \A f \in 0 .. m - 1 : Effort(call, dst[f]) \in Nat
  BY <1>2, FS_CardinalityType DEF Effort, Multiplying, Batched
<1>4. Work = CeilDiv(w, r)
  <2>1. Rate(call) = r
    BY DEF Rate, Multiplying, Batched
  <2>2. \A f \in 0 .. m - 1 : Effort(call, dst[f]) \in Int
    BY <1>3
  <2> QED
    BY <1>1, <2>1, <2>2, WorkIsSum
<1>5. \A i \in 1 .. m : e[i] \in Nat
  <2> SUFFICES ASSUME NEW i \in 1 .. m PROVE e[i] \in Nat
    OBVIOUS
  <2>1. i - 1 \in 0 .. m - 1
    BY <1>1
  <2>2. e[i] = Effort(call, dst[i - 1])
    BY DEF Efforts
  <2> QED
    BY <1>3, <2>1, <2>2
<1>6. Reads(dst) = w
  BY DEF Reads
<1> HIDE DEF e
<1>7. w \in Nat
  <2>1. IsFiniteSet(1 .. m)
    <3>1. 1 \in Int /\ m \in Int
      BY <1>1
    <3> QED
      BY <3>1, FS_Interval
  <2> QED
    BY <1>5, <2>1, SumNatural
<1> HIDE DEF w, m, r, n
<1>8. w <= n
  <2>1. w <= flat /\ flat \in Nat /\ flat <= n
    BY <1>1, <1>2, <1>6
  <2> QED
    BY <1>1, <1>7, <2>1
<1>9. CeilDiv(w, r) <= w /\ CeilDiv(w, r) \in Int
  BY <1>1, <1>7, CeilShrinks
<1>10. Estimate(call) = n
  BY <1>1 DEF Estimate, Batched
<1> QED
  BY <1>1, <1>4, <1>7, <1>8, <1>9, <1>10

\* What a row is charged covers the multiplications or element accesses its kernel
\* performs, for every shape and both rates, but for batches that only the second
\* operand has and for global pools.
THEOREM CostCovers == Spec => []CostCoversWork
<1>1. Spec => []CostInv
  BY CostInit, CostNext, DataSafe, PTL DEF Spec
<1>2. OdometerInv /\ CostInv => CostCoversWork
  <2> SUFFICES ASSUME OdometerInv, CostInv, pc = "done", call.kernel # "GlobalAveragePool",
                      BatchOfFirst(call)
               PROVE  Work <= Estimate(call)
    BY DEF CostCoversWork
  <2>1. IsCall(call)
    BY ShapesAssumption DEF OdometerInv
  <2>2. CASE call.kernel = "ReduceMean"
    BY <2>1, <2>2, MeanWork
  <2>3. CASE call.kernel # "ReduceMean"
    BY <2>1, <2>3, LightWork DEF CostInv
  <2> QED
    BY <2>2, <2>3
<1> QED
  BY <1>1, <1>2, DataSafe, PTL
=============================================================================
