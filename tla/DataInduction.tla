----------------------------- MODULE DataInduction -----------------------------
(***************************************************************************)
(* Induction with the hypothesis as a set, and what follows from it for    *)
(* the folds of the community modules: that the function a fold is defined *)
(* by exists, and that sums over finite sets are sums.                     *)
(***************************************************************************)
EXTENDS Integers, FiniteSets, Functions, FiniteSetTheorems, WellFoundedInduction, TLAPS

\* A nonempty set of naturals has a least element.
LEMMA LeastElement ==
  ASSUME NEW T, T \subseteq Nat, T # {}
  PROVE  \E x \in T : \A y \in T : x <= y
<1> DEFINE R == {ss \in Nat \X Nat : ss[1] < ss[2]}
<1>1. IsWellFoundedOn(R, Nat)
  BY NatLessThanWellFounded DEF OpToRel
<1> HIDE DEF R
<1>2. PICK x \in T : \A y \in T : ~(<<y, x>> \in R)
  BY <1>1, WFMin
<1>3. ASSUME NEW y \in T PROVE x <= y
  <2>1. x \in Nat /\ y \in Nat
    OBVIOUS
  <2>2. ~(<<y, x>> \in R)
    BY <1>2
  <2>3. <<y, x>> \in Nat \X Nat
    BY <2>1
  <2>4. ~(y < x)
    BY <2>2, <2>3 DEF R
  <2> QED
    BY <2>1, <2>4
<1> QED
  BY <1>3

\* What holds of 0 and of the successor of each natural it holds of holds of
\* every natural.
LEMMA NatInductive ==
  ASSUME NEW G, 0 \in G, \A n \in Nat : n \in G => n + 1 \in G
  PROVE  Nat \subseteq G
<1> DEFINE Bad == Nat \ G
<1>1. SUFFICES ASSUME Bad # {} PROVE FALSE
  OBVIOUS
<1>2. PICK n \in Bad : \A m \in Bad : n <= m
  BY <1>1, LeastElement
<1>3. n # 0 /\ n - 1 \in Nat
  OBVIOUS
<1>4. n - 1 \in G
  BY <1>2, <1>3
<1>5. (n - 1) + 1 \in G
  BY <1>3, <1>4
<1> QED
  BY <1>5

\* What holds of each subset of a finite set, if it holds of the subsets with
\* one element less, holds of all of them.
LEMMA FiniteInductive ==
  ASSUME NEW S, IsFiniteSet(S), NEW G,
         \A T \in SUBSET S : (\A x \in T : T \ {x} \in G) => T \in G
  PROVE  \A T \in SUBSET S : T \in G
<1> DEFINE H == {n \in Nat : \A T \in SUBSET S : Cardinality(T) = n => T \in G}
<1>1. \A T \in SUBSET S : IsFiniteSet(T) /\ Cardinality(T) \in Nat
  BY FS_Subset, FS_CardinalityType
<1>2. 0 \in H
  <2> SUFFICES ASSUME NEW T \in SUBSET S, Cardinality(T) = 0 PROVE T \in G
    OBVIOUS
  <2>1. T = {}
    BY <1>1, FS_EmptySet
  <2> QED
    BY <2>1
<1>3. ASSUME NEW n \in Nat, n \in H PROVE n + 1 \in H
  <2> SUFFICES ASSUME NEW T \in SUBSET S, Cardinality(T) = n + 1 PROVE T \in G
    OBVIOUS
  <2>1. ASSUME NEW x \in T PROVE T \ {x} \in G
    <3>1. IsFiniteSet(T)
      BY <1>1
    <3>2. Cardinality(T \ {x}) = Cardinality(T) - 1
      BY <3>1, FS_RemoveElement
    <3>3. Cardinality(T \ {x}) = n /\ T \ {x} \in SUBSET S
      BY <3>2
    <3> QED
      BY <1>3, <3>3
  <2> QED
    BY <2>1
<1> HIDE DEF H
<1>4. Nat \subseteq H
  BY <1>2, <1>3, NatInductive
<1> QED
  BY <1>1, <1>4 DEF H

\* Among finitely many, one has the greatest value.
LEMMA GreatestElement ==
  ASSUME NEW S, IsFiniteSet(S), S # {}, NEW f, \A x \in S : f[x] \in Int
  PROVE  \E x \in S : \A y \in S : f[y] <= f[x]
<1> DEFINE G == {T \in SUBSET S : T # {} => \E x \in T : \A y \in T : f[y] <= f[x]}
<1>1. ASSUME NEW T \in SUBSET S, \A z \in T : T \ {z} \in G PROVE T \in G
  <2> SUFFICES ASSUME T # {} PROVE \E x \in T : \A y \in T : f[y] <= f[x]
    OBVIOUS
  <2>1. PICK z \in T : TRUE
    OBVIOUS
  <2>2. \A y \in T : f[y] \in Int
    OBVIOUS
  <2>3. CASE T \ {z} = {}
    BY <2>1, <2>2, <2>3
  <2>4. CASE T \ {z} # {}
    <3>1. PICK x \in T \ {z} : \A y \in T \ {z} : f[y] <= f[x]
      BY <1>1, <2>4
    <3>2. CASE f[z] <= f[x]
      BY <3>1, <3>2
    <3>3. CASE ~(f[z] <= f[x])
      <4>1. \A y \in T : f[y] <= f[z]
        BY <2>2, <3>1, <3>3
      <4> QED
        BY <4>1
    <3> QED
      BY <3>2, <3>3
  <2> QED
    BY <2>3, <2>4
<1> HIDE DEF G
<1>2. \A T \in SUBSET S : T \in G
  BY <1>1, FiniteInductive
<1> QED
  BY <1>2 DEF G

Recurs(n, base, st, h) ==
  \A k \in 0 .. n : h[k] = IF k = 0 THEN base ELSE st[<<k, h[k - 1]>>]

\* A function defined by recursion along 0 .. n exists, and stays in the range
\* of its step.
LEMMA RecursionExists ==
  ASSUME NEW n \in Nat, NEW A, NEW base \in A, NEW st \in [(1 .. n) \X A -> A]
  PROVE  \E h \in [0 .. n -> A] : Recurs(n, base, st, h)
<1> DEFINE Part(m, h) == \A k \in 0 .. m : h[k] = IF k = 0 THEN base ELSE st[<<k, h[k - 1]>>]
           G == {m \in Nat : m <= n => \E h \in [0 .. m -> A] : Part(m, h)}
<1>1. 0 \in G
  <2> DEFINE h == [k \in 0 .. 0 |-> base]
  <2>1. h \in [0 .. 0 -> A] /\ Part(0, h)
    OBVIOUS
  <2> QED
    BY <2>1
<1>2. ASSUME NEW m \in Nat, m \in G PROVE m + 1 \in G
  <2> SUFFICES ASSUME m + 1 <= n PROVE \E h \in [0 .. m + 1 -> A] : Part(m + 1, h)
    OBVIOUS
  <2>1. PICK h \in [0 .. m -> A] : Part(m, h)
    BY <1>2
  <2> DEFINE next == st[<<m + 1, h[m]>>]
             l == [k \in 0 .. m + 1 |-> IF k = m + 1 THEN next ELSE h[k]]
  <2>2. h[m] \in A /\ m + 1 \in 1 .. n
    OBVIOUS
  <2>3. next \in A
    BY <2>2
  <2> HIDE DEF next
  <2>4. l \in [0 .. m + 1 -> A]
    BY <2>3
  <2>5. ASSUME NEW k \in 0 .. m PROVE l[k] = h[k] /\ k \in 0 .. m + 1
    OBVIOUS
  <2>6. l[m + 1] = next /\ l[m] = h[m]
    OBVIOUS
  <2> HIDE DEF l
  <2>7. ASSUME NEW k \in 0 .. m + 1
        PROVE  l[k] = IF k = 0 THEN base ELSE st[<<k, l[k - 1]>>]
    <3>1. CASE k = m + 1
      BY <2>6, <3>1 DEF next
    <3>2. CASE k # m + 1
      <4>1. k \in 0 .. m /\ (k # 0 => k - 1 \in 0 .. m)
        BY <3>2
      <4>2. l[k] = h[k] /\ (k # 0 => l[k - 1] = h[k - 1])
        BY <2>5, <4>1
      <4> QED
        BY <2>1, <4>1, <4>2
    <3> QED
      BY <3>1, <3>2
  <2> QED
    BY <2>4, <2>7
<1> HIDE DEF G
<1>3. n \in G
  BY <1>1, <1>2, NatInductive
<1> QED
  BY <1>3 DEF G, Recurs

-----------------------------------------------------------------------------
(* Folds: from base, with the step st, elements taken as c chooses them. *)

Folds(S, c, st, base, h) ==
  h = [U \in SUBSET S |-> IF U = {} THEN base ELSE st[<<c[U], h[U \ {c[U]}]>>]]

\* A fold over a finite set is well defined, and stays in the range of its step.
LEMMA FoldExists ==
  ASSUME NEW S, IsFiniteSet(S), NEW A, NEW base \in A,
         NEW st \in [S \X A -> A],
         NEW c, \A U \in SUBSET S : U # {} => c[U] \in U
  PROVE  \E h \in [SUBSET S -> A] : Folds(S, c, st, base, h)
<1> DEFINE Small(n) == {U \in SUBSET S : Cardinality(U) <= n}
           Part(n, h) == h = [U \in Small(n) |->
                                IF U = {} THEN base ELSE st[<<c[U], h[U \ {c[U]}]>>]]
           G == {n \in Nat : \E h \in [Small(n) -> A] : Part(n, h)}
<1>1. \A U \in SUBSET S : /\ IsFiniteSet(U) /\ Cardinality(U) \in Nat
                          /\ Cardinality(U) = 0 <=> U = {}
  BY FS_Subset, FS_CardinalityType, FS_EmptySet
<1>2. \A U \in SUBSET S : U # {} =>
        /\ c[U] \in S /\ U \ {c[U]} \in SUBSET S
        /\ Cardinality(U \ {c[U]}) = Cardinality(U) - 1
  BY <1>1, FS_RemoveElement
<1>3. 0 \in G
  <2> DEFINE h == [U \in Small(0) |-> base]
  <2>1. \A U \in Small(0) : U = {}
    BY <1>1
  <2>2. h \in [Small(0) -> A] /\ Part(0, h)
    BY <2>1
  <2> QED
    BY <2>2
<1>4. ASSUME NEW n \in Nat, n \in G PROVE n + 1 \in G
  <2>1. PICK h \in [Small(n) -> A] : Part(n, h)
    BY <1>4
  <2> DEFINE k == [U \in Small(n + 1) |->
                     IF U = {} THEN base ELSE st[<<c[U], h[U \ {c[U]}]>>]]
  <2>2. ASSUME NEW U \in Small(n + 1), U # {}
        PROVE  U \ {c[U]} \in Small(n) /\ c[U] \in S
    BY <1>1, <1>2, <2>2
  <2>3. k \in [Small(n + 1) -> A]
    <3>1. ASSUME NEW U \in Small(n + 1) PROVE k[U] \in A
      <4>1. CASE U = {}
        BY <4>1
      <4>2. CASE U # {}
        <5>1. h[U \ {c[U]}] \in A /\ c[U] \in S
          BY <2>2, <4>2
        <5> QED
          BY <4>2, <5>1
      <4> QED
        BY <4>1, <4>2
    <3> QED
      BY <3>1
  <2>4. \A U \in Small(n) : U \in Small(n + 1) /\ k[U] = h[U]
    <3>1. \A U \in Small(n) : U \in Small(n + 1)
      BY <1>1
    <3>2. \A U \in Small(n) : h[U] = IF U = {} THEN base ELSE st[<<c[U], h[U \ {c[U]}]>>]
      BY <2>1
    <3> QED
      BY <3>1, <3>2
  <2>5. Part(n + 1, k)
    <3>1. \A U \in Small(n + 1) :
            U # {} => st[<<c[U], h[U \ {c[U]}]>>] = st[<<c[U], k[U \ {c[U]}]>>]
      BY <2>2, <2>4
    <3> HIDE DEF Small
    <3>2. k = [U \in Small(n + 1) |->
                 IF U = {} THEN base ELSE st[<<c[U], k[U \ {c[U]}]>>]]
      BY <3>1
    <3> QED
      BY <3>2
  <2> HIDE DEF k, Part, Small
  <2> QED
    BY <2>3, <2>5
<1> HIDE DEF G
<1>5. Nat \subseteq G
  BY <1>3, <1>4, NatInductive
<1>6. PICK h \in [Small(Cardinality(S)) -> A] : Part(Cardinality(S), h)
  BY <1>1, <1>5 DEF G
<1>7. Small(Cardinality(S)) = SUBSET S
  <2>1. \A U \in SUBSET S : Cardinality(U) <= Cardinality(S)
    BY FS_Subset
  <2> QED
    BY <2>1
<1> HIDE DEF Small
<1>8. h \in [SUBSET S -> A] /\ Folds(S, c, st, base, h)
  BY <1>6, <1>7 DEF Folds
<1> QED
  BY <1>8

-----------------------------------------------------------------------------
(* Sums of a function's values over a finite set. *)

Chosen(U) == CHOOSE x \in U : TRUE
Adding(f, S, k) ==
  k = [U \in SUBSET S |-> IF U = {} THEN 0 ELSE f[Chosen(U)] + k[U \ {Chosen(U)}]]

\* The function a sum is defined by, with the sum as its last value.
LEMMA SumUnfolds ==
  ASSUME NEW S, IsFiniteSet(S), NEW f, \A x \in S : f[x] \in Int
  PROVE  \E k \in [SUBSET S -> Int] : Adding(f, S, k) /\ SumFunctionOnSet(f, S) = k[S]
<1> DEFINE c == [U \in SUBSET S |-> Chosen(U)]
           st == [p \in S \X Int |-> f[p[1]] + p[2]]
           k == CHOOSE h : h = [U \in SUBSET S |->
                                  IF U = {} THEN 0 ELSE f[Chosen(U)] + h[U \ {Chosen(U)}]]
<1>1. st \in [S \X Int -> Int] /\ \A U \in SUBSET S : U # {} => c[U] \in U
  BY DEF Chosen
<1> HIDE DEF c, st
<1>2. PICK h \in [SUBSET S -> Int] : Folds(S, c, st, 0, h)
  <2>1. 0 \in Int
    OBVIOUS
  <2> QED
    BY <1>1, <2>1, FoldExists
<1>3. Adding(f, S, h)
  <2>1. ASSUME NEW U \in SUBSET S, U # {}
        PROVE  st[<<c[U], h[U \ {c[U]}]>>] = f[Chosen(U)] + h[U \ {Chosen(U)}]
    <3>1. c[U] = Chosen(U) /\ Chosen(U) \in S /\ h[U \ {Chosen(U)}] \in Int
      BY <1>1, <2>1 DEF c
    <3> QED
      BY <3>1 DEF st
  <2>2. h = [U \in SUBSET S |-> IF U = {} THEN 0 ELSE st[<<c[U], h[U \ {c[U]}]>>]]
    BY <1>2 DEF Folds
  <2>3. h = [U \in SUBSET S |-> IF U = {} THEN 0 ELSE f[Chosen(U)] + h[U \ {Chosen(U)}]]
    BY <2>1, <2>2
  <2> QED
    BY <2>3 DEF Adding
<1>4. Adding(f, S, k)
  BY <1>3 DEF Adding
<1>5. SumFunctionOnSet(f, S) = k[S]
  BY DEF SumFunctionOnSet, FoldFunctionOnSet, MapThenFoldSet, Chosen
<1> HIDE DEF k
<1>6. k \in [SUBSET S -> Int]
  <2> DEFINE G == {U \in SUBSET S : k[U] \in Int}
  <2>1. \A U \in SUBSET S : k[U] = IF U = {} THEN 0 ELSE f[Chosen(U)] + k[U \ {Chosen(U)}]
    BY <1>4 DEF Adding
  <2>2. ASSUME NEW U \in SUBSET S, \A x \in U : U \ {x} \in G PROVE U \in G
    <3>1. CASE U = {}
      <4>1. k[U] = 0
        BY <2>1, <3>1
      <4> QED
        BY <4>1
    <3>2. CASE U # {}
      <4>1. Chosen(U) \in U
        BY <3>2 DEF Chosen
      <4>2. k[U \ {Chosen(U)}] \in Int /\ f[Chosen(U)] \in Int
        BY <2>2, <4>1
      <4>3. k[U] = f[Chosen(U)] + k[U \ {Chosen(U)}]
        BY <2>1, <3>2
      <4>4. k[U] \in Int
        BY <4>2, <4>3
      <4> QED
        BY <4>4
    <3> QED
      BY <3>1, <3>2
  <2> HIDE DEF G
  <2>3. \A U \in SUBSET S : U \in G
    BY <2>2, FiniteInductive
  <2>4. \A U \in SUBSET S : k[U] \in Int
    BY <2>3 DEF G
  <2> QED
    BY <1>4, <2>4 DEF Adding
<1> QED
  BY <1>4, <1>5, <1>6

\* The sum over a subset is that function's value at it.
LEMMA SumOfSubset ==
  ASSUME NEW S, IsFiniteSet(S), NEW f, \A x \in S : f[x] \in Int,
         NEW k \in [SUBSET S -> Int], Adding(f, S, k)
  PROVE  \A T \in SUBSET S : SumFunctionOnSet(f, T) = k[T]
<1> SUFFICES ASSUME NEW T \in SUBSET S PROVE SumFunctionOnSet(f, T) = k[T]
  OBVIOUS
<1>1. IsFiniteSet(T) /\ \A x \in T : f[x] \in Int
  BY FS_Subset
<1>2. PICK l \in [SUBSET T -> Int] : Adding(f, T, l) /\ SumFunctionOnSet(f, T) = l[T]
  BY <1>1, SumUnfolds
<1> DEFINE G == {U \in SUBSET T : l[U] = k[U]}
<1>3. \A U \in SUBSET T : /\ l[U] = IF U = {} THEN 0 ELSE f[Chosen(U)] + l[U \ {Chosen(U)}]
                          /\ k[U] = IF U = {} THEN 0 ELSE f[Chosen(U)] + k[U \ {Chosen(U)}]
  <2>1. \A U \in SUBSET T : l[U] = IF U = {} THEN 0 ELSE f[Chosen(U)] + l[U \ {Chosen(U)}]
    BY <1>2 DEF Adding
  <2>2. \A U \in SUBSET S : k[U] = IF U = {} THEN 0 ELSE f[Chosen(U)] + k[U \ {Chosen(U)}]
    BY DEF Adding
  <2> QED
    BY <2>1, <2>2
<1>4. ASSUME NEW U \in SUBSET T, \A x \in U : U \ {x} \in G PROVE U \in G
  <2>1. CASE U = {}
    BY <1>3, <2>1
  <2>2. CASE U # {}
    <3>1. Chosen(U) \in U
      BY <2>2 DEF Chosen
    <3>2. l[U \ {Chosen(U)}] = k[U \ {Chosen(U)}]
      BY <1>4, <3>1
    <3> QED
      BY <1>3, <2>2, <3>2
  <2> QED
    BY <2>1, <2>2
<1> HIDE DEF G
<1>5. \A U \in SUBSET T : U \in G
  BY <1>1, <1>4, FiniteInductive
<1> QED
  BY <1>2, <1>5 DEF G

\* A sum is an integer, the empty sum is 0, and any element can be taken out.
LEMMA SumFacts ==
  ASSUME NEW S, IsFiniteSet(S), NEW f, \A x \in S : f[x] \in Int
  PROVE  /\ SumFunctionOnSet(f, {}) = 0
         /\ SumFunctionOnSet(f, S) \in Int
         /\ \A x \in S : SumFunctionOnSet(f, S) = f[x] + SumFunctionOnSet(f, S \ {x})
<1>1. PICK k \in [SUBSET S -> Int] : Adding(f, S, k)
  BY SumUnfolds
<1>2. \A T \in SUBSET S : SumFunctionOnSet(f, T) = k[T]
  BY <1>1, SumOfSubset
<1>3. \A T \in SUBSET S : k[T] = IF T = {} THEN 0 ELSE f[Chosen(T)] + k[T \ {Chosen(T)}]
  BY <1>1 DEF Adding
<1> DEFINE G == {T \in SUBSET S : \A x \in T : k[T] = f[x] + k[T \ {x}]}
<1>4. ASSUME NEW T \in SUBSET S, \A x \in T : T \ {x} \in G PROVE T \in G
  <2> SUFFICES ASSUME NEW x \in T PROVE k[T] = f[x] + k[T \ {x}]
    OBVIOUS
  <2> DEFINE y == Chosen(T)
  <2>1. y \in T /\ k[T] = f[y] + k[T \ {y}]
    BY <1>3 DEF Chosen
  <2> HIDE DEF y
  <2>2. CASE x = y
    BY <2>1, <2>2
  <2>3. CASE x # y
    <3>1. k[T \ {y}] = f[x] + k[(T \ {y}) \ {x}]
      BY <1>4, <2>1, <2>3
    <3>2. k[T \ {x}] = f[y] + k[(T \ {x}) \ {y}]
      BY <1>4, <2>1, <2>3
    <3> DEFINE rest == (T \ {x}) \ {y}
    <3>3. (T \ {y}) \ {x} = rest /\ rest \in SUBSET S
      OBVIOUS
    <3>4. k[rest] \in Int /\ f[x] \in Int /\ f[y] \in Int
      BY <2>1, <3>3
    <3> HIDE DEF rest
    <3>5. k[T \ {y}] = f[x] + k[rest]
      BY <3>1, <3>3
    <3>6. k[T \ {x}] = f[y] + k[rest]
      BY <3>2 DEF rest
    <3> QED
      BY <2>1, <3>4, <3>5, <3>6
  <2> QED
    BY <2>2, <2>3
<1> HIDE DEF G
<1>5. \A T \in SUBSET S : T \in G
  BY <1>4, FiniteInductive
<1>6. \A x \in S : k[S] = f[x] + k[S \ {x}]
  BY <1>5 DEF G
<1>7. k[{}] = 0 /\ k[S] \in Int
  BY <1>3
<1> QED
  BY <1>2, <1>6, <1>7

\* Where each term is at least another's, the sum is.
LEMMA SumMonotone ==
  ASSUME NEW S, IsFiniteSet(S), NEW f, NEW g,
         \A x \in S : f[x] \in Int /\ g[x] \in Int /\ f[x] <= g[x]
  PROVE  SumFunctionOnSet(f, S) <= SumFunctionOnSet(g, S)
<1> DEFINE G == {T \in SUBSET S : SumFunctionOnSet(f, T) <= SumFunctionOnSet(g, T)}
<1>1. ASSUME NEW T \in SUBSET S, \A x \in T : T \ {x} \in G PROVE T \in G
  <2>1. IsFiniteSet(T) /\ \A x \in T : f[x] \in Int /\ g[x] \in Int
    BY FS_Subset
  <2>2. CASE T = {}
    <3>1. SumFunctionOnSet(f, {}) = 0 /\ SumFunctionOnSet(g, {}) = 0
      BY <2>1, SumFacts
    <3> QED
      BY <2>2, <3>1
  <2>3. ASSUME NEW x \in T PROVE T \in G
    <3>1. /\ SumFunctionOnSet(f, T) = f[x] + SumFunctionOnSet(f, T \ {x})
          /\ SumFunctionOnSet(g, T) = g[x] + SumFunctionOnSet(g, T \ {x})
      BY <2>1, SumFacts
    <3>2. IsFiniteSet(T \ {x})
      BY <2>1, FS_Subset
    <3>3. SumFunctionOnSet(f, T \ {x}) \in Int /\ SumFunctionOnSet(g, T \ {x}) \in Int
      BY <2>1, <3>2, SumFacts
    <3>4. SumFunctionOnSet(f, T \ {x}) <= SumFunctionOnSet(g, T \ {x})
      BY <1>1
    <3>5. f[x] \in Int /\ g[x] \in Int /\ f[x] <= g[x]
      OBVIOUS
    <3> QED
      BY <3>1, <3>3, <3>4, <3>5
  <2> QED
    BY <2>2, <2>3
<1> HIDE DEF G
<1>2. \A T \in SUBSET S : T \in G
  BY <1>1, FiniteInductive
<1> QED
  BY <1>2 DEF G

\* Equal terms, equal sums.
LEMMA SumEqual ==
  ASSUME NEW S, IsFiniteSet(S), NEW f, NEW g,
         \A x \in S : f[x] \in Int /\ g[x] = f[x]
  PROVE  SumFunctionOnSet(f, S) = SumFunctionOnSet(g, S)
<1>1. /\ SumFunctionOnSet(f, S) \in Int /\ SumFunctionOnSet(g, S) \in Int
      /\ SumFunctionOnSet(f, S) <= SumFunctionOnSet(g, S)
      /\ SumFunctionOnSet(g, S) <= SumFunctionOnSet(f, S)
  BY SumFacts, SumMonotone
<1> QED
  BY <1>1

\* A sum of naturals is a natural, and at least the sum over any subset.
LEMMA SumNatural ==
  ASSUME NEW S, IsFiniteSet(S), NEW f, \A x \in S : f[x] \in Nat
  PROVE  \A T \in SUBSET S : /\ SumFunctionOnSet(f, T) \in Nat
                             /\ SumFunctionOnSet(f, T) <= SumFunctionOnSet(f, S)
<1>1. \A T \in SUBSET S : IsFiniteSet(T) /\ \A x \in T : f[x] \in Int
  BY FS_Subset
<1> DEFINE G == {T \in SUBSET S : \A U \in SUBSET T :
                   0 <= SumFunctionOnSet(f, U) /\ SumFunctionOnSet(f, U) <= SumFunctionOnSet(f, T)}
<1>2. ASSUME NEW T \in SUBSET S, \A x \in T : T \ {x} \in G PROVE T \in G
  <2>1. CASE T = {}
    <3>1. SumFunctionOnSet(f, {}) = 0
      BY <1>1, SumFacts
    <3>2. \A U \in SUBSET T : U = {}
      BY <2>1
    <3> QED
      BY <2>1, <3>1, <3>2
  <2>2. CASE T # {}
    <3> SUFFICES ASSUME NEW U \in SUBSET T
                 PROVE  0 <= SumFunctionOnSet(f, U) /\ SumFunctionOnSet(f, U) <= SumFunctionOnSet(f, T)
      OBVIOUS
    <3>1. SumFunctionOnSet(f, T) \in Int
      BY <1>1, SumFacts
    <3>2. ASSUME NEW x \in T
          PROVE  /\ SumFunctionOnSet(f, T) = f[x] + SumFunctionOnSet(f, T \ {x})
                 /\ 0 <= f[x] /\ f[x] \in Int
                 /\ \A V \in SUBSET (T \ {x}) :
                       /\ 0 <= SumFunctionOnSet(f, V) /\ SumFunctionOnSet(f, V) \in Int
                       /\ SumFunctionOnSet(f, V) <= SumFunctionOnSet(f, T \ {x})
      <4>1. SumFunctionOnSet(f, T) = f[x] + SumFunctionOnSet(f, T \ {x})
        BY <1>1, SumFacts
      <4>2. \A V \in SUBSET (T \ {x}) :
              /\ 0 <= SumFunctionOnSet(f, V)
              /\ SumFunctionOnSet(f, V) <= SumFunctionOnSet(f, T \ {x})
        BY <1>2
      <4>3. \A V \in SUBSET (T \ {x}) : SumFunctionOnSet(f, V) \in Int
        BY <1>1, SumFacts
      <4> QED
        BY <4>1, <4>2, <4>3
    <3>3. CASE U = T
      <4>1. PICK x \in T : TRUE
        BY <2>2
      <4>2. 0 <= SumFunctionOnSet(f, T \ {x}) /\ SumFunctionOnSet(f, T \ {x}) \in Int
        BY <3>2
      <4>3. SumFunctionOnSet(f, T) = f[x] + SumFunctionOnSet(f, T \ {x}) /\ 0 <= f[x] /\ f[x] \in Int
        BY <3>2
      <4> QED
        BY <3>1, <3>3, <4>2, <4>3
    <3>4. CASE U # T
      <4>1. PICK x \in T : x \notin U
        BY <3>4
      <4>2. U \in SUBSET (T \ {x}) /\ T \ {x} \in SUBSET (T \ {x})
        BY <4>1
      <4>3. /\ 0 <= SumFunctionOnSet(f, U) /\ SumFunctionOnSet(f, U) \in Int
            /\ SumFunctionOnSet(f, U) <= SumFunctionOnSet(f, T \ {x})
            /\ SumFunctionOnSet(f, T \ {x}) \in Int
        BY <3>2, <4>2
      <4>4. SumFunctionOnSet(f, T) = f[x] + SumFunctionOnSet(f, T \ {x}) /\ 0 <= f[x] /\ f[x] \in Int
        BY <3>2
      <4> QED
        BY <4>3, <4>4
    <3> QED
      BY <3>3, <3>4
  <2> QED
    BY <2>1, <2>2
<1> HIDE DEF G
<1>3. \A T \in SUBSET S : T \in G
  BY <1>2, FiniteInductive
<1>4. S \in G
  BY <1>3
<1>5. \A T \in SUBSET S : SumFunctionOnSet(f, T) \in Int
  BY <1>1, SumFacts
<1> QED
  BY <1>4, <1>5 DEF G

\* Changing one term changes the sum by as much.
LEMMA SumChanged ==
  ASSUME NEW S, IsFiniteSet(S), NEW f, NEW g, NEW x \in S,
         \A y \in S : f[y] \in Int /\ g[y] \in Int,
         \A y \in S \ {x} : g[y] = f[y]
  PROVE  SumFunctionOnSet(g, S) = SumFunctionOnSet(f, S) + (g[x] - f[x])
<1>1. IsFiniteSet(S \ {x})
  BY FS_Subset
<1>2. SumFunctionOnSet(f, S \ {x}) = SumFunctionOnSet(g, S \ {x})
  BY <1>1, SumEqual
<1>3. SumFunctionOnSet(f, S \ {x}) \in Int
  BY <1>1, SumFacts
<1>4. /\ SumFunctionOnSet(f, S) = f[x] + SumFunctionOnSet(f, S \ {x})
      /\ SumFunctionOnSet(g, S) = g[x] + SumFunctionOnSet(g, S \ {x})
  BY SumFacts
<1>5. f[x] \in Int /\ g[x] \in Int
  OBVIOUS
<1> QED
  BY <1>2, <1>3, <1>4, <1>5
=============================================================================
