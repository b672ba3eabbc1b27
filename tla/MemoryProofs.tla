---------------------------- MODULE MemoryProofs -----------------------------
(***************************************************************************)
(* The memory plan, for any graph of single writers that precede their     *)
(* readers, any aliases, and any layout of the kind the allocator makes:   *)
(*                                                                         *)
(*   roots follow the alias chains, and a tensor's range is in its root's; *)
(*   buffers whose ranges meet get no block in common (either layout);     *)
(*   so from the row that writes a tensor to the last that reads it only   *)
(*   its views and in-place results touch its blocks;                      *)
(*   so each row keeps what later rows still want, and the rows run by     *)
(*   index compute the graph (ArrangedIsSound).                            *)
(***************************************************************************)
EXTENDS ArenaLayout, ArenaMemory, DataInduction, SequenceTheorems

\* Strings, and among them two literals (the provers do not know that they are).
Word == STRING \cup {"sram", "DMA_LOAD"}

Name == Seq(Word)

LoweredOp == [type : Word, ins : Seq(Name), outs : Seq(Name), device : Device]

SingleWriters(ops) ==
  \A i, j \in Rows(ops) :
    ToSet(Row(ops, i).outs) \cap ToSet(Row(ops, j).outs) # {} => i = j

Ordered(ops) ==
  \A i, j \in Rows(ops) : ToSet(Row(ops, i).outs) \cap InputsOf(ops, j) # {} => i < j

-----------------------------------------------------------------------------
(* Roots: what the pass over the rows computes is the end of each chain.   *)

\* One operator's part in the recursion of RootsOf.
FollowAt(graph, alias, root, k) ==
  [t \in DOMAIN root |-> IF t \in ToSet(graph.ops[k].outs) \cap DOMAIN alias
                         THEN root[alias[t]] ELSE root[t]]

Unrooted(graph) == [t \in DOMAIN graph.shape \cup ArenaTensors(graph) |-> t]

RootSteps(graph, alias, roots) ==
  /\ roots[0] = Unrooted(graph)
  /\ \A k \in 1 .. Len(graph.ops) : roots[k] = FollowAt(graph, alias, roots[k - 1], k)
  /\ RootsOf(graph, alias) = roots[Len(graph.ops)]

\* The last root map, by the recursion RootsOf is.
LEMMA RootsUnfold ==
  ASSUME NEW graph, NEW T, graph.ops \in Seq(T), NEW alias, NEW A, Unrooted(graph) \in A,
         \A root \in A : \A k \in 1 .. Len(graph.ops) : FollowAt(graph, alias, root, k) \in A
  PROVE  \E roots \in [0 .. Len(graph.ops) -> A] : RootSteps(graph, alias, roots)
<1> DEFINE n == Len(graph.ops)
           Follow(root, op) ==
             [t \in DOMAIN root |-> IF t \in ToSet(op.outs) \cap DOMAIN alias
                                   THEN root[alias[t]] ELSE root[t]]
           base == [t \in DOMAIN graph.shape \cup ArenaTensors(graph) |-> t]
           st == [p \in (1 .. n) \X A |-> Follow(p[2], graph.ops[p[1]])]
           f == CHOOSE h : h = [k \in 0 .. n |->
                                  IF k = 0 THEN base ELSE Follow(h[k - 1], graph.ops[k])]
<1>1. n \in Nat
  OBVIOUS
<1>2. st \in [(1 .. n) \X A -> A]
  BY DEF FollowAt
<1>3. PICK h \in [0 .. n -> A] : Recurs(n, base, st, h)
  <2> HIDE DEF st, f, n, base, Follow
  <2>1. base \in A
    BY DEF base, Unrooted
  <2> QED
    BY <1>1, <1>2, <2>1, RecursionExists
<1>4. ASSUME NEW k \in 0 .. n
      PROVE  h[k] = IF k = 0 THEN base ELSE Follow(h[k - 1], graph.ops[k])
  <2> HIDE DEF base, Follow, n
  <2>1. CASE k = 0
    BY <1>3, <2>1 DEF Recurs
  <2>2. CASE k # 0
    <3>1. k \in 1 .. n /\ k - 1 \in 0 .. n
      BY <1>1, <2>2
    <3>2. <<k, h[k - 1]>> \in (1 .. n) \X A
      BY <3>1
    <3> QED
      BY <1>3, <2>2, <3>2 DEF Recurs
  <2> QED
    BY <2>1, <2>2
<1>5. h = [k \in 0 .. n |-> IF k = 0 THEN base ELSE Follow(h[k - 1], graph.ops[k])]
  <2> HIDE DEF base, Follow
  <2> QED
    BY <1>4
<1>6. f = [k \in 0 .. n |-> IF k = 0 THEN base ELSE Follow(f[k - 1], graph.ops[k])]
  <2> HIDE DEF base, Follow, n, st
  <2> QED
    BY <1>5
<1>7. RootsOf(graph, alias) = f[n]
  BY DEF RootsOf
<1>10. \A r \in A : \A k \in 1 .. n : Follow(r, graph.ops[k]) \in A
  BY DEF FollowAt
<1> HIDE DEF f, st, base, Follow
<1>8. f[0] = base /\ \A k \in 1 .. n : f[k] = Follow(f[k - 1], graph.ops[k])
  <2>1. \A k \in 0 .. n : f[k] = IF k = 0 THEN base ELSE Follow(f[k - 1], graph.ops[k])
    BY <1>6
  <2>2. 0 \in 0 .. n /\ \A k \in 1 .. n : k \in 0 .. n /\ k # 0
    BY <1>1
  <2> HIDE DEF n
  <2> QED
    BY <2>1, <2>2
<1>9. f \in [0 .. n -> A]
  <2> DEFINE G == {m \in Nat : m <= n => f[m] \in A}
  <2>1. 0 \in G
    BY <1>8 DEF base, Unrooted
  <2>2. ASSUME NEW m \in Nat, m \in G PROVE m + 1 \in G
    <3>1. CASE m + 1 <= n
      <4>1. m + 1 \in 1 .. n /\ (m + 1) - 1 = m /\ f[m] \in A
        BY <1>1, <2>2, <3>1
      <4>2. f[m + 1] = Follow(f[m], graph.ops[m + 1])
        BY <1>8, <4>1
      <4>3. f[m + 1] \in A
        BY <1>10, <4>1, <4>2
      <4> QED
        BY <4>3
    <3>2. CASE ~(m + 1 <= n)
      BY <3>2
    <3> QED
      BY <3>1, <3>2
  <2> HIDE DEF G
  <2>3. Nat \subseteq G
    BY <2>1, <2>2, NatInductive
  <2>4. \A m \in 0 .. n : f[m] \in A
    <3>1. \A m \in 0 .. n : m \in Nat /\ m <= n
      BY <1>1
    <3> QED
      BY <2>3, <3>1 DEF G
  <2>5. f = [k \in 0 .. n |-> f[k]]
    BY <1>6
  <2> HIDE DEF n
  <2> QED
    BY <2>4, <2>5
<1> QED
  BY <1>7, <1>8, <1>9 DEF base, Follow, RootSteps, Unrooted, FollowAt

Known(graph) == DOMAIN graph.shape \cup ArenaTensors(graph)

\* Each alias is from a result of a row to an operand of it.
AliasesGoBack(graph, alias) ==
  \A t \in DOMAIN alias :
    /\ alias[t] \in Known(graph)
    /\ \E i \in Rows(graph.ops) :
         t \in ToSet(Row(graph.ops, i).outs) /\ alias[t] \in InputsOf(graph.ops, i)

StaysFrom(graph, alias, roots, m, t) ==
  \A k \in m .. Len(graph.ops) :
    (\A l \in m + 1 .. k : t \notin ToSet(graph.ops[l].outs) \cap DOMAIN alias)
      => roots[k][t] = roots[m][t]

\* A tensor keeps its root over operators that do not alias it.
LEMMA RootsStay ==
  ASSUME NEW graph, NEW T, graph.ops \in Seq(T), NEW alias,
         NEW roots \in [0 .. Len(graph.ops) -> [Known(graph) -> Known(graph)]],
         RootSteps(graph, alias, roots),
         NEW m \in 0 .. Len(graph.ops), NEW t \in Known(graph)
  PROVE  StaysFrom(graph, alias, roots, m, t)
<1> DEFINE n == Len(graph.ops)
           Quiet(k) == \A l \in m + 1 .. k : t \notin ToSet(graph.ops[l].outs) \cap DOMAIN alias
           G == {d \in Nat : m + d <= n /\ Quiet(m + d) => roots[m + d][t] = roots[m][t]}
<1>1. n \in Nat /\ m \in Nat /\ m <= n
  OBVIOUS
<1>2. 0 \in G
  BY <1>1
<1>3. ASSUME NEW d \in Nat, d \in G, m + (d + 1) <= n, Quiet(m + (d + 1))
      PROVE  roots[m + (d + 1)][t] = roots[m][t]
  <2>1. /\ m + (d + 1) \in 1 .. n /\ (m + (d + 1)) - 1 = m + d /\ m + d \in 0 .. n
        /\ m + (d + 1) \in m + 1 .. m + (d + 1)
    BY <1>1, <1>3
  <2>2. Quiet(m + d)
    BY <1>1, <1>3
  <2>3. roots[m + d][t] = roots[m][t]
    BY <1>3, <2>1, <2>2
  <2>4. roots[m + (d + 1)] = FollowAt(graph, alias, roots[m + d], m + (d + 1))
    BY <2>1 DEF RootSteps
  <2>5. t \notin ToSet(graph.ops[m + (d + 1)].outs) \cap DOMAIN alias
    BY <1>3, <2>1
  <2>6. t \in DOMAIN roots[m + d]
    BY <2>1
  <2> HIDE DEF Quiet, n, G
  <2> QED
    BY <2>3, <2>4, <2>5, <2>6 DEF FollowAt
<1>4. \A d \in Nat : d \in G => d + 1 \in G
  <2>1. \A d \in Nat : d + 1 \in Nat
    OBVIOUS
  <2> QED
    BY <1>3, <2>1
<1> HIDE DEF G, Quiet
<1>5. Nat \subseteq G
  BY <1>2, <1>4, NatInductive
<1>6. ASSUME NEW k \in m .. n, Quiet(k) PROVE roots[k][t] = roots[m][t]
  <2>1. k - m \in Nat /\ m + (k - m) = k /\ k <= n
    BY <1>1
  <2>2. k - m \in G
    BY <1>5, <2>1
  <2> QED
    BY <1>6, <2>1, <2>2 DEF G
<1> QED
  BY <1>6 DEF Quiet, StaysFrom

LEMMA RootsFollow ==
  ASSUME NEW graph, NEW T, graph.ops \in Seq(T),
         SingleWriters(graph.ops), Ordered(graph.ops),
         NEW alias, AliasesGoBack(graph, alias)
  PROVE  LET root == RootsOf(graph, alias)
         IN  /\ root \in [Known(graph) -> Known(graph)]
             /\ \A t \in Known(graph) :
                  root[t] = IF t \in DOMAIN alias THEN root[alias[t]] ELSE t
<1> DEFINE n == Len(graph.ops)
           D == Known(graph)
           A == [D -> D]
<1>1. n \in Nat
  OBVIOUS
<1>2. Unrooted(graph) \in A
  BY DEF Unrooted, Known
<1>3. \A root_1 \in A : \A k \in 1 .. n : FollowAt(graph, alias, root_1, k) \in A
  BY DEF FollowAt, AliasesGoBack
<1>4. PICK roots \in [0 .. n -> A] : RootSteps(graph, alias, roots)
  <2> HIDE DEF A
  <2> QED
    BY <1>2, <1>3, RootsUnfold
<1>5. ASSUME NEW m \in 0 .. n, NEW t \in D,
             \A l \in m + 1 .. n : t \notin ToSet(graph.ops[l].outs) \cap DOMAIN alias
      PROVE  roots[n][t] = roots[m][t]
  <2>1. n \in m .. n
    BY <1>1
  <2>2. StaysFrom(graph, alias, roots, m, t)
    BY <1>4, RootsStay
  <2> QED
    BY <1>5, <2>1, <2>2 DEF StaysFrom
<1>6. RootsOf(graph, alias) = roots[n]
  BY <1>4 DEF RootSteps
<1>7. \A l \in 1 .. n : l - 1 \in Rows(graph.ops) /\ Row(graph.ops, l - 1) = graph.ops[l]
  BY <1>1 DEF Rows, Row
<1>8. ASSUME NEW t \in D, t \notin DOMAIN alias PROVE roots[n][t] = t
  <2>1. 0 \in 0 .. n
    BY <1>1
  <2>2. roots[n][t] = roots[0][t]
    BY <1>5, <1>8, <2>1
  <2>3. roots[0] = Unrooted(graph)
    BY <1>4 DEF RootSteps
  <2> QED
    BY <2>2, <2>3 DEF Unrooted, Known
<1>9. ASSUME NEW t \in D, t \in DOMAIN alias PROVE roots[n][t] = roots[n][alias[t]]
  <2>1. PICK i \in Rows(graph.ops) :
          t \in ToSet(Row(graph.ops, i).outs) /\ alias[t] \in InputsOf(graph.ops, i)
    BY <1>9 DEF AliasesGoBack
  <2>2. /\ i + 1 \in 1 .. n /\ i \in 0 .. n /\ (i + 1) - 1 = i /\ i + 1 \in 0 .. n
        /\ graph.ops[i + 1] = Row(graph.ops, i)
    BY <1>1, <2>1 DEF Rows, Row
  <2>3. alias[t] \in D
    BY <1>9 DEF AliasesGoBack
  <2>4. roots[n][t] = roots[i + 1][t]
    <3>1. ASSUME NEW l \in (i + 1) + 1 .. n, t \in ToSet(graph.ops[l].outs) PROVE FALSE
      <4>1. l \in 1 .. n /\ l - 1 # i
        BY <1>1, <2>2
      <4>2. t \in ToSet(Row(graph.ops, l - 1).outs) /\ l - 1 \in Rows(graph.ops)
        BY <1>7, <3>1, <4>1
      <4> QED
        BY <2>1, <4>1, <4>2 DEF SingleWriters
    <3> QED
      BY <1>5, <2>2, <3>1
  <2>5. roots[n][alias[t]] = roots[i][alias[t]]
    <3>1. ASSUME NEW l \in i + 1 .. n, alias[t] \in ToSet(graph.ops[l].outs) PROVE FALSE
      <4>1. l \in 1 .. n /\ ~(l - 1 < i)
        BY <1>1, <2>2
      <4>2. alias[t] \in ToSet(Row(graph.ops, l - 1).outs) /\ l - 1 \in Rows(graph.ops)
        BY <1>7, <3>1, <4>1
      <4> QED
        BY <2>1, <4>1, <4>2 DEF Ordered
    <3> QED
      BY <1>5, <2>2, <2>3, <3>1
  <2>6. roots[i + 1] = FollowAt(graph, alias, roots[i], i + 1)
    BY <1>4, <2>2 DEF RootSteps
  <2>7. roots[i + 1][t] = roots[i][alias[t]]
    <3>1. t \in DOMAIN roots[i]
      BY <2>2
    <3> HIDE DEF n, D
    <3> QED
      BY <1>9, <2>1, <2>2, <2>6, <3>1 DEF FollowAt
  <2> QED
    BY <2>4, <2>5, <2>7
<1>10. RootsOf(graph, alias) \in A
  <2> HIDE DEF A
  <2> QED
    BY <1>1, <1>4, <1>6
<1> QED
  BY <1>6, <1>8, <1>9, <1>10

-----------------------------------------------------------------------------
(* A planned graph: all that the rest of the argument uses of it. *)

\* Rows that alias their result to their operand.
Aliases(p, i) == IsView(p, i) \/ IsInPlace(p, i)

InTheArena(p) ==
  /\ p.ops \in Seq(LoweredOp) /\ p.inputs \in Seq(Name)
  /\ SingleWriters(p.ops) /\ Ordered(p.ops)
  /\ \A i \in Rows(p.ops) : ToSet(Row(p.ops, i).outs) \cap ToSet(p.inputs) = {}
  /\ \A t \in ArenaTensors(p) : BufferBytes(p, t) \in Nat

RowsAlias(p, root) ==
  /\ \A t \in ArenaTensors(p) :
       root[t] \in ArenaTensors(p) /\ Blocks(p, t) <= Blocks(p, root[t])
  /\ \A t \in ArenaTensors(p) : root[t] # t =>
       \E i \in Rows(p.ops) : Aliases(p, i) /\ t = Result(p, i)
  /\ \A i \in Rows(p.ops) : Aliases(p, i) =>
       /\ Operand(p, i) \in InputsOf(p.ops, i) \cap ArenaTensors(p)
       /\ Result(p, i) \in ToSet(Row(p.ops, i).outs)
       /\ root[Result(p, i)] = root[Operand(p, i)]
  /\ \A i \in Rows(p.ops) : IsView(p, i) =>
       Blocks(p, Operand(p, i)) = Blocks(p, Result(p, i))

\* An alias is the operand of a row that is a view or works in place.
LEMMA AliasRows ==
  ASSUME NEW graph
  PROVE  /\ \A t \in DOMAIN AliasOf(graph) : \E i \in Rows(graph.ops) :
              /\ IsView(graph, i) \/ IsInPlace(graph, i)
              /\ t = Result(graph, i) /\ AliasOf(graph)[t] = Operand(graph, i)
         /\ \A i \in Rows(graph.ops) :
              IsView(graph, i) \/ IsInPlace(graph, i) => Result(graph, i) \in DOMAIN AliasOf(graph)
<1> DEFINE rows == {i \in Rows(graph.ops) : IsView(graph, i) \/ IsInPlace(graph, i)}
           al == [t \in {Result(graph, i) : i \in rows} |->
                    Operand(graph, CHOOSE i \in rows : Result(graph, i) = t)]
<1>1. AliasOf(graph) = al
  BY DEF AliasOf
<1>2. ASSUME NEW t \in {Result(graph, i) : i \in rows}
      PROVE  \E i \in rows : t = Result(graph, i) /\ al[t] = Operand(graph, i)
  <2> DEFINE i == CHOOSE i \in rows : Result(graph, i) = t
  <2>1. i \in rows /\ Result(graph, i) = t
    BY <1>2
  <2>2. al[t] = Operand(graph, i)
    BY <1>2
  <2> HIDE DEF i, al, rows
  <2> QED
    BY <2>1, <2>2
<1>3. DOMAIN al = {Result(graph, i) : i \in rows}
  OBVIOUS
<1> HIDE DEF al
<1> QED
  BY <1>1, <1>2, <1>3

\* With one writer, each alias is the operand of the one row that writes it.
LEMMA AliasIsOperand ==
  ASSUME NEW p, SingleWriters(p.ops),
         \A i \in Rows(p.ops) : Aliases(p, i) => Result(p, i) \in ToSet(Row(p.ops, i).outs)
  PROVE  \A i \in Rows(p.ops) : Aliases(p, i) =>
           Result(p, i) \in DOMAIN AliasOf(p) /\ AliasOf(p)[Result(p, i)] = Operand(p, i)
<1> SUFFICES ASSUME NEW i \in Rows(p.ops), Aliases(p, i)
             PROVE  /\ Result(p, i) \in DOMAIN AliasOf(p)
                    /\ AliasOf(p)[Result(p, i)] = Operand(p, i)
  OBVIOUS
<1>1. Result(p, i) \in DOMAIN AliasOf(p)
  BY AliasRows DEF Aliases
<1>2. PICK j \in Rows(p.ops) :
        Aliases(p, j) /\ Result(p, i) = Result(p, j) /\ AliasOf(p)[Result(p, i)] = Operand(p, j)
  BY <1>1, AliasRows DEF Aliases
<1>3. j = i
  BY <1>2 DEF SingleWriters
<1> QED
  BY <1>1, <1>2, <1>3

-----------------------------------------------------------------------------
(* The layout: buffers in use at the same time have no block in common. *)

LEMMA Extremes ==
  ASSUME NEW S, IsFiniteSet(S), S \subseteq Int, S # {}
  PROVE  /\ Max(S) \in S /\ \A x \in S : x <= Max(S)
         /\ Min(S) \in S /\ \A x \in S : Min(S) <= x
<1> DEFINE up == [x \in S |-> x]
           down == [x \in S |-> -x]
<1>1. \A x \in S : up[x] = x /\ up[x] \in Int /\ down[x] = -x /\ down[x] \in Int
  OBVIOUS
<1> HIDE DEF up, down
<1>2. \E x \in S : \A y \in S : up[y] <= up[x]
  BY <1>1, GreatestElement
<1>3. \E x \in S : \A y \in S : down[y] <= down[x]
  BY <1>1, GreatestElement
<1>4. \E x \in S : \A y \in S : y <= x
  BY <1>1, <1>2
<1>5. \E x \in S : \A y \in S : x <= y
  <2>1. PICK x \in S : \A y \in S : down[y] <= down[x]
    BY <1>3
  <2>2. \A y \in S : -y <= -x
    BY <1>1, <2>1
  <2> QED
    BY <2>2
<1>6. Max(S) \in S /\ \A x \in S : Max(S) >= x
  BY <1>4 DEF Max
<1>7. Min(S) \in S /\ \A x \in S : Min(S) <= x
  BY <1>5 DEF Min
<1> QED
  BY <1>6, <1>7

Sized(p, S) == \A t \in S : Blocks(p, t) \in Nat

Apart(p, at, t, u) ==
  at[t] + Blocks(p, t) <= at[u] \/ at[u] + Blocks(p, u) <= at[t]

Layout(p, ranges, at) ==
  /\ at \in [DOMAIN at -> Nat] /\ DOMAIN at \subseteq DOMAIN ranges
  /\ \A t, u \in DOMAIN at : t # u /\ Avoids(ranges, t, u) => Apart(p, at, t, u)

LEMMA PlaceBufferKeeps ==
  ASSUME NEW p, NEW ranges, IsFiniteSet(DOMAIN ranges), Sized(p, DOMAIN ranges),
         NEW at, Layout(p, ranges, at), NEW t \in DOMAIN ranges \ DOMAIN at
  PROVE  /\ DOMAIN PlaceBuffer(p, ranges, at, t) = DOMAIN at \cup {t}
         /\ Layout(p, ranges, PlaceBuffer(p, ranges, at, t))
<1> DEFINE D == DOMAIN at
           ends == {at[u] + Blocks(p, u) : u \in D}
           top == Max({0} \cup ends)
           free == {o \in 0 .. top : FreeAt(p, ranges, at, t, o)}
           new == PlaceBuffer(p, ranges, at, t)
<1>1. IsFiniteSet(D) /\ \A u \in D : at[u] \in Nat /\ Blocks(p, u) \in Nat
  BY FS_Subset DEF Layout, Sized
<1>2. top \in Nat /\ \A u \in D : at[u] + Blocks(p, u) <= top
  <2> DEFINE f == [u \in D |-> at[u] + Blocks(p, u)]
  <2>1. f \in Surjection(D, ends)
    BY DEF Surjection
  <2> HIDE DEF f
  <2>2. IsFiniteSet(ends)
    BY <1>1, <2>1, FS_Surjection
  <2>3. {0} \cup ends \subseteq Nat
    BY <1>1
  <2> HIDE DEF ends
  <2>4. IsFiniteSet({0} \cup ends)
    BY <2>2, FS_Union, FS_Singleton
  <2>5. top \in {0} \cup ends /\ \A x \in {0} \cup ends : x <= top
    BY <2>3, <2>4, Extremes
  <2> QED
    BY <2>3, <2>5 DEF ends
<1> HIDE DEF top, D
<1>3. top \in free
  BY <1>1, <1>2 DEF FreeAt, D
<1>4. IsFiniteSet(free)
  <2>1. IsFiniteSet(0 .. top)
    BY <1>2, FS_Interval
  <2> QED
    BY <2>1, FS_Subset
<1>5. Min(free) \in free
  <2>1. free \subseteq Int /\ free # {}
    BY <1>2, <1>3
  <2> HIDE DEF free
  <2> QED
    BY <1>4, <2>1, Extremes
<1> DEFINE offset == Min(free)
<1>6. offset \in Nat /\ FreeAt(p, ranges, at, t, offset)
  BY <1>2, <1>5
<1>7. new = [u \in D \cup {t} |-> IF u = t THEN offset ELSE at[u]]
  BY DEF PlaceBuffer, D, top
<1> HIDE DEF new, offset
<1>8. DOMAIN new = D \cup {t}
  BY <1>7
<1>9. t \notin D
  BY DEF D
<1>10. new[t] = offset /\ \A u \in D : new[u] = at[u]
  BY <1>7, <1>9
<1>11. new \in [D \cup {t} -> Nat]
  BY <1>1, <1>6, <1>7
<1>12. ASSUME NEW u \in D, Avoids(ranges, t, u)
       PROVE  Apart(p, new, t, u) /\ Apart(p, new, u, t)
  BY <1>6, <1>10, <1>12 DEF FreeAt, Apart, D
<1>13. \A u \in D : Avoids(ranges, u, t) => Avoids(ranges, t, u)
  BY DEF Avoids, RangesOverlap
<1>14. \A u, v \in D : u # v /\ Avoids(ranges, u, v) => Apart(p, new, u, v)
  BY <1>10 DEF Layout, Apart, D
<1>15. \A u, v \in D \cup {t} : u # v /\ Avoids(ranges, u, v) => Apart(p, new, u, v)
  BY <1>12, <1>13, <1>14
<1>16. D \cup {t} \subseteq DOMAIN ranges
  BY DEF Layout, D
<1> QED
  BY <1>8, <1>11, <1>15, <1>16 DEF Layout, new, D

\* An order in which there is always one that comes first.
HasForemost(S, before) ==
  \A T \in SUBSET S : T # {} => \E t \in T : \A u \in T : <<u, t>> \notin before

LEMMA PlaceAllKeeps ==
  ASSUME NEW p, NEW ranges, IsFiniteSet(DOMAIN ranges), Sized(p, DOMAIN ranges),
         NEW before, HasForemost(DOMAIN ranges, before)
  PROVE  /\ DOMAIN PlaceAll(p, ranges, before) = DOMAIN ranges
         /\ Layout(p, ranges, PlaceAll(p, ranges, before))
<1> DEFINE S == DOMAIN ranges
           n == Cardinality(S)
           none == [t \in {} |-> 0]
           A == {at \in UNION {[D -> Nat] : D \in SUBSET S} : Layout(p, ranges, at)}
           Place(at) == PlaceBuffer(p, ranges, at, Foremost(S \ DOMAIN at, before))
           st == [q \in (1 .. n) \X A |-> IF DOMAIN q[2] = S THEN q[2] ELSE Place(q[2])]
           f == CHOOSE h : h = [k \in 0 .. n |-> IF k = 0 THEN none ELSE Place(h[k - 1])]
<1>1. n \in Nat
  BY FS_CardinalityType
<1>2. \A at \in A : Layout(p, ranges, at) /\ DOMAIN at \subseteq S
  BY DEF Layout
<1>3. ASSUME NEW at \in A, DOMAIN at # S
      PROVE  /\ Place(at) \in A
             /\ \E t \in S \ DOMAIN at : DOMAIN Place(at) = DOMAIN at \cup {t}
  <2> DEFINE t == Foremost(S \ DOMAIN at, before)
  <2>1. t \in S \ DOMAIN at
    <3>1. S \ DOMAIN at \in SUBSET S /\ S \ DOMAIN at # {}
      BY <1>2, <1>3
    <3>2. \E x \in S \ DOMAIN at : \A u \in S \ DOMAIN at : <<u, x>> \notin before
      BY <3>1 DEF HasForemost
    <3> QED
      BY <3>2 DEF Foremost
  <2> HIDE DEF t
  <2>2. /\ DOMAIN PlaceBuffer(p, ranges, at, t) = DOMAIN at \cup {t}
        /\ Layout(p, ranges, PlaceBuffer(p, ranges, at, t))
    BY <1>2, <2>1, PlaceBufferKeeps
  <2>3. PlaceBuffer(p, ranges, at, t) \in A
    BY <1>2, <2>1, <2>2 DEF Layout
  <2> HIDE DEF A
  <2> QED
    BY <2>1, <2>2, <2>3 DEF t
<1>4. none \in A
  <2>1. DOMAIN none = {} /\ none \in [{} -> Nat]
    OBVIOUS
  <2>2. Layout(p, ranges, none)
    BY <2>1 DEF Layout
  <2> HIDE DEF none
  <2> QED
    BY <2>1, <2>2
<1>5. DOMAIN none = {}
  OBVIOUS
<1> HIDE DEF A, none, Place
<1>6. st \in [(1 .. n) \X A -> A]
  BY <1>3
<1>7. PICK h \in [0 .. n -> A] : Recurs(n, none, st, h)
  <2> HIDE DEF st, f, n
  <2> QED
    BY <1>1, <1>4, <1>6, RecursionExists
<1>8. \A k \in 1 .. n : h[k] = IF DOMAIN h[k - 1] = S THEN h[k - 1] ELSE Place(h[k - 1])
  <2> SUFFICES ASSUME NEW k \in 1 .. n
               PROVE  h[k] = IF DOMAIN h[k - 1] = S THEN h[k - 1] ELSE Place(h[k - 1])
    OBVIOUS
  <2>1. k \in 0 .. n /\ k - 1 \in 0 .. n /\ k # 0
    BY <1>1
  <2>2. <<k, h[k - 1]>> \in (1 .. n) \X A
    BY <2>1
  <2>3. h[k] = st[<<k, h[k - 1]>>]
    BY <1>7, <2>1 DEF Recurs
  <2> HIDE DEF n, f
  <2> QED
    BY <2>2, <2>3
<1>9. h[0] = none
  <2>1. 0 \in 0 .. n
    BY <1>1
  <2> QED
    BY <1>7, <2>1 DEF Recurs
<1>10. \A k \in 0 .. n : Cardinality(DOMAIN h[k]) = k
  <2> DEFINE G == {m \in Nat : m <= n => Cardinality(DOMAIN h[m]) = m}
  <2>1. 0 \in G
    BY <1>5, <1>9, FS_EmptySet
  <2>2. ASSUME NEW m \in Nat, m \in G PROVE m + 1 \in G
    <3>1. CASE m + 1 <= n
      <4>1. m + 1 \in 1 .. n /\ (m + 1) - 1 = m /\ m \in 0 .. n /\ Cardinality(DOMAIN h[m]) = m
        BY <1>1, <2>2, <3>1
      <4>2. DOMAIN h[m] # S
        BY <1>1, <3>1, <4>1
      <4>3. h[m + 1] = Place(h[m]) /\ h[m] \in A
        BY <1>8, <4>1, <4>2
      <4>4. PICK t \in S \ DOMAIN h[m] : DOMAIN h[m + 1] = DOMAIN h[m] \cup {t}
        BY <1>3, <4>2, <4>3
      <4>5. IsFiniteSet(DOMAIN h[m])
        BY <1>2, <4>3, FS_Subset
      <4>6. Cardinality(DOMAIN h[m] \cup {t}) = Cardinality(DOMAIN h[m]) + 1
        BY <4>4, <4>5, FS_AddElement
      <4>7. Cardinality(DOMAIN h[m + 1]) = m + 1
        BY <4>1, <4>4, <4>6
      <4>8. m + 1 \in Nat
        BY <2>2
      <4> HIDE DEF n
      <4> QED
        BY <4>7, <4>8
    <3>2. CASE ~(m + 1 <= n)
      BY <3>2
    <3> QED
      BY <3>1, <3>2
  <2> HIDE DEF G
  <2>3. Nat \subseteq G
    BY <2>1, <2>2, NatInductive
  <2>4. \A m \in 0 .. n : m \in Nat /\ m <= n
    BY <1>1
  <2> QED
    BY <2>3, <2>4 DEF G
<1>11. \A k \in 0 .. n : h[k] = IF k = 0 THEN none ELSE Place(h[k - 1])
  <2> SUFFICES ASSUME NEW k \in 0 .. n, k # 0 PROVE h[k] = Place(h[k - 1])
    BY <1>9
  <2>1. k \in 1 .. n /\ k - 1 \in 0 .. n /\ k - 1 # n
    BY <1>1
  <2>2. Cardinality(DOMAIN h[k - 1]) = k - 1
    BY <1>10, <2>1
  <2>3. DOMAIN h[k - 1] # S
    BY <2>1, <2>2
  <2> QED
    BY <1>8, <2>1, <2>3
<1>12. h = [k \in 0 .. n |-> IF k = 0 THEN none ELSE Place(h[k - 1])]
  BY <1>11
<1>13. f = [k \in 0 .. n |-> IF k = 0 THEN none ELSE Place(f[k - 1])]
  <2> HIDE DEF n, st
  <2> QED
    BY <1>12
<1>14. PlaceAll(p, ranges, before) = f[n]
  BY DEF PlaceAll, Place, none
<1> HIDE DEF f, st
<1>15. \A k \in 0 .. n : f[k] = h[k]
  <2> DEFINE G == {m \in Nat : m <= n => f[m] = h[m]}
  <2>1. 0 \in G
    BY <1>1, <1>9, <1>13
  <2>2. ASSUME NEW m \in Nat, m \in G PROVE m + 1 \in G
    <3>1. CASE m + 1 <= n
      <4>1. m + 1 \in 0 .. n /\ (m + 1) - 1 = m /\ m + 1 # 0 /\ f[m] = h[m]
        BY <1>1, <2>2, <3>1
      <4>2. f[m + 1] = Place(f[m])
        BY <1>13, <4>1
      <4>3. h[m + 1] = Place(h[m])
        BY <1>11, <4>1
      <4> QED
        BY <4>1, <4>2, <4>3
    <3>2. CASE ~(m + 1 <= n)
      BY <3>2
    <3> QED
      BY <3>1, <3>2
  <2> HIDE DEF G
  <2>3. Nat \subseteq G
    BY <2>1, <2>2, NatInductive
  <2>4. \A m \in 0 .. n : m \in Nat /\ m <= n
    BY <1>1
  <2> QED
    BY <2>3, <2>4 DEF G
<1>16. n \in 0 .. n
  BY <1>1
<1>17. f[n] \in A /\ Cardinality(DOMAIN f[n]) = n
  BY <1>10, <1>15, <1>16
<1>18. DOMAIN f[n] = S
  BY <1>2, <1>17, FS_Subset
<1> QED
  BY <1>2, <1>14, <1>17, <1>18

LEMMA BySizeFirst ==
  ASSUME NEW p, NEW S, IsFiniteSet(S), \A t \in S : BufferBytes(p, t) \in Nat
  PROVE  HasForemost(S, {q \in S \X S : BySize(p, q[1], q[2])})
<1> SUFFICES ASSUME NEW T \in SUBSET S, T # {}
             PROVE  \E t \in T : \A u \in T : ~BySize(p, u, t)
  BY DEF HasForemost
<1> DEFINE bytes == [t \in T |-> BufferBytes(p, t)]
<1>1. \A t \in T : bytes[t] = BufferBytes(p, t) /\ bytes[t] \in Int
  OBVIOUS
<1>2. IsFiniteSet(T)
  BY FS_Subset
<1> HIDE DEF bytes
<1>3. PICK t \in T : \A u \in T : bytes[u] <= bytes[t]
  BY <1>1, <1>2, GreatestElement
<1> QED
  BY <1>1, <1>3 DEF BySize

LEMMA ByStartFirst ==
  ASSUME NEW p, NEW S, IsFiniteSet(S), \A t \in S : BufferBytes(p, t) \in Nat,
         NEW ranges \in [S -> [first : Int, last : Int]]
  PROVE  HasForemost(S, {q \in S \X S : ByStart(p, ranges, q[1], q[2])})
<1> SUFFICES ASSUME NEW T \in SUBSET S, T # {}
             PROVE  \E t \in T : \A u \in T : ~ByStart(p, ranges, u, t)
  BY DEF HasForemost
<1> DEFINE early == [t \in T |-> -(ranges[t].first)]
           late == [t \in T |-> ranges[t].last]
           bytes == [t \in T |-> BufferBytes(p, t)]
<1>1. \A t \in T : /\ ranges[t].first \in Int /\ ranges[t].last \in Int
                   /\ early[t] = -(ranges[t].first) /\ early[t] \in Int
                   /\ late[t] = ranges[t].last /\ late[t] \in Int
                   /\ bytes[t] = BufferBytes(p, t) /\ bytes[t] \in Int
  OBVIOUS
<1>2. \A U \in SUBSET T : IsFiniteSet(U)
  BY FS_Subset
<1> HIDE DEF early, late, bytes
<1>3. PICK a \in T : \A u \in T : early[u] <= early[a]
  BY <1>1, <1>2, GreatestElement
<1> DEFINE A == {t \in T : ranges[t].first = ranges[a].first}
<1>4. PICK b \in A : \A u \in A : late[u] <= late[b]
  <2>1. A # {} /\ A \in SUBSET T
    OBVIOUS
  <2> HIDE DEF A
  <2> QED
    BY <1>1, <1>2, <2>1, GreatestElement
<1> DEFINE B == {t \in A : ranges[t].last = ranges[b].last}
<1>5. PICK c \in B : \A u \in B : bytes[u] <= bytes[c]
  <2>1. B # {} /\ B \in SUBSET T
    OBVIOUS
  <2> HIDE DEF B
  <2> QED
    BY <1>1, <1>2, <2>1, GreatestElement
<1>6. \A u \in T : ranges[c].first <= ranges[u].first
  BY <1>1, <1>3
<1>7. \A u \in A : ranges[u].last <= ranges[c].last
  BY <1>1, <1>4
<1>8. \A u \in B : BufferBytes(p, u) <= BufferBytes(p, c)
  BY <1>1, <1>5
<1>9. ASSUME NEW u \in T, ByStart(p, ranges, u, c) PROVE FALSE
  <2>1. ~(ranges[u].first < ranges[c].first)
    BY <1>1, <1>6
  <2>2. ranges[u].first = ranges[c].first
    BY <1>9, <2>1 DEF ByStart
  <2>3. u \in A
    BY <2>2
  <2>4. ~(ranges[u].last > ranges[c].last)
    BY <1>1, <1>7, <2>3
  <2>5. ranges[u] = ranges[c] /\ BySize(p, u, c)
    BY <1>9, <2>1, <2>4 DEF ByStart
  <2>6. u \in B
    BY <2>3, <2>5
  <2> QED
    BY <1>1, <1>8, <2>5, <2>6 DEF BySize
<1> QED
  BY <1>9

\* Whichever of the two layouts is taken, it is one.
LEMMA AllocateKeeps ==
  ASSUME NEW p, NEW S, IsFiniteSet(S), \A t \in S : BufferBytes(p, t) \in Nat,
         NEW ranges \in [S -> [first : Int, last : Int]]
  PROVE  DOMAIN Allocate(p, ranges) = S /\ Layout(p, ranges, Allocate(p, ranges))
<1> DEFINE bySize == {q \in S \X S : BySize(p, q[1], q[2])}
           byStart == {q \in S \X S : ByStart(p, ranges, q[1], q[2])}
<1>1. S = DOMAIN ranges
  OBVIOUS
<1>2. Sized(p, S)
  <2> SUFFICES ASSUME NEW t \in S PROVE Blocks(p, t) \in Nat
    BY DEF Sized
  <2> DEFINE a == BufferBytes(p, t)
  <2>1. a \in Nat /\ Alignment \in Nat \ {0}
    BY AlignmentAssumption
  <2> HIDE DEF a
  <2>2. a + Alignment - 1 \in Nat
    BY <2>1
  <2>3. (a + Alignment - 1) \div Alignment \in Nat
    BY <2>1, <2>2
  <2> QED
    BY <2>3 DEF Blocks, a
<1>3. HasForemost(S, bySize)
  BY BySizeFirst
<1>4. HasForemost(S, byStart)
  BY ByStartFirst
<1>5. Allocate(p, ranges) \in {PlaceAll(p, ranges, bySize), PlaceAll(p, ranges, byStart)}
  BY <1>1 DEF Allocate
<1> HIDE DEF bySize, byStart
<1>6. \A before : HasForemost(S, before) =>
        /\ DOMAIN PlaceAll(p, ranges, before) = S
        /\ Layout(p, ranges, PlaceAll(p, ranges, before))
  BY <1>1, <1>2, PlaceAllKeeps
<1> QED
  BY <1>3, <1>4, <1>5, <1>6

-----------------------------------------------------------------------------
(* Live ranges: a buffer is reserved while any tensor in it is wanted.     *)

\* Each arena tensor has one place of definition.
LEMMA Definitions ==
  ASSUME NEW p, InTheArena(p)
  PROVE  /\ \A t \in ToSet(p.inputs) : FirstDef(p, t) = -1
         /\ \A i \in Rows(p.ops) : \A t \in ToSet(Row(p.ops, i).outs) : FirstDef(p, t) = i
         /\ \A t \in ArenaTensors(p) :
              \/ t \in ToSet(p.inputs) /\ FirstDef(p, t) = -1
              \/ /\ FirstDef(p, t) \in Rows(p.ops)
                 /\ t \in ToSet(Row(p.ops, FirstDef(p, t)).outs)
<1>1. \A t \in ToSet(p.inputs) : FirstDef(p, t) = -1
  BY DEF FirstDef
<1>2. ASSUME NEW i \in Rows(p.ops), NEW t \in ToSet(Row(p.ops, i).outs)
      PROVE  FirstDef(p, t) = i
  <2>1. t \notin ToSet(p.inputs)
    BY DEF InTheArena
  <2>2. Writers(p.ops, t) = {i}
    BY DEF InTheArena, SingleWriters, Writers
  <2>3. i \in Int
    BY DEF Rows
  <2>4. Max({i}) = i
    <3> DEFINE S == {i}
    <3>1. IsFiniteSet(S) /\ S \subseteq Int /\ S # {}
      BY <2>3, FS_Singleton
    <3> HIDE DEF S
    <3>2. Max(S) \in S
      BY <3>1, Extremes
    <3> QED
      BY <3>2 DEF S
  <2> QED
    BY <2>1, <2>2, <2>4 DEF FirstDef
<1>3. ASSUME NEW t \in ArenaTensors(p), t \notin ToSet(p.inputs)
      PROVE  \E i \in Rows(p.ops) : t \in ToSet(Row(p.ops, i).outs)
  BY <1>3 DEF ArenaTensors
<1> QED
  BY <1>1, <1>2, <1>3

\* A tensor is in use from where it is defined to its last reader, and to the
\* end if the caller fetches it.
LEMMA Uses ==
  ASSUME NEW p, InTheArena(p)
  PROVE  /\ Len(p.ops) \in Nat
         /\ \A t \in ArenaTensors(p) :
              /\ FirstDef(p, t) \in -1 .. Len(p.ops) - 1
              /\ LastUse(p, t) \in Int /\ FirstDef(p, t) <= LastUse(p, t)
              /\ \A i \in Rows(p.ops) : t \in InputsOf(p.ops, i) => i <= LastUse(p, t)
              /\ t \in p.outputs => LastUse(p, t) = Len(p.ops) - 1
<1>1. Len(p.ops) \in Nat
  BY DEF InTheArena
<1> SUFFICES ASSUME NEW t \in ArenaTensors(p)
             PROVE  /\ FirstDef(p, t) \in -1 .. Len(p.ops) - 1
                    /\ LastUse(p, t) \in Int /\ FirstDef(p, t) <= LastUse(p, t)
                    /\ \A i \in Rows(p.ops) : t \in InputsOf(p.ops, i) => i <= LastUse(p, t)
                    /\ t \in p.outputs => LastUse(p, t) = Len(p.ops) - 1
  BY <1>1
<1>2. FirstDef(p, t) \in -1 .. Len(p.ops) - 1
  <2>1. FirstDef(p, t) = -1 \/ FirstDef(p, t) \in Rows(p.ops)
    BY Definitions
  <2> QED
    BY <1>1, <2>1 DEF Rows
<1>3. CASE t \in p.outputs
  <2>1. LastUse(p, t) = Len(p.ops) - 1
    BY <1>3 DEF LastUse
  <2> QED
    BY <1>1, <1>2, <2>1 DEF Rows
<1>4. CASE t \notin p.outputs
  <2> DEFINE S == {FirstDef(p, t)} \cup Readers(p, t)
  <2>1. IsFiniteSet(Readers(p, t))
    <3>1. Readers(p, t) \subseteq 0 .. Len(p.ops) - 1
      BY DEF Readers, Rows
    <3>2. IsFiniteSet(0 .. Len(p.ops) - 1)
      BY <1>1, FS_Interval
    <3> QED
      BY <3>1, <3>2, FS_Subset
  <2>2. IsFiniteSet(S)
    BY <2>1, FS_Singleton, FS_Union
  <2>3. S \subseteq Int /\ S # {}
    BY <1>2 DEF Readers, Rows
  <2>4. LastUse(p, t) = Max(S)
    BY <1>4 DEF LastUse
  <2>5. FirstDef(p, t) \in S /\ \A i \in Rows(p.ops) : t \in InputsOf(p.ops, i) => i \in S
    BY DEF Readers
  <2> HIDE DEF S
  <2>6. Max(S) \in S /\ \A x \in S : x <= Max(S)
    BY <2>2, <2>3, Extremes
  <2> QED
    BY <1>2, <1>4, <2>3, <2>4, <2>5, <2>6
<1> QED
  BY <1>3, <1>4

LEMMA ArenaIsFinite ==
  ASSUME NEW p, InTheArena(p)
  PROVE  IsFiniteSet(ArenaTensors(p))
<1> DEFINE def == [t \in ArenaTensors(p) \ ToSet(p.inputs) |-> FirstDef(p, t)]
           outs == {ToSet(Row(p.ops, i).outs) : i \in Rows(p.ops)}
<1>1. \A s : \A T : s \in Seq(T) => IsFiniteSet(ToSet(s))
  <2> SUFFICES ASSUME NEW s, NEW T, s \in Seq(T) PROVE IsFiniteSet(ToSet(s))
    OBVIOUS
  <2>1. s \in Surjection(DOMAIN s, ToSet(s))
    BY DEF Surjection, ToSet
  <2>2. DOMAIN s = 1 .. Len(s) /\ IsFiniteSet(1 .. Len(s))
    BY FS_Interval
  <2> QED
    BY <2>1, <2>2, FS_Surjection
<1>2. IsFiniteSet(ToSet(p.inputs))
  BY <1>1 DEF InTheArena
<1>3. \A i \in Rows(p.ops) : Row(p.ops, i).outs \in Seq(Name)
  <2> SUFFICES ASSUME NEW i \in Rows(p.ops) PROVE Row(p.ops, i).outs \in Seq(Name)
    OBVIOUS
  <2>1. Row(p.ops, i) \in LoweredOp
    <3>1. i + 1 \in 1 .. Len(p.ops) /\ p.ops \in Seq(LoweredOp)
      BY DEF InTheArena, Rows
    <3> QED
      BY <3>1 DEF Row
  <2> QED
    BY <2>1 DEF LoweredOp
<1>4. \A i \in Rows(p.ops) : IsFiniteSet(ToSet(Row(p.ops, i).outs))
  BY <1>1, <1>3
<1>5. IsFiniteSet(outs)
  <2> DEFINE f == [i \in Rows(p.ops) |-> ToSet(Row(p.ops, i).outs)]
  <2>1. f \in Surjection(Rows(p.ops), outs)
    BY DEF Surjection
  <2>2. IsFiniteSet(Rows(p.ops))
    BY FS_Interval DEF Rows, InTheArena
  <2> HIDE DEF f, outs
  <2> QED
    BY <2>1, <2>2, FS_Surjection
<1>6. \A o \in outs : IsFiniteSet(o)
  BY <1>4
<1>7. IsFiniteSet(UNION outs)
  <2> HIDE DEF outs
  <2> QED
    BY <1>5, <1>6, FS_UNION
<1> QED
  BY <1>2, <1>7, FS_Union DEF ArenaTensors

\* Following aliases goes back to earlier definitions, and ends at the root.
RootsAreFirst(p, root) ==
  \A t \in ArenaTensors(p) :
    /\ root[root[t]] = root[t]
    /\ root[t] # t => FirstDef(p, root[t]) < FirstDef(p, t)

LEMMA RootsComeFirst ==
  ASSUME NEW p, InTheArena(p), NEW root, RowsAlias(p, root)
  PROVE  RootsAreFirst(p, root)
<1> DEFINE First(t) == /\ root[root[t]] = root[t]
                       /\ root[t] # t => FirstDef(p, root[t]) < FirstDef(p, t)
           G == {n \in Nat : \A t \in ArenaTensors(p) : FirstDef(p, t) < n => First(t)}
<1>1. \A t \in ArenaTensors(p) : FirstDef(p, t) \in Int /\ FirstDef(p, t) + 1 \in Nat
  BY Uses
<1>2. ASSUME NEW t \in ArenaTensors(p), root[t] # t,
             \A u \in ArenaTensors(p) : FirstDef(p, u) < FirstDef(p, t) => First(u)
      PROVE  First(t)
  <2>1. PICK i \in Rows(p.ops) : Aliases(p, i) /\ t = Result(p, i)
    BY <1>2 DEF RowsAlias
  <2> DEFINE u == Operand(p, i)
  <2>2. /\ u \in InputsOf(p.ops, i) /\ u \in ArenaTensors(p)
        /\ t \in ToSet(Row(p.ops, i).outs) /\ root[t] = root[u]
    BY <2>1 DEF RowsAlias
  <2>3. FirstDef(p, t) = i
    BY <2>2, Definitions
  <2>4. FirstDef(p, u) < i
    <3>1. CASE FirstDef(p, u) = -1
      BY <2>1, <3>1 DEF Rows
    <3>2. CASE FirstDef(p, u) \in Rows(p.ops) /\ u \in ToSet(Row(p.ops, FirstDef(p, u)).outs)
      BY <2>1, <2>2, <3>2 DEF InTheArena, Ordered
    <3> QED
      BY <2>2, <3>1, <3>2, Definitions
  <2>5. First(u)
    BY <1>2, <2>2, <2>3, <2>4
  <2>6. FirstDef(p, root[u]) <= FirstDef(p, u)
    <3>1. root[u] \in ArenaTensors(p)
      BY <2>2 DEF RowsAlias
    <3> HIDE DEF u
    <3> QED
      BY <1>1, <2>2, <2>5, <3>1
  <2>7. root[t] \in ArenaTensors(p)
    BY DEF RowsAlias
  <2> HIDE DEF u
  <2> QED
    BY <1>1, <2>2, <2>3, <2>4, <2>5, <2>6, <2>7
<1>3. \A t \in ArenaTensors(p) : root[t] = t => First(t)
  OBVIOUS
<1> HIDE DEF First
<1>4. 0 \in G
  <2>1. \A t \in ArenaTensors(p) : FirstDef(p, t) < 0 => root[t] = t
    <3> SUFFICES ASSUME NEW t \in ArenaTensors(p), FirstDef(p, t) < 0, root[t] # t PROVE FALSE
      OBVIOUS
    <3>1. PICK i \in Rows(p.ops) : t \in ToSet(Row(p.ops, i).outs)
      BY DEF RowsAlias
    <3>2. FirstDef(p, t) = i
      BY <3>1, Definitions
    <3> QED
      BY <3>1, <3>2 DEF Rows
  <2> QED
    BY <1>3, <2>1
<1>5. \A n \in Nat : n \in G => n + 1 \in G
  <2> SUFFICES ASSUME NEW n \in Nat, n \in G,
                      NEW t \in ArenaTensors(p), FirstDef(p, t) < n + 1
               PROVE  First(t)
    OBVIOUS
  <2>1. \A u \in ArenaTensors(p) : FirstDef(p, u) < FirstDef(p, t) => First(u)
    BY <1>1
  <2> QED
    BY <1>2, <1>3, <2>1
<1> HIDE DEF G
<1>6. Nat \subseteq G
  BY <1>4, <1>5, NatInductive
<1>7. ASSUME NEW t \in ArenaTensors(p) PROVE First(t)
  <2>1. FirstDef(p, t) + 1 \in G /\ FirstDef(p, t) < FirstDef(p, t) + 1
    BY <1>1, <1>6
  <2> QED
    BY <2>1 DEF G
<1> QED
  BY <1>7 DEF First, RootsAreFirst

\* What a reservation covers: the whole use of each tensor in the buffer, from
\* the first row that writes one of them.
Reserves(p, root, ranges) ==
  \A t \in ArenaTensors(p) :
    /\ root[t] \in DOMAIN ranges
    /\ FirstDef(p, t) = -1 \/ ranges[root[t]].first <= FirstDef(p, t)
    /\ LastUse(p, t) <= ranges[root[t]].last

LEMMA RangesReserve ==
  ASSUME NEW p, InTheArena(p), NEW root, RowsAlias(p, root)
  PROVE  LET S == {t \in ArenaTensors(p) : root[t] = t}
         IN  /\ IsFiniteSet(S)
             /\ LiveRanges(p, root) \in [S -> [first : Int, last : Int]]
             /\ Reserves(p, root, LiveRanges(p, root))
<1> DEFINE S == {t \in ArenaTensors(p) : root[t] = t}
           ranges == LiveRanges(p, root)
           defs(r) == {FirstDef(p, t) : t \in Sharing(p, root, r)} \ {-1}
           uses(r) == {LastUse(p, t) : t \in Sharing(p, root, r)}
<1>1. IsFiniteSet(S)
  BY ArenaIsFinite, FS_Subset
<1>2. \A t \in ArenaTensors(p) : FirstDef(p, t) \in Int /\ LastUse(p, t) \in Int
  BY Uses
<1>3. ASSUME NEW r \in S
      PROVE  /\ IsFiniteSet(defs(r)) /\ defs(r) \subseteq Int
             /\ IsFiniteSet(uses(r)) /\ uses(r) \subseteq Int /\ uses(r) # {}
  <2> DEFINE T == Sharing(p, root, r)
             f == [t \in T |-> FirstDef(p, t)]
             l == [t \in T |-> LastUse(p, t)]
  <2>1. T \subseteq ArenaTensors(p) /\ r \in T
    BY DEF Sharing
  <2>2. IsFiniteSet(T)
    BY <2>1, ArenaIsFinite, FS_Subset
  <2>3. f \in Surjection(T, {FirstDef(p, t) : t \in T}) /\ l \in Surjection(T, uses(r))
    BY DEF Surjection
  <2> HIDE DEF f, l, T
  <2>4. IsFiniteSet({FirstDef(p, t) : t \in T}) /\ IsFiniteSet(uses(r))
    BY <2>2, <2>3, FS_Surjection
  <2>5. IsFiniteSet(defs(r))
    BY <2>4, FS_Subset DEF T
  <2> QED
    BY <1>2, <2>1, <2>4, <2>5 DEF T
<1>4. ASSUME NEW r \in S
      PROVE  /\ ranges[r] = [first |-> IF defs(r) = {} THEN -1 ELSE Min(defs(r)),
                             last  |-> Max(uses(r))]
  BY DEF LiveRanges, Folded
<1> HIDE DEF ranges, defs, uses
<1>5. ASSUME NEW r \in S
      PROVE  /\ ranges[r] \in [first : Int, last : Int]
             /\ \A x \in defs(r) : ranges[r].first <= x
             /\ \A x \in uses(r) : x <= ranges[r].last
  <2> DEFINE a == IF defs(r) = {} THEN -1 ELSE Min(defs(r))
             b == Max(uses(r))
  <2>1. b \in Int /\ \A x \in uses(r) : x <= b
    BY <1>3, Extremes
  <2>2. a \in Int /\ \A x \in defs(r) : a <= x
    <3>1. CASE defs(r) = {}
      BY <3>1
    <3>2. CASE defs(r) # {}
      BY <1>3, <3>2, Extremes
    <3> QED
      BY <3>1, <3>2
  <2>3. ranges[r] = [first |-> a, last |-> b]
    BY <1>4
  <2> HIDE DEF a, b
  <2> QED
    BY <2>1, <2>2, <2>3
<1>6. ranges \in [S -> [first : Int, last : Int]]
  <2>1. ranges = [r \in S |-> ranges[r]]
    BY DEF ranges, LiveRanges
  <2> QED
    BY <1>5, <2>1
<1>7. ASSUME NEW t \in ArenaTensors(p)
      PROVE  /\ root[t] \in DOMAIN ranges
             /\ FirstDef(p, t) = -1 \/ ranges[root[t]].first <= FirstDef(p, t)
             /\ LastUse(p, t) <= ranges[root[t]].last
  <2>1. root[t] \in S
    BY RootsComeFirst DEF RootsAreFirst, RowsAlias
  <2>2. t \in Sharing(p, root, root[t])
    BY DEF Sharing
  <2>3. FirstDef(p, t) = -1 \/ FirstDef(p, t) \in defs(root[t])
    BY <2>2 DEF defs
  <2>4. LastUse(p, t) \in uses(root[t])
    BY <2>2 DEF uses
  <2> QED
    BY <1>5, <1>6, <2>1, <2>3, <2>4
<1>8. Reserves(p, root, ranges)
  BY <1>7 DEF Reserves
<1> QED
  BY <1>1, <1>6, <1>8 DEF ranges

-----------------------------------------------------------------------------
(* Two tensors in the same bytes.                                          *)

\* t is still to be read when k rows have run, or is fetched at the end.
Wanted(p, t, k) ==
  t \in p.outputs \/ \E i \in Rows(p.ops) : k <= i /\ t \in InputsOf(p.ops, i)

\* A tensor's blocks are within its buffer.
LEMMA BlocksAreInBuffers ==
  ASSUME NEW p, InTheArena(p), NEW root, RowsAlias(p, root),
         NEW ranges, NEW at, Layout(p, ranges, at), DOMAIN at = DOMAIN ranges,
         Reserves(p, root, ranges),
         NEW t \in ArenaTensors(p), NEW u \in ArenaTensors(p), root[t] # root[u],
         Avoids(ranges, root[t], root[u])
  PROVE  TensorTable(p, root, at)[t] \cap TensorTable(p, root, at)[u] = {}
<1> DEFINE r == root[t]
           s == root[u]
           a == at[r]
           b == at[s]
           bt == Blocks(p, t)
           bu == Blocks(p, u)
           br == Blocks(p, r)
           bs == Blocks(p, s)
<1>1. r \in DOMAIN at /\ s \in DOMAIN at
  BY DEF Reserves
<1>2. a \in Nat /\ b \in Nat
  BY <1>1 DEF Layout
<1>3. a + br <= b \/ b + bs <= a
  BY <1>1 DEF Layout, Apart
<1>4. \A v \in ArenaTensors(p) : Blocks(p, v) \in Int
  BY AlignmentAssumption DEF Blocks, InTheArena
<1>5. /\ bt \in Int /\ bu \in Int /\ br \in Int /\ bs \in Int /\ bt <= br /\ bu <= bs
  <2>1. r \in ArenaTensors(p) /\ s \in ArenaTensors(p) /\ bt <= br /\ bu <= bs
    BY DEF RowsAlias
  <2> QED
    BY <1>4, <2>1
<1>6. TensorTable(p, root, at)[t] = a .. a + bt - 1 /\ TensorTable(p, root, at)[u] = b .. b + bu - 1
  BY DEF TensorTable
<1> HIDE DEF r, s, a, b, bt, bu, br, bs
<1> QED
  BY <1>2, <1>3, <1>5, <1>6

\* Buffers reserved at the same time are disjoint, and so are the tensors in them.
Separate(p, root, ranges, blocks) ==
  \A t, u \in ArenaTensors(p) :
    root[t] # root[u] /\ Avoids(ranges, root[t], root[u]) => blocks[t] \cap blocks[u] = {}

ViewsCover(p, blocks) ==
  \A i \in Rows(p.ops) : IsView(p, i) => blocks[Operand(p, i)] = blocks[Result(p, i)]

\* What the planner owes the graph, with the two cases it gets wrong left out.
InputsReserved(p, ranges) ==
  \A t \in ToSet(p.inputs) \cap DOMAIN ranges : ranges[t].first = -1

OverwritesTheDead(p, root) ==
  \A i \in Rows(p.ops) : \A t \in ArenaTensors(p) :
    IsInPlace(p, i) /\ root[t] = root[Operand(p, i)] /\ FirstDef(p, t) < i
      => t \notin p.outputs /\ LastUse(p, t) <= i

Arranged(p, root, ranges, blocks) ==
  /\ InTheArena(p) /\ RowsAlias(p, root)
  /\ ranges \in [DOMAIN ranges -> [first : Int, last : Int]]
  /\ Reserves(p, root, ranges)
  /\ Separate(p, root, ranges, blocks) /\ ViewsCover(p, blocks)
  /\ InputsReserved(p, ranges) /\ OverwritesTheDead(p, root)

LEMMA InputsAreRoots ==
  ASSUME NEW p, InTheArena(p), NEW root, RowsAlias(p, root), NEW t \in ToSet(p.inputs)
  PROVE  t \in ArenaTensors(p) /\ root[t] = t
<1>1. t \in ArenaTensors(p)
  BY DEF ArenaTensors
<1>2. \A i \in Rows(p.ops) : t \notin ToSet(Row(p.ops, i).outs)
  BY DEF InTheArena
<1>3. \A i \in Rows(p.ops) : Aliases(p, i) => Result(p, i) \in ToSet(Row(p.ops, i).outs)
  BY DEF RowsAlias
<1>4. root[t] # t => \E i \in Rows(p.ops) : Aliases(p, i) /\ t = Result(p, i)
  BY <1>1 DEF RowsAlias
<1> QED
  BY <1>1, <1>2, <1>3, <1>4

\* What a row writes shares bytes with a tensor that is still wanted only as a
\* view of it.
LEMMA OnlyViewsShare ==
  ASSUME NEW p, NEW root, NEW ranges, NEW blocks, Arranged(p, root, ranges, blocks),
         NEW k \in Rows(p.ops), NEW w \in ToSet(Row(p.ops, k).outs),
         NEW t \in ArenaTensors(p), FirstDef(p, t) <= k, Wanted(p, t, k + 1),
         t # w, blocks[t] \cap blocks[w] # {}
  PROVE  FirstDef(p, t) < k /\ IsView(p, k) /\ w = Result(p, k)
<1>1. InTheArena(p) /\ RowsAlias(p, root) /\ RootsAreFirst(p, root)
  BY RootsComeFirst DEF Arranged
<1>2. w \in ArenaTensors(p) /\ FirstDef(p, w) = k
  BY <1>1, Definitions DEF ArenaTensors
<1>3. /\ k \in Int /\ k <= Len(p.ops) - 1 /\ Len(p.ops) \in Nat
      /\ FirstDef(p, t) \in Int /\ LastUse(p, t) \in Int /\ LastUse(p, w) \in Int
      /\ k <= LastUse(p, w)
  BY <1>1, <1>2, Uses DEF Rows
<1>4. k <= LastUse(p, t) /\ (t \in p.outputs \/ k < LastUse(p, t))
  <2>1. CASE t \in p.outputs
    BY <1>1, <1>3, <2>1, Uses
  <2>2. CASE \E i \in Rows(p.ops) : k + 1 <= i /\ t \in InputsOf(p.ops, i)
    <3>1. PICK i \in Rows(p.ops) : k + 1 <= i /\ t \in InputsOf(p.ops, i)
      BY <2>2
    <3>2. i <= LastUse(p, t) /\ i \in Int
      BY <1>1, <3>1, Uses DEF Rows
    <3> QED
      BY <1>3, <3>1, <3>2
  <2> QED
    BY <2>1, <2>2 DEF Wanted
<1>5. /\ root[t] \in DOMAIN ranges /\ root[w] \in DOMAIN ranges
      /\ ranges[root[t]] \in [first : Int, last : Int]
      /\ ranges[root[w]] \in [first : Int, last : Int]
      /\ FirstDef(p, t) = -1 \/ ranges[root[t]].first <= FirstDef(p, t)
      /\ LastUse(p, t) <= ranges[root[t]].last
      /\ FirstDef(p, w) = -1 \/ ranges[root[w]].first <= FirstDef(p, w)
      /\ LastUse(p, w) <= ranges[root[w]].last
  BY <1>2 DEF Arranged, Reserves
<1>6. ranges[root[t]].first <= k
  <2>1. CASE FirstDef(p, t) = -1
    <3>1. t \in ToSet(p.inputs)
      BY <1>1, <2>1, Definitions DEF Rows
    <3>2. root[t] = t
      BY <1>1, <3>1, InputsAreRoots
    <3>3. ranges[t].first = -1
      BY <1>5, <3>1, <3>2 DEF Arranged, InputsReserved
    <3>4. -1 <= k
      BY <1>3 DEF Rows
    <3> QED
      BY <3>2, <3>3, <3>4
  <2>2. CASE FirstDef(p, t) # -1
    BY <1>3, <1>5, <2>2
  <2> QED
    BY <2>1, <2>2
<1>7. Avoids(ranges, root[t], root[w])
  <2>1. ranges[root[t]].first <= ranges[root[w]].last
    BY <1>3, <1>5, <1>6
  <2>2. ranges[root[w]].first <= ranges[root[t]].last
    <3>1. k # -1
      BY DEF Rows
    <3> QED
      BY <1>2, <1>3, <1>4, <1>5, <3>1
  <2> QED
    BY <2>1, <2>2 DEF Avoids, RangesOverlap
<1>8. root[t] = root[w]
  BY <1>2, <1>7 DEF Arranged, Separate
<1>9. root[w] # w
  <2> SUFFICES ASSUME root[w] = w PROVE FALSE
    OBVIOUS
  <2>1. FirstDef(p, w) < FirstDef(p, t)
    BY <1>1, <1>8 DEF RootsAreFirst
  <2> QED
    BY <1>2, <1>3, <2>1
<1>10. Aliases(p, k) /\ w = Result(p, k)
  <2>1. PICK j \in Rows(p.ops) : Aliases(p, j) /\ w = Result(p, j)
    BY <1>1, <1>2, <1>9 DEF RowsAlias
  <2>2. w \in ToSet(Row(p.ops, j).outs)
    BY <1>1, <2>1 DEF RowsAlias
  <2>3. FirstDef(p, w) = j
    BY <1>1, <2>2, Definitions
  <2> QED
    BY <1>2, <2>1, <2>3
<1>11. FirstDef(p, t) < k
  <2> SUFFICES ASSUME FirstDef(p, t) = k PROVE FALSE
    BY <1>3
  <2>1. CASE root[t] = t
    <3>1. FirstDef(p, t) < FirstDef(p, w)
      BY <1>1, <1>2, <1>8, <1>9, <2>1 DEF RootsAreFirst
    <3> QED
      BY <1>2, <1>3, <3>1
  <2>2. CASE root[t] # t
    <3>1. PICK j \in Rows(p.ops) : Aliases(p, j) /\ t = Result(p, j)
      BY <1>1, <2>2 DEF RowsAlias
    <3>2. t \in ToSet(Row(p.ops, j).outs)
      BY <1>1, <3>1 DEF RowsAlias
    <3>3. FirstDef(p, t) = j
      BY <1>1, <3>2, Definitions
    <3> QED
      BY <1>10, <3>1, <3>3
  <2> QED
    BY <2>1, <2>2
<1>12. ~IsInPlace(p, k)
  <2> SUFFICES ASSUME IsInPlace(p, k) PROVE FALSE
    OBVIOUS
  <2>1. root[t] = root[Operand(p, k)]
    BY <1>1, <1>8, <1>10 DEF RowsAlias
  <2>2. t \notin p.outputs /\ LastUse(p, t) <= k
    BY <1>11, <2>1 DEF Arranged, OverwritesTheDead
  <2> QED
    BY <1>3, <1>4, <2>2
<1> QED
  BY <1>10, <1>11, <1>12 DEF Aliases

\* Inputs have bytes of their own.
LEMMA InputsAreApart ==
  ASSUME NEW p, NEW root, NEW ranges, NEW blocks, Arranged(p, root, ranges, blocks),
         NEW t \in ToSet(p.inputs), NEW u \in ToSet(p.inputs), t # u
  PROVE  blocks[t] \cap blocks[u] = {}
<1>1. \A v \in ToSet(p.inputs) : v \in ArenaTensors(p) /\ root[v] = v
  BY InputsAreRoots DEF Arranged
<1>2. \A v \in ToSet(p.inputs) :
        ranges[v].first = -1 /\ ranges[v].last \in Int /\ -1 <= ranges[v].last
  <2> SUFFICES ASSUME NEW v \in ToSet(p.inputs)
               PROVE  ranges[v].first = -1 /\ ranges[v].last \in Int /\ -1 <= ranges[v].last
    OBVIOUS
  <2>1. /\ v \in DOMAIN ranges /\ LastUse(p, v) <= ranges[v].last
        /\ ranges[v] \in [first : Int, last : Int]
    BY <1>1 DEF Arranged, Reserves
  <2>2. ranges[v].first = -1
    BY <2>1 DEF Arranged, InputsReserved
  <2>3. FirstDef(p, v) = -1 /\ FirstDef(p, v) <= LastUse(p, v) /\ LastUse(p, v) \in Int
    BY <1>1, Uses, Definitions DEF Arranged
  <2> QED
    BY <2>1, <2>2, <2>3
<1>3. Avoids(ranges, t, u)
  BY <1>2 DEF Avoids, RangesOverlap
<1> QED
  BY <1>1, <1>3 DEF Arranged, Separate

-----------------------------------------------------------------------------
(* The rows run by index.                                                  *)

\* What the memory map says of a planned graph.
Describes(m, p, blocks) ==
  /\ m.reads = [i \in Rows(p.ops) |-> InputsOf(p.ops, i) \cap ArenaTensors(p)]
  /\ m.writes = [i \in Rows(p.ops) |-> ToSet(Row(p.ops, i).outs)]
  /\ m.blocks = blocks /\ m.inputs = p.inputs
  /\ m.outputs = p.outputs \cap ArenaTensors(p)
  /\ \A i \in Rows(p.ops) : IsView(p, i) => m.meaning[Result(p, i)] = m.meaning[Operand(p, i)]

LEMMA MapDescribes ==
  ASSUME NEW p, InTheArena(p), NEW root, RowsAlias(p, root), NEW blocks
  PROVE  /\ Describes(MapOf(p, blocks), p, blocks)
         /\ MapOf(p, blocks).meaning \in [Known(p) -> Known(p)]
<1> DEFINE views == {Result(p, i) : i \in {j \in Rows(p.ops) : IsView(p, j)}}
           viewOf == [t \in views |->
                        Operand(p, CHOOSE i \in Rows(p.ops) : IsView(p, i) /\ Result(p, i) = t)]
           m == MapOf(p, blocks)
<1>1. \A i \in Rows(p.ops) : IsView(p, i) =>
        /\ Operand(p, i) \in InputsOf(p.ops, i) \cap ArenaTensors(p)
        /\ Result(p, i) \in ToSet(Row(p.ops, i).outs)
  BY DEF RowsAlias, Aliases
<1>2. ASSUME NEW i \in Rows(p.ops), IsView(p, i)
      PROVE  Result(p, i) \in DOMAIN viewOf /\ viewOf[Result(p, i)] = Operand(p, i)
  <2>1. Result(p, i) \in views
    BY <1>2
  <2> DEFINE j == CHOOSE j \in Rows(p.ops) : IsView(p, j) /\ Result(p, j) = Result(p, i)
  <2>2. j \in Rows(p.ops) /\ IsView(p, j) /\ Result(p, j) = Result(p, i)
    BY <1>2
  <2> HIDE DEF j
  <2>3. j = i
    BY <1>1, <1>2, <2>2 DEF InTheArena, SingleWriters
  <2> QED
    BY <2>1, <2>3 DEF j
<1>3. AliasesGoBack(p, viewOf)
  <2> SUFFICES ASSUME NEW t \in DOMAIN viewOf
               PROVE  /\ viewOf[t] \in Known(p)
                      /\ \E i \in Rows(p.ops) :
                           t \in ToSet(Row(p.ops, i).outs) /\ viewOf[t] \in InputsOf(p.ops, i)
    BY DEF AliasesGoBack
  <2>1. PICK i \in Rows(p.ops) : IsView(p, i) /\ t = Result(p, i)
    OBVIOUS
  <2> HIDE DEF viewOf
  <2> QED
    BY <1>1, <1>2, <2>1 DEF Known
<1>4. /\ m.reads = [i \in Rows(p.ops) |-> InputsOf(p.ops, i) \cap ArenaTensors(p)]
      /\ m.writes = [i \in Rows(p.ops) |-> ToSet(Row(p.ops, i).outs)]
      /\ m.blocks = blocks /\ m.inputs = p.inputs
      /\ m.outputs = p.outputs \cap ArenaTensors(p)
      /\ m.meaning = RootsOf(p, viewOf)
  BY DEF MapOf
<1> HIDE DEF m, viewOf
<1>5. /\ m.meaning \in [Known(p) -> Known(p)]
      /\ \A t \in Known(p) :
           m.meaning[t] = IF t \in DOMAIN viewOf THEN m.meaning[viewOf[t]] ELSE t
  <2>1. p.ops \in Seq(LoweredOp) /\ SingleWriters(p.ops) /\ Ordered(p.ops)
    BY DEF InTheArena
  <2>2. /\ RootsOf(p, viewOf) \in [Known(p) -> Known(p)]
        /\ \A t \in Known(p) :
             RootsOf(p, viewOf)[t] = IF t \in DOMAIN viewOf
                                     THEN RootsOf(p, viewOf)[viewOf[t]] ELSE t
    BY <1>3, <2>1, RootsFollow
  <2> QED
    BY <1>4, <2>2
<1>6. ASSUME NEW i \in Rows(p.ops), IsView(p, i)
      PROVE  m.meaning[Result(p, i)] = m.meaning[Operand(p, i)]
  <2>1. Result(p, i) \in Known(p)
    BY <1>1, <1>6 DEF Known, ArenaTensors
  <2> QED
    BY <1>2, <1>5, <1>6, <2>1
<1> QED
  BY <1>4, <1>5, <1>6 DEF Describes, m

\* The map of a planned graph is one.
LEMMA DescribedIsMap ==
  ASSUME NEW p, InTheArena(p), NEW blocks, DOMAIN blocks = ArenaTensors(p),
         NEW m, Describes(m, p, blocks)
  PROVE  IsMap(m, Len(p.ops))
<1> DEFINE n == Len(p.ops)
<1>1. Rows(p.ops) = 0 .. n - 1 /\ p.inputs \in Seq(ArenaTensors(p))
  <2>1. p.inputs \in Seq(Name) /\ ToSet(p.inputs) \subseteq ArenaTensors(p)
    BY DEF InTheArena, ArenaTensors
  <2> QED
    BY <2>1 DEF Rows, ToSet
<1>2. \A i \in Rows(p.ops) : ToSet(Row(p.ops, i).outs) \subseteq ArenaTensors(p)
  BY DEF ArenaTensors
<1> HIDE DEF n
<1> QED
  BY <1>1, <1>2 DEF Describes, IsMap, n

\* Whatever is still wanted after k rows is in the arena.
Keeps(p, m, mem, k) ==
  \A t \in ArenaTensors(p) : FirstDef(p, t) < k /\ Wanted(p, t, k) => Holds(m, mem, t)

LEMMA RowKeeps ==
  ASSUME NEW p, NEW root, NEW ranges, NEW blocks, Arranged(p, root, ranges, blocks),
         NEW m, Describes(m, p, blocks), NEW k \in Rows(p.ops),
         NEW mem, \A t \in ArenaTensors(p) : blocks[t] \subseteq DOMAIN mem,
         Keeps(p, m, mem, k)
  PROVE  OperandsHeld(m, mem, k, Len(p.ops)) /\ Keeps(p, m, Compute(m, mem, k), k + 1)
<1>1. InTheArena(p) /\ k \in Int /\ Rows(p.ops) \subseteq Int
  BY DEF Arranged, Rows
<1>2. \A t \in ArenaTensors(p) : FirstDef(p, t) \in Int
  BY <1>1, Uses
<1>3. ASSUME NEW i \in Rows(p.ops), k <= i, NEW t \in m.reads[i],
             i = k \/ \A j \in k .. Len(p.ops) - 1 : t \notin m.writes[j]
      PROVE  Holds(m, mem, t)
  <2>1. t \in InputsOf(p.ops, i) /\ t \in ArenaTensors(p)
    BY DEF Describes
  <2>2. FirstDef(p, t) < k
    <3>1. CASE t \in ToSet(p.inputs) /\ FirstDef(p, t) = -1
      BY <3>1 DEF Rows
    <3>2. CASE FirstDef(p, t) \in Rows(p.ops) /\ t \in ToSet(Row(p.ops, FirstDef(p, t)).outs)
      <4>1. FirstDef(p, t) < i
        BY <1>1, <2>1, <3>2 DEF InTheArena, Ordered
      <4>2. t \in m.writes[FirstDef(p, t)]
        BY <3>2 DEF Describes
      <4>3. FirstDef(p, t) \notin k .. Len(p.ops) - 1 \/ i = k
        BY <1>3, <4>2
      <4> QED
        BY <1>1, <3>2, <4>1, <4>3 DEF Rows
    <3> QED
      BY <1>1, <2>1, <3>1, <3>2, Definitions
  <2>3. Wanted(p, t, k)
    BY <1>3, <2>1 DEF Wanted
  <2> QED
    BY <2>1, <2>2, <2>3 DEF Keeps
<1>4. OperandsHeld(m, mem, k, Len(p.ops))
  <2> SUFFICES ASSUME NEW i \in k .. Len(p.ops) - 1, NEW t \in m.reads[i],
                      i = k \/ \A j \in k .. Len(p.ops) - 1 : t \notin m.writes[j]
               PROVE  Holds(m, mem, t)
    BY DEF OperandsHeld
  <2>1. i \in Rows(p.ops) /\ k <= i
    BY DEF Rows
  <2> QED
    BY <1>3, <2>1
<1>5. ASSUME NEW t \in m.reads[k] PROVE Holds(m, mem, t)
  BY <1>1, <1>3
<1>6. ReadsIntact(m, mem, k)
  BY <1>5 DEF ReadsIntact
<1> DEFINE written(b) == {w \in m.writes[k] : b \in m.blocks[w]}
           by(b) == CHOOSE w \in written(b) : TRUE
<1>7. Compute(m, mem, k) =
        [b \in DOMAIN mem |-> IF written(b) = {} THEN mem[b] ELSE m.meaning[by(b)]]
  BY <1>6 DEF Compute
<1>8. m.writes[k] = ToSet(Row(p.ops, k).outs) /\ m.blocks = blocks
  BY DEF Describes
<1>9. ASSUME NEW t \in ArenaTensors(p), FirstDef(p, t) < k + 1, Wanted(p, t, k + 1),
             NEW b \in blocks[t]
      PROVE  Compute(m, mem, k)[b] = m.meaning[t]
  <2>1. b \in DOMAIN mem
    BY <1>9
  <2>2. CASE written(b) = {}
    <3>1. FirstDef(p, t) # k
      <4>1. k # -1
        BY DEF Rows
      <4>2. FirstDef(p, t) = k => t \in ToSet(Row(p.ops, k).outs)
        BY <1>1, <4>1, Definitions
      <4> QED
        BY <1>8, <1>9, <2>2, <4>2
    <3>2. FirstDef(p, t) < k
      BY <1>1, <1>2, <1>9, <3>1
    <3>3. Wanted(p, t, k)
      BY <1>1, <1>9 DEF Wanted, Rows
    <3>4. mem[b] = m.meaning[t]
      BY <1>8, <1>9, <3>2, <3>3 DEF Keeps, Holds
    <3> QED
      BY <1>7, <2>1, <2>2, <3>4
  <2>3. CASE written(b) # {}
    <3> DEFINE w == by(b)
    <3>1. w \in m.writes[k] /\ b \in m.blocks[w]
      BY <2>3
    <3> HIDE DEF w
    <3>2. Compute(m, mem, k)[b] = m.meaning[w]
      BY <1>7, <2>1, <2>3 DEF w
    <3>3. CASE t # w
      <4>1. FirstDef(p, t) <= k
        BY <1>1, <1>2, <1>9
      <4>2. w \in ToSet(Row(p.ops, k).outs) /\ b \in blocks[t] \cap blocks[w]
        BY <1>8, <1>9, <3>1
      <4>3. FirstDef(p, t) < k /\ IsView(p, k) /\ w = Result(p, k)
        BY <1>9, <3>3, <4>1, <4>2, OnlyViewsShare
      <4>4. Wanted(p, t, k)
        BY <1>1, <1>9 DEF Wanted, Rows
      <4>5. mem[b] = m.meaning[t]
        BY <1>8, <1>9, <4>3, <4>4 DEF Keeps, Holds
      <4>6. Operand(p, k) \in m.reads[k]
        BY <4>3 DEF Arranged, RowsAlias, Aliases, Describes
      <4>7. b \in m.blocks[Operand(p, k)]
        BY <1>8, <4>2, <4>3 DEF Arranged, ViewsCover
      <4>8. mem[b] = m.meaning[Operand(p, k)]
        BY <1>5, <4>6, <4>7 DEF Holds
      <4>9. m.meaning[w] = m.meaning[Operand(p, k)]
        BY <4>3 DEF Describes
      <4> QED
        BY <3>2, <4>5, <4>8, <4>9
    <3> QED
      BY <3>2, <3>3
  <2> QED
    BY <2>2, <2>3
<1>10. Keeps(p, m, Compute(m, mem, k), k + 1)
  BY <1>8, <1>9 DEF Keeps, Holds
<1> QED
  BY <1>10, <1>4

LEMMA InputsKeep ==
  ASSUME NEW p, NEW root, NEW ranges, NEW blocks, Arranged(p, root, ranges, blocks),
         NEW m, Describes(m, p, blocks),
         NEW mem, \A t \in ArenaTensors(p) : blocks[t] \subseteq DOMAIN mem
  PROVE  Keeps(p, m, FillInputs(m, mem), 0)
<1> SUFFICES ASSUME NEW t \in ArenaTensors(p), FirstDef(p, t) < 0, NEW b \in blocks[t]
             PROVE  FillInputs(m, mem)[b] = m.meaning[t]
  BY DEF Keeps, Holds, Describes
<1> DEFINE filled == {j \in DOMAIN m.inputs : b \in m.blocks[m.inputs[j]]}
           last == Max(filled)
<1>1. InTheArena(p) /\ m.inputs = p.inputs /\ m.blocks = blocks
  BY DEF Arranged, Describes
<1>2. t \in ToSet(p.inputs)
  BY <1>1, Definitions DEF Rows
<1>3. PICK j \in DOMAIN p.inputs : t = p.inputs[j]
  BY <1>2 DEF ToSet
<1>4. last \in filled
  <2>1. j \in filled
    BY <1>1, <1>3
  <2>2. filled \subseteq 1 .. Len(p.inputs) /\ Len(p.inputs) \in Nat
    BY <1>1 DEF InTheArena
  <2> HIDE DEF filled
  <2>3. IsFiniteSet(filled)
    <3> DEFINE l == Len(p.inputs)
    <3>1. filled \subseteq 1 .. l /\ 1 \in Int /\ l \in Int
      BY <2>2
    <3> HIDE DEF l
    <3>2. IsFiniteSet(1 .. l)
      BY <3>1, FS_Interval
    <3> QED
      BY <3>1, <3>2, FS_Subset
  <2> QED
    BY <2>1, <2>2, <2>3, Extremes
<1>5. FillInputs(m, mem)[b] = m.meaning[m.inputs[last]]
  <2>1. b \in DOMAIN mem /\ filled # {}
    BY <1>4
  <2> QED
    BY <2>1 DEF FillInputs
<1> HIDE DEF last
<1>6. m.inputs[last] \in ToSet(p.inputs) /\ b \in blocks[m.inputs[last]]
  BY <1>1, <1>4 DEF ToSet
<1>7. m.inputs[last] = t
  BY <1>2, <1>6, InputsAreApart
<1> QED
  BY <1>5, <1>7

\* The run, by the recursion RunInOrder is.
RunSteps(m, n, after) ==
  /\ after[0] = [mem |-> FillInputs(m, ClearMemory(m)), intact |-> TRUE]
  /\ \A k \in 0 .. n - 1 :
       after[k + 1] = [mem    |-> Compute(m, after[k].mem, k),
                       intact |-> after[k].intact /\ OperandsHeld(m, after[k].mem, k, n)]
  /\ RunInOrder(m, n) = after[n]

LEMMA RunUnfolds ==
  ASSUME NEW m, NEW n \in Nat, NEW C, NEW V,
         FillInputs(m, ClearMemory(m)) \in [C -> V],
         \A mem \in [C -> V] : \A k \in 0 .. n - 1 : Compute(m, mem, k) \in [C -> V]
  PROVE  \E after \in [0 .. n -> [mem : [C -> V], intact : BOOLEAN]] : RunSteps(m, n, after)
<1> DEFINE A == [mem : [C -> V], intact : BOOLEAN]
           base == [mem |-> FillInputs(m, ClearMemory(m)), intact |-> TRUE]
           Turn(acc, i) == [mem    |-> Compute(m, acc.mem, i),
                            intact |-> acc.intact /\ OperandsHeld(m, acc.mem, i, n)]
           st == [q \in (1 .. n) \X A |-> Turn(q[2], q[1] - 1)]
           f == CHOOSE h : h = [k \in 0 .. n |-> IF k = 0 THEN base ELSE Turn(h[k - 1], k - 1)]
<1>1. base \in A
  OBVIOUS
<1>2. ASSUME NEW acc \in A, NEW i \in 0 .. n - 1 PROVE Turn(acc, i) \in A
  <2>1. Compute(m, acc.mem, i) \in [C -> V]
    OBVIOUS
  <2>2. (acc.intact /\ OperandsHeld(m, acc.mem, i, n)) \in BOOLEAN
    OBVIOUS
  <2> QED
    BY <2>1, <2>2
<1> HIDE DEF A, base, Turn
<1>3. st \in [(1 .. n) \X A -> A]
  <2>1. \A q \in (1 .. n) \X A : q[2] \in A /\ q[1] - 1 \in 0 .. n - 1
    OBVIOUS
  <2> QED
    BY <1>2, <2>1
<1>4. PICK h \in [0 .. n -> A] : Recurs(n, base, st, h)
  <2> HIDE DEF st, f
  <2> QED
    BY <1>1, <1>3, RecursionExists
<1>5. \A k \in 0 .. n : h[k] = IF k = 0 THEN base ELSE Turn(h[k - 1], k - 1)
  <2> SUFFICES ASSUME NEW k \in 0 .. n, k # 0 PROVE h[k] = Turn(h[k - 1], k - 1)
    BY <1>4 DEF Recurs
  <2>1. k \in 1 .. n /\ k - 1 \in 0 .. n
    OBVIOUS
  <2>2. <<k, h[k - 1]>> \in (1 .. n) \X A
    BY <2>1
  <2>3. h[k] = st[<<k, h[k - 1]>>]
    BY <1>4, <2>1 DEF Recurs
  <2> QED
    BY <2>2, <2>3
<1>6. h = [k \in 0 .. n |-> IF k = 0 THEN base ELSE Turn(h[k - 1], k - 1)]
  BY <1>5
<1>7. f = [k \in 0 .. n |-> IF k = 0 THEN base ELSE Turn(f[k - 1], k - 1)]
  <2> HIDE DEF st
  <2> QED
    BY <1>6
<1>8. RunInOrder(m, n) = f[n]
  BY DEF RunInOrder, Turn, base
<1> HIDE DEF f, st
<1>9. \A k \in 0 .. n : f[k] = h[k]
  <2> DEFINE G == {k \in Nat : k <= n => f[k] = h[k]}
  <2>1. 0 \in G
    BY <1>5, <1>7
  <2>2. ASSUME NEW k \in Nat, k \in G PROVE k + 1 \in G
    <3>1. CASE k + 1 <= n
      <4>1. k + 1 \in 0 .. n /\ (k + 1) - 1 = k /\ k + 1 # 0 /\ f[k] = h[k]
        BY <2>2, <3>1
      <4>2. f[k + 1] = Turn(f[k], k)
        BY <1>7, <4>1
      <4>3. h[k + 1] = Turn(h[k], k)
        BY <1>5, <4>1
      <4> QED
        BY <4>1, <4>2, <4>3
    <3>2. CASE ~(k + 1 <= n)
      BY <3>2
    <3> QED
      BY <3>1, <3>2
  <2> HIDE DEF G
  <2>3. Nat \subseteq G
    BY <2>1, <2>2, NatInductive
  <2>4. \A k \in 0 .. n : k \in Nat /\ k <= n
    OBVIOUS
  <2> QED
    BY <2>3, <2>4 DEF G
<1>10. RunInOrder(m, n) = h[n]
  BY <1>8, <1>9
<1>11. h[0] = base
  BY <1>5
<1>12. ASSUME NEW k \in 0 .. n - 1 PROVE h[k + 1] = Turn(h[k], k)
  <2>1. k + 1 \in 0 .. n /\ (k + 1) - 1 = k /\ k + 1 # 0
    OBVIOUS
  <2> QED
    BY <1>5, <2>1
<1>13. RunSteps(m, n, h)
  BY <1>10, <1>11, <1>12 DEF RunSteps, Turn, base
<1> QED
  BY <1>13 DEF A

Cells(m) == UNION {m.blocks[t] : t \in DOMAIN m.blocks}
Values(m) == {Garbage} \cup {m.meaning[t] : t \in DOMAIN m.blocks}
Runs(m, n) == [0 .. n -> [mem : [Cells(m) -> Values(m)], intact : BOOLEAN]]

\* What the caller and the rows write are values of the map's cells.
LEMMA FillTyped ==
  ASSUME NEW m, NEW n, IsMap(m, n), NEW V, Values(m) \subseteq V,
         NEW mem \in [Cells(m) -> V]
  PROVE  FillInputs(m, mem) \in [Cells(m) -> V]
<1> DEFINE C == Cells(m)
           filled(b) == {j \in DOMAIN m.inputs : b \in m.blocks[m.inputs[j]]}
<1>1. m.inputs \in Seq(DOMAIN m.blocks) /\ \A t \in DOMAIN m.blocks : m.meaning[t] \in V
  BY DEF IsMap, Values
<1>2. ASSUME NEW b \in C, filled(b) # {} PROVE Max(filled(b)) \in filled(b)
  <2> DEFINE l == Len(m.inputs)
             S == filled(b)
  <2>1. S \subseteq 1 .. l /\ 1 \in Int /\ l \in Int /\ S # {} /\ S \subseteq Int
    BY <1>1, <1>2
  <2> HIDE DEF l, S
  <2>2. IsFiniteSet(1 .. l)
    BY <2>1, FS_Interval
  <2>3. IsFiniteSet(S)
    BY <2>1, <2>2, FS_Subset
  <2>4. Max(S) \in S
    BY <2>1, <2>3, Extremes
  <2> QED
    BY <2>4 DEF S
<1>3. ASSUME NEW b \in C, filled(b) # {} PROVE m.meaning[m.inputs[Max(filled(b))]] \in V
  <2> DEFINE x == Max(filled(b))
  <2>1. x \in DOMAIN m.inputs
    BY <1>2, <1>3
  <2> HIDE DEF x
  <2>2. m.inputs[x] \in DOMAIN m.blocks
    BY <1>1, <2>1
  <2> QED
    BY <1>1, <2>2 DEF x
<1>4. FillInputs(m, mem) = [b \in C |-> IF filled(b) = {} THEN mem[b]
                                       ELSE m.meaning[m.inputs[Max(filled(b))]]]
  BY DEF FillInputs
<1> HIDE DEF C, filled
<1>5. mem \in [C -> V]
  BY DEF C
<1>6. FillInputs(m, mem) \in [C -> V]
  BY <1>3, <1>4, <1>5
<1> QED
  BY <1>6 DEF C

LEMMA ComputeTyped ==
  ASSUME NEW m, NEW n, IsMap(m, n), NEW V, Values(m) \subseteq V,
         NEW mem \in [Cells(m) -> V], NEW k \in 0 .. n - 1
  PROVE  Compute(m, mem, k) \in [Cells(m) -> V]
<1> DEFINE C == Cells(m)
           written(b) == {t \in m.writes[k] : b \in m.blocks[t]}
           by(b) == CHOOSE t \in written(b) : TRUE
<1>1. m.writes[k] \subseteq DOMAIN m.blocks /\ Garbage \in V
      /\ \A t \in DOMAIN m.blocks : m.meaning[t] \in V
  BY DEF IsMap, Values
<1>2. ASSUME NEW b \in C, written(b) # {} PROVE m.meaning[by(b)] \in V
  <2>1. by(b) \in written(b)
    BY <1>2
  <2> QED
    BY <1>1, <2>1
<1>3. Compute(m, mem, k) =
        [b \in C |-> IF written(b) = {} THEN mem[b]
                     ELSE IF ReadsIntact(m, mem, k) THEN m.meaning[by(b)] ELSE Garbage]
  BY DEF Compute
<1> HIDE DEF C, written, by
<1>4. mem \in [C -> V]
  BY DEF C
<1>5. Compute(m, mem, k) \in [C -> V]
  BY <1>1, <1>2, <1>3, <1>4
<1> QED
  BY <1>5 DEF C

LEMMA MapRuns ==
  ASSUME NEW m, NEW n \in Nat, IsMap(m, n)
  PROVE  /\ ClearMemory(m) \in [Cells(m) -> Values(m)]
         /\ \E after \in Runs(m, n) : RunSteps(m, n, after)
<1> DEFINE C == Cells(m)
           V == Values(m)
<1>1. ClearMemory(m) \in [C -> V]
  BY DEF ClearMemory, Cells, Values
<1>2. FillInputs(m, ClearMemory(m)) \in [C -> V]
  BY <1>1, FillTyped
<1>3. \A mem \in [C -> V] : \A k \in 0 .. n - 1 : Compute(m, mem, k) \in [C -> V]
  BY ComputeTyped
<1> HIDE DEF C, V
<1>4. \E after \in [0 .. n -> [mem : [C -> V], intact : BOOLEAN]] : RunSteps(m, n, after)
  BY <1>2, <1>3, RunUnfolds
<1> QED
  BY <1>1, <1>4 DEF Runs, C, V

\* Rows that run by index find what their operands stand for, and the caller
\* the outputs.
LEMMA ArrangedIsSound ==
  ASSUME NEW p, NEW root, NEW ranges, NEW blocks, DOMAIN blocks = ArenaTensors(p),
         Arranged(p, root, ranges, blocks),
         NEW m, Describes(m, p, blocks)
  PROVE  SequentiallySound(m, Len(p.ops))
<1> DEFINE n == Len(p.ops)
           C == Cells(m)
           V == Values(m)
<1>1. InTheArena(p) /\ n \in Nat
  BY Uses DEF Arranged
<1>2. \A t \in ArenaTensors(p) : blocks[t] \subseteq C
  BY DEF Describes, Cells
<1>3. DOMAIN m.blocks = ArenaTensors(p)
  BY DEF Describes
<1>4. IsMap(m, n)
  BY <1>1, DescribedIsMap
<1>5. ClearMemory(m) \in [C -> V] /\ \E after \in Runs(m, n) : RunSteps(m, n, after)
  BY <1>1, <1>4, MapRuns
<1> HIDE DEF C, V, n
<1>6. PICK after \in Runs(m, n) : RunSteps(m, n, after)
  BY <1>5
<1> DEFINE Good(k) == after[k].intact /\ Keeps(p, m, after[k].mem, k)
<1>7. \A k \in 0 .. n : after[k].mem \in [C -> V]
  BY DEF Runs, C, V
<1>8. Good(0)
  <2>1. after[0].intact /\ after[0].mem = FillInputs(m, ClearMemory(m))
    BY <1>6 DEF RunSteps
  <2>2. \A t \in ArenaTensors(p) : blocks[t] \subseteq DOMAIN ClearMemory(m)
    BY <1>2, <1>5
  <2>3. Keeps(p, m, FillInputs(m, ClearMemory(m)), 0)
    BY <2>2, InputsKeep
  <2> QED
    BY <2>1, <2>3
<1>9. ASSUME NEW k \in 0 .. n - 1, Good(k) PROVE Good(k + 1)
  <2>1. k \in Rows(p.ops) /\ k \in 0 .. n
    BY <1>1 DEF Rows, n
  <2> DEFINE mem == after[k].mem
  <2>2. \A t \in ArenaTensors(p) : blocks[t] \subseteq DOMAIN mem
    <3>1. mem \in [C -> V]
      BY <1>7, <2>1
    <3> HIDE DEF mem
    <3> QED
      BY <1>2, <3>1
  <2>3. Keeps(p, m, mem, k)
    BY <1>9
  <2>4. OperandsHeld(m, mem, k, n) /\ Keeps(p, m, Compute(m, mem, k), k + 1)
    <3> HIDE DEF mem
    <3> QED
      BY <2>1, <2>2, <2>3, RowKeeps DEF n
  <2>5. after[k + 1] = [mem    |-> Compute(m, mem, k),
                        intact |-> after[k].intact /\ OperandsHeld(m, mem, k, n)]
    BY <1>6 DEF RunSteps
  <2> HIDE DEF mem
  <2>6. after[k + 1].mem = Compute(m, mem, k)
        /\ after[k + 1].intact = (after[k].intact /\ OperandsHeld(m, mem, k, n))
    BY <2>5
  <2> QED
    BY <1>9, <2>4, <2>6
<1> HIDE DEF Good
<1>10. Good(n)
  <2> DEFINE G == {k \in Nat : k <= n => Good(k)}
  <2>1. 0 \in G
    BY <1>8
  <2>2. \A k \in Nat : k \in G => k + 1 \in G
    BY <1>1, <1>9
  <2> HIDE DEF G
  <2>3. Nat \subseteq G
    BY <2>1, <2>2, NatInductive
  <2> QED
    BY <1>1, <2>3 DEF G
<1>11. OutputsHold(m, after[n].mem)
  <2> SUFFICES ASSUME NEW t \in m.outputs PROVE Holds(m, after[n].mem, t)
    BY DEF OutputsHold
  <2>1. t \in p.outputs /\ t \in ArenaTensors(p)
    BY DEF Describes
  <2>2. FirstDef(p, t) < n
    BY <1>1, <2>1, Uses DEF n
  <2>3. Wanted(p, t, n)
    BY <2>1 DEF Wanted
  <2> QED
    BY <1>10, <2>1, <2>2, <2>3 DEF Good, Keeps
<1>12. RunInOrder(m, n) = after[n]
  BY <1>6 DEF RunSteps
<1> QED
  BY <1>10, <1>11, <1>12 DEF SequentiallySound, Good, n

LEMMA PlannedIsArranged ==
  ASSUME NEW p, InTheArena(p), NEW root, RowsAlias(p, root),
         InputsReserved(p, LiveRanges(p, root)), OverwritesTheDead(p, root)
  PROVE  LET ranges == LiveRanges(p, root)
         IN  Arranged(p, root, ranges, TensorTable(p, root, Allocate(p, ranges)))
<1> DEFINE S == {t \in ArenaTensors(p) : root[t] = t}
           ranges == LiveRanges(p, root)
           at == Allocate(p, ranges)
           blocks == TensorTable(p, root, at)
<1>1. IsFiniteSet(S) /\ ranges \in [S -> [first : Int, last : Int]] /\ Reserves(p, root, ranges)
  BY RangesReserve
<1>2. \A t \in S : BufferBytes(p, t) \in Nat
  BY DEF InTheArena
<1>3. InputsReserved(p, ranges)
  OBVIOUS
<1> HIDE DEF ranges, S
<1>4. DOMAIN at = S /\ Layout(p, ranges, at)
  BY <1>1, <1>2, AllocateKeeps
<1>5. DOMAIN ranges = S
  BY <1>1
<1> HIDE DEF at
<1>6. Separate(p, root, ranges, blocks)
  BY <1>1, <1>4, <1>5, BlocksAreInBuffers DEF Separate
<1>7. ViewsCover(p, blocks)
  <2> SUFFICES ASSUME NEW i \in Rows(p.ops), IsView(p, i)
               PROVE  blocks[Operand(p, i)] = blocks[Result(p, i)]
    BY DEF ViewsCover
  <2>1. /\ Operand(p, i) \in ArenaTensors(p) /\ Result(p, i) \in ArenaTensors(p)
        /\ root[Result(p, i)] = root[Operand(p, i)]
        /\ Blocks(p, Operand(p, i)) = Blocks(p, Result(p, i))
    BY DEF RowsAlias, Aliases, ArenaTensors
  <2> QED
    BY <2>1 DEF TensorTable
<1>8. Arranged(p, root, ranges, blocks)
  BY <1>1, <1>3, <1>5, <1>6, <1>7 DEF Arranged
<1> QED
  BY <1>8 DEF ranges, at
=============================================================================
