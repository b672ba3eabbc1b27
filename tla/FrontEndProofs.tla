---------------------------- MODULE FrontEndProofs ----------------------------
(***************************************************************************)
(* The front end, for models and graphs of any size: what the sort of      *)
(* ingestion returns is in topological order, every node once, and it      *)
(* gives up only on nodes that can never run; what the passes make of it   *)
(* is compiled unless there is a named reason, and computes what the model *)
(* computed outside the named cases.                                       *)
(*                                                                         *)
(* The count of a node in the sort is at most the number of its inputs     *)
(* that have not been produced, and equal to it if tensors have single     *)
(* producers.                                                              *)
(*                                                                         *)
(* The passes keep a graph sound: sorted, every name known, operators of   *)
(* their arity, no constant written.  A sweep of folding is a set of       *)
(* operators that are gone, absorption and a sweep of fusion a list that   *)
(* is thinned out after some of its members have been merged with their    *)
(* partners; what the generator asks for follows from the graph that       *)
(* ingestion left, through that.                                           *)
(*                                                                         *)
(* What a graph means is the one assignment of values to its tensors that  *)
(* agrees with every operator.  A pass keeps the function if what is left  *)
(* of that assignment agrees with the operators the pass leaves.           *)
(***************************************************************************)
EXTENDS Ingest, Pipeline, DataInduction, SequenceTheorems, FiniteSetTheorems, FunctionTheorems, TLAPS

(* The sort of ingestion. *)

SortTypeOK ==
  /\ model \in Models
  /\ inDegree \in [Nodes(model) -> Int]
  /\ ready \subseteq Nodes(model)
  /\ sorted \in Seq(Nodes(model))
  /\ outcome \in {"sorting", "accepted", "refused"}

\* The unmet inputs of a node that nothing sorted so far produces.
Missing(j) ==
  {k \in Unmet(model, j) :
     \A p \in DOMAIN sorted : model.nodes[j].ins[k] \notin model.nodes[sorted[p]].outs}

Counted ==
  \A j \in Nodes(model) :
    /\ inDegree[j] <= Cardinality(Missing(j))
    /\ SingleProducers(model) => inDegree[j] = Cardinality(Missing(j))

\* The nodes that wait for nothing are the sorted and the ready ones, apart.
Apart ==
  /\ \A p, q \in DOMAIN sorted : sorted[p] = sorted[q] => p = q
  /\ \A p \in DOMAIN sorted : sorted[p] \notin ready
  /\ \A j \in Nodes(model) :
       inDegree[j] <= 0 <=> j \in ready \/ \E p \in DOMAIN sorted : sorted[p] = j

Ended ==
  /\ outcome = "accepted" => Len(sorted) = Len(model.nodes)
  /\ outcome = "refused" /\ NoneAbsent /\ StaticShapes =>
       ready = {} /\ Len(sorted) # Len(model.nodes)

SortIInv == SortTypeOK /\ Counted /\ Apart /\ SortIsTopological /\ Ended

-----------------------------------------------------------------------------
\* The nodes of a model are 1 .. n, their inputs a sequence.
LEMMA ModelShape ==
  ASSUME NEW m \in Models
  PROVE  /\ Len(m.nodes) \in Nat
         /\ Nodes(m) = 1 .. Len(m.nodes)
         /\ \A j \in Nodes(m) : /\ m.nodes[j].ins \in Seq(Names)
                                /\ m.nodes[j].outs \subseteq Names
<1>1. m.nodes \in Seq([ins : Seq(Names), outs : SUBSET Names])
  BY ModelsAssumption
<1>2. Len(m.nodes) \in Nat /\ Nodes(m) = 1 .. Len(m.nodes)
  BY <1>1 DEF Nodes
<1>3. ASSUME NEW j \in Nodes(m)
      PROVE  m.nodes[j] \in [ins : Seq(Names), outs : SUBSET Names]
  BY <1>1, <1>2, ElementOfSeq
<1> QED BY <1>2, <1>3

\* Counting unmet inputs makes sense.
LEMMA UnmetFinite ==
  ASSUME NEW m \in Models, NEW j \in Nodes(m)
  PROVE  /\ IsFiniteSet(Unmet(m, j))
         /\ \A S \in SUBSET Unmet(m, j) : IsFiniteSet(S) /\ Cardinality(S) \in Nat
<1> DEFINE ins == m.nodes[j].ins
<1>1. ins \in Seq(Names)
  BY ModelShape
<1>2. DOMAIN ins = 1 .. Len(ins) /\ Len(ins) \in Nat
  BY <1>1
<1>3. IsFiniteSet(DOMAIN ins)
  <2>1. IsFiniteSet(1 .. Len(ins))
    BY <1>2, FS_Interval
  <2> QED BY <1>2, <2>1
<1>4. Unmet(m, j) \in SUBSET DOMAIN ins
  BY DEF Unmet
<1>5. IsFiniteSet(Unmet(m, j))
  BY <1>3, <1>4, FS_Subset
<1>6. ASSUME NEW S \in SUBSET Unmet(m, j)
      PROVE  IsFiniteSet(S) /\ Cardinality(S) \in Nat
  <2>1. IsFiniteSet(S)
    BY <1>5, FS_Subset
  <2> QED BY <2>1, FS_CardinalityType
<1> QED BY <1>5, <1>6

LEMMA SortInitTyped == SortInit => SortTypeOK
<1> SUFFICES ASSUME SortInit PROVE SortTypeOK
  OBVIOUS
<1>1. model \in Models
  BY DEF SortInit
<1>2. \A j \in Nodes(model) : Cardinality(Unmet(model, j)) \in Int
  BY <1>1, UnmetFinite
<1> QED BY <1>1, <1>2 DEF SortInit, SortTypeOK

LEMMA InitSortIInv == SortInit => SortIInv
<1> SUFFICES ASSUME SortInit PROVE SortIInv
  OBVIOUS
<1>0. SortTypeOK
  BY SortInitTyped
<1>1. model \in Models /\ sorted = <<>> /\ DOMAIN sorted = {}
  BY DEF SortInit
<1>2. \A j \in Nodes(model) : Missing(j) = Unmet(model, j)
  BY <1>1 DEF Missing
<1>3. Counted
  <2>1. ASSUME NEW j \in Nodes(model)
        PROVE  inDegree[j] = Cardinality(Missing(j)) /\ inDegree[j] \in Int
    BY <1>0, <1>2 DEF SortInit, SortTypeOK
  <2> QED BY <2>1 DEF Counted
<1>4. Apart
  <2>1. ASSUME NEW j \in Nodes(model)
        PROVE  inDegree[j] <= 0 <=> j \in ready
    <3>1. IsFiniteSet(Unmet(model, j)) /\ Cardinality(Unmet(model, j)) \in Nat
      BY <1>1, UnmetFinite
    <3>2. Cardinality(Unmet(model, j)) = 0 <=> Unmet(model, j) = {}
      BY <3>1, FS_EmptySet
    <3> QED BY <3>1, <3>2 DEF SortInit
  <2> QED BY <1>1, <2>1 DEF Apart
<1>5. SortIsTopological
  BY <1>1 DEF SortIsTopological
<1>6. Ended
  BY DEF SortInit, Ended
<1> QED BY <1>0, <1>3, <1>4, <1>5, <1>6 DEF SortIInv

-----------------------------------------------------------------------------
\* What a step of the sort does to the list: one more node at the end.
LEMMA Appended ==
  ASSUME SortTypeOK, NEW i \in ready, Pop(i)
  PROVE  /\ i \in Nodes(model)
         /\ Len(sorted) \in Nat /\ DOMAIN sorted = 1 .. Len(sorted)
         /\ sorted' \in Seq(Nodes(model))
         /\ DOMAIN sorted' = 1 .. Len(sorted) + 1
         /\ \A p \in DOMAIN sorted : sorted'[p] = sorted[p]
         /\ sorted'[Len(sorted) + 1] = i
<1>1. i \in Nodes(model) /\ sorted \in Seq(Nodes(model)) /\ sorted' = Append(sorted, i)
  BY DEF SortTypeOK, Pop
<1>2. /\ sorted' \in Seq(Nodes(model))
      /\ Len(sorted') = Len(sorted) + 1
      /\ \A p \in 1 .. Len(sorted) : sorted'[p] = sorted[p]
      /\ sorted'[Len(sorted) + 1] = i
  BY <1>1, AppendProperties
<1>3. Len(sorted) \in Nat /\ DOMAIN sorted = 1 .. Len(sorted) /\ DOMAIN sorted' = 1 .. Len(sorted')
  BY <1>1, <1>2
<1> QED BY <1>1, <1>2, <1>3

\* The inputs a node still misses, and how far its count goes down.
LEMMA CountsSupplied ==
  ASSUME SortIInv, NEW i \in ready, Pop(i), NEW j \in Nodes(model)
  PROVE  /\ inDegree[j] \in Int /\ inDegree'[j] \in Int /\ inDegree'[j] <= inDegree[j]
         /\ IsFiniteSet(Missing(j)) /\ Cardinality(Missing(j)) \in Nat
         /\ IsFiniteSet(Missing(j)') /\ Cardinality(Missing(j)') \in Nat
         /\ inDegree'[j] <= Cardinality(Missing(j)')
         /\ SingleProducers(model) => inDegree'[j] = Cardinality(Missing(j)')
<1> DEFINE ins == model.nodes[j].ins
           given == {k \in Unmet(model, j) : ins[k] \in model.nodes[i].outs}
<1>1. SortTypeOK /\ model \in Models /\ model' = model
  BY DEF SortIInv, SortTypeOK, Pop
<1>2. /\ Missing(j) \in SUBSET Unmet(model, j)
      /\ given \in SUBSET Unmet(model, j)
      /\ Missing(j) \cap given \in SUBSET given
  BY DEF Missing
<1>3. Missing(j)' = Missing(j) \ given
  BY <1>1, Appended DEF Missing
<1>4. /\ IsFiniteSet(Missing(j)) /\ Cardinality(Missing(j)) \in Nat
      /\ IsFiniteSet(given) /\ Cardinality(given) \in Nat
  BY <1>1, <1>2, UnmetFinite
<1>5. /\ IsFiniteSet(Missing(j)')
      /\ Cardinality(Missing(j)') = Cardinality(Missing(j)) - Cardinality(Missing(j) \cap given)
  BY <1>3, <1>4, FS_Difference
<1>6. IsFiniteSet(Missing(j) \cap given) /\ Cardinality(Missing(j) \cap given) <= Cardinality(given)
  BY <1>2, <1>4, FS_Subset
<1>7. Cardinality(Missing(j) \cap given) \in Nat /\ Cardinality(Missing(j)') \in Nat
  BY <1>5, <1>6, FS_CardinalityType
<1>8. inDegree[j] \in Int /\ inDegree'[j] = inDegree[j] - Cardinality(given)
  BY <1>1 DEF SortTypeOK, Pop, Delivered
<1>9. SingleProducers(model) => Missing(j) \cap given = given
  <2> SUFFICES ASSUME SingleProducers(model), NEW k \in given
               PROVE  k \in Missing(j)
    OBVIOUS
  <2>1. ASSUME NEW p \in DOMAIN sorted
        PROVE  ins[k] \notin model.nodes[sorted[p]].outs
    <3>1. sorted[p] # i /\ sorted[p] \in Nodes(model) /\ i \in Nodes(model)
      BY <1>1 DEF SortIInv, Apart, SortTypeOK
    <3>2. model.nodes[i].outs \cap model.nodes[sorted[p]].outs \subseteq {Absent}
      BY <3>1 DEF SingleProducers
    <3>3. ins[k] # Absent
      BY DEF Unmet
    <3> QED BY <3>2, <3>3
  <2> QED BY <2>1 DEF Missing
<1>10. /\ inDegree[j] <= Cardinality(Missing(j))
       /\ SingleProducers(model) => inDegree[j] = Cardinality(Missing(j))
  BY DEF SortIInv, Counted
<1> HIDE DEF given
<1>11. SingleProducers(model) => inDegree'[j] = Cardinality(Missing(j)')
  BY <1>4, <1>5, <1>7, <1>8, <1>9, <1>10
<1> QED BY <1>4, <1>5, <1>6, <1>7, <1>8, <1>10, <1>11

LEMMA PopTyped ==
  ASSUME SortIInv, NEW i \in ready, Pop(i)
  PROVE  SortTypeOK'
<1>1. SortTypeOK /\ model' = model /\ outcome' = outcome
  BY DEF SortIInv, Pop
<1>2. inDegree' \in [Nodes(model) -> Int]
  <2>1. inDegree' = [j \in Nodes(model) |-> inDegree[j] - Delivered(model, i, j)]
    BY DEF Pop
  <2>2. \A j \in Nodes(model) : inDegree'[j] \in Int
    BY CountsSupplied
  <2>3. inDegree' = [j \in Nodes(model) |-> inDegree'[j]]
    BY <2>1
  <2> QED BY <2>2, <2>3
<1>3. ready' \subseteq Nodes(model)
  BY <1>1 DEF Pop, SortTypeOK
<1>4. sorted' \in Seq(Nodes(model))
  BY <1>1, Appended
<1> QED BY <1>1, <1>2, <1>3, <1>4 DEF SortTypeOK

LEMMA PopApart ==
  ASSUME SortIInv, NEW i \in ready, Pop(i)
  PROVE  Apart'
<1>1. SortTypeOK /\ Apart /\ model' = model
  BY DEF SortIInv, Pop
<1>2. /\ DOMAIN sorted = 1 .. Len(sorted) /\ Len(sorted) \in Nat
      /\ DOMAIN sorted' = 1 .. Len(sorted) + 1
      /\ \A p \in DOMAIN sorted : sorted'[p] = sorted[p]
      /\ sorted'[Len(sorted) + 1] = i
      /\ i \in Nodes(model)
  BY <1>1, Appended
<1>3. \A p \in DOMAIN sorted : sorted[p] # i /\ sorted[p] \in Nodes(model)
  BY <1>1 DEF Apart, SortTypeOK
<1>4. \A j \in Nodes(model) : (\E p \in DOMAIN sorted' : sorted'[p] = j)
                                <=> j = i \/ \E p \in DOMAIN sorted : sorted[p] = j
  BY <1>2
<1>5. ready' = (ready \ {i}) \cup {j \in Nodes(model) : inDegree[j] > 0 /\ inDegree'[j] <= 0}
  BY DEF Pop, BecomesReady
<1>6. \A j \in Nodes(model) : inDegree[j] \in Int /\ inDegree'[j] \in Int /\ inDegree'[j] <= inDegree[j]
  BY CountsSupplied
<1>7. \A p, q \in DOMAIN sorted' : sorted'[p] = sorted'[q] => p = q
  BY <1>1, <1>2, <1>3 DEF Apart
<1>8. \A j \in Nodes(model) : j = i \/ (\E p \in DOMAIN sorted : sorted[p] = j) =>
                                inDegree[j] <= 0 /\ (j # i => j \notin ready)
  BY <1>1, <1>2 DEF Apart
<1>9. \A p \in DOMAIN sorted' : sorted'[p] \notin ready'
  <2> SUFFICES ASSUME NEW p \in DOMAIN sorted' PROVE sorted'[p] \notin ready'
    OBVIOUS
  <2> DEFINE j == sorted'[p]
  <2>1. j \in Nodes(model) /\ (j = i \/ \E q \in DOMAIN sorted : sorted[q] = j)
    BY <1>2, <1>3
  <2>2. inDegree[j] <= 0 /\ inDegree[j] \in Int /\ (j # i => j \notin ready)
    BY <2>1, <1>8, <1>6
  <2> QED BY <2>1, <2>2, <1>5
<1>10. ASSUME NEW j \in Nodes(model)
       PROVE  inDegree'[j] <= 0 <=> j \in ready' \/ \E p \in DOMAIN sorted' : sorted'[p] = j
  <2>1. inDegree[j] <= 0 <=> j \in ready \/ \E p \in DOMAIN sorted : sorted[p] = j
    BY <1>1 DEF Apart
  <2>2. j \in ready' <=> (j \in ready /\ j # i) \/ (inDegree[j] > 0 /\ inDegree'[j] <= 0)
    BY <1>5
  <2>3. inDegree[j] \in Int /\ inDegree'[j] \in Int /\ inDegree'[j] <= inDegree[j]
    BY <1>6
  <2>4. (\E p \in DOMAIN sorted' : sorted'[p] = j) <=> j = i \/ \E p \in DOMAIN sorted : sorted[p] = j
    BY <1>4
  <2> QED BY <2>1, <2>2, <2>3, <2>4
<1> QED BY <1>1, <1>7, <1>9, <1>10 DEF Apart

LEMMA PopTopological ==
  ASSUME SortIInv, NEW i \in ready, Pop(i)
  PROVE  SortIsTopological'
<1>1. SortTypeOK /\ Apart /\ model' = model /\ SortIsTopological
  BY DEF SortIInv, Pop
<1>2. /\ DOMAIN sorted = 1 .. Len(sorted) /\ Len(sorted) \in Nat
      /\ DOMAIN sorted' = 1 .. Len(sorted) + 1
      /\ \A p \in DOMAIN sorted : sorted'[p] = sorted[p]
      /\ sorted'[Len(sorted) + 1] = i
      /\ i \in Nodes(model)
  BY <1>1, Appended
<1> SUFFICES ASSUME SingleProducers(model), NEW p \in DOMAIN sorted',
                    NEW k \in DOMAIN model.nodes[sorted'[p]].ins
             PROVE  \/ model.nodes[sorted'[p]].ins[k] \in model.given \cup {Absent}
                    \/ \E q \in 1 .. p - 1 :
                         model.nodes[sorted'[p]].ins[k] \in model.nodes[sorted'[q]].outs
  BY <1>1 DEF SortIsTopological
<1>3. CASE p \in DOMAIN sorted
  <2>1. \/ model.nodes[sorted[p]].ins[k] \in model.given \cup {Absent}
        \/ \E q \in 1 .. p - 1 : model.nodes[sorted[p]].ins[k] \in model.nodes[sorted[q]].outs
    BY <1>1, <1>2, <1>3 DEF SortIsTopological
  <2>2. 1 .. p - 1 \subseteq DOMAIN sorted
    BY <1>2, <1>3
  <2> QED BY <2>1, <2>2, <1>2, <1>3
<1>4. CASE p = Len(sorted) + 1
  <2>1. sorted'[p] = i /\ 1 .. p - 1 = DOMAIN sorted
    BY <1>2, <1>4
  <2>2. inDegree[i] <= 0 /\ inDegree[i] = Cardinality(Missing(i))
    BY <1>1, <1>2 DEF SortIInv, Apart, Counted
  <2>3. IsFiniteSet(Missing(i)) /\ Cardinality(Missing(i)) \in Nat
    BY <1>2, CountsSupplied
  <2>4. Missing(i) = {}
    BY <2>2, <2>3, FS_EmptySet
  <2>5. k \in Unmet(model, i) => \E q \in DOMAIN sorted :
                                   model.nodes[i].ins[k] \in model.nodes[sorted[q]].outs
    BY <2>4 DEF Missing
  <2> QED BY <2>1, <2>5, <1>2 DEF Unmet
<1> QED BY <1>2, <1>3, <1>4

LEMMA PopSortIInv ==
  ASSUME SortIInv, NEW i \in ready, Pop(i)
  PROVE  SortIInv'
<1>1. Counted'
  BY CountsSupplied DEF Counted, Pop
<1>2. Ended'
  BY DEF Pop, Ended
<1> QED BY <1>1, <1>2, PopTyped, PopApart, PopTopological DEF SortIInv

LEMMA FinishSortIInv ==
  ASSUME SortIInv, Finish
  PROVE  SortIInv'
<1>1. UNCHANGED <<model, inDegree, ready, sorted>> /\ outcome' \in {"accepted", "refused"}
  BY DEF Finish
<1>2. SortTypeOK' /\ Counted' /\ Apart' /\ SortIsTopological'
  BY <1>1 DEF SortIInv, SortTypeOK, Counted, Apart, SortIsTopological, Missing
<1>3. Ended'
  BY <1>1 DEF Finish, Ended, NoneAbsent, StaticShapes
<1> QED BY <1>2, <1>3 DEF SortIInv

LEMMA StutterSortIInv ==
  ASSUME SortIInv, UNCHANGED sortVars
  PROVE  SortIInv'
BY DEF SortIInv, SortTypeOK, Counted, Apart, SortIsTopological, Ended, Missing, NoneAbsent,
       StaticShapes, sortVars

\* The strengthening of the properties below that every step preserves.
THEOREM SortInductive == SortSpec => []SortIInv
<1>1. SortIInv /\ [SortNext]_sortVars => SortIInv'
  BY PopSortIInv, FinishSortIInv, StutterSortIInv DEF SortNext
<1> QED BY InitSortIInv, <1>1, PTL DEF SortSpec

-----------------------------------------------------------------------------
\* If tensors have single producers, whatever ingestion has sorted comes after
\* all it reads, in models of any size.
THEOREM Topological == SortSpec => []SortIsTopological
<1>1. SortIInv => SortIsTopological
  BY DEF SortIInv
<1> QED BY SortInductive, <1>1, PTL

LEMMA UpTo ==
  ASSUME NEW n \in Nat
  PROVE  IsFiniteSet(1 .. n) /\ Cardinality(1 .. n) = n
<1>1. 1 \in Int /\ n \in Int
  OBVIOUS
<1>2. IsFiniteSet(1 .. n) /\ Cardinality(1 .. n) = IF 1 > n THEN 0 ELSE n - 1 + 1
  BY <1>1, FS_Interval, Zenon
<1> QED BY <1>2

\* As many different nodes as a model has are all of them.
LEMMA AllSorted ==
  ASSUME SortTypeOK, \A p, q \in DOMAIN sorted : sorted[p] = sorted[q] => p = q
  PROVE  Len(sorted) = Len(model.nodes)
           <=> \A i \in Nodes(model) : \E p \in DOMAIN sorted : sorted[p] = i
<1> DEFINE S == {sorted[p] : p \in DOMAIN sorted}
           N == Nodes(model)
<1>1. /\ sorted \in Seq(N) /\ Len(sorted) \in Nat /\ DOMAIN sorted = 1 .. Len(sorted)
      /\ N = 1 .. Len(model.nodes) /\ Len(model.nodes) \in Nat
  BY ModelShape DEF SortTypeOK
<1>2. IsFiniteSet(N) /\ Cardinality(N) = Len(model.nodes)
  BY <1>1, UpTo
<1>3. IsFiniteSet(1 .. Len(sorted)) /\ Cardinality(1 .. Len(sorted)) = Len(sorted)
  BY <1>1, UpTo
<1>4. sorted \in Bijection(1 .. Len(sorted), S)
  BY <1>1 DEF Bijection, Injection, Surjection, IsInjective
<1>5. Cardinality(S) = Len(sorted)
  <2>1. ExistsBijection(1 .. Len(sorted), S)
    BY <1>4 DEF ExistsBijection
  <2> QED BY <1>3, <2>1, FS_Bijection
<1>6. S \in SUBSET N
  BY <1>1
<1>7. Cardinality(S) = Cardinality(N) <=> S = N
  BY <1>2, <1>6, FS_Subset
<1> QED BY <1>2, <1>5, <1>6, <1>7

\* Ingestion sorts no node twice, and accepts a model only when it has sorted
\* all of its nodes.
THEOREM Complete == SortSpec => []SortIsComplete
<1>1. SortIInv => SortIsComplete
  <2> SUFFICES ASSUME SortIInv PROVE SortIsComplete
    OBVIOUS
  <2>1. SortTypeOK /\ \A p, q \in DOMAIN sorted : sorted[p] = sorted[q] => p = q
    BY DEF SortIInv, Apart
  <2>2. outcome = "accepted" => Len(sorted) = Len(model.nodes)
    BY DEF SortIInv, Ended
  <2> QED BY <2>1, <2>2, AllSorted DEF SortIsComplete
<1> QED BY SortInductive, <1>1, PTL

\* A model whose inputs and outputs are all named and whose shapes are static is
\* refused only if some of its nodes wait for each other or for a tensor that
\* nobody produces: no legal model is lost, single producers or not.
THEOREM RefusedIsStuck == SortSpec => []OnlyStuckModelsRefused
<1>1. SortIInv => OnlyStuckModelsRefused
  <2> SUFFICES ASSUME SortIInv, outcome = "refused", NoneAbsent, StaticShapes
               PROVE  \E S \in SUBSET Nodes(model) : Stuck(model, S)
    BY DEF OnlyStuckModelsRefused
  <2> DEFINE S == {j \in Nodes(model) : \A p \in DOMAIN sorted : sorted[p] # j}
  <2>1. SortTypeOK /\ Apart /\ Counted /\ ready = {} /\ Len(sorted) # Len(model.nodes)
    BY DEF SortIInv, Ended
  <2>2. S # {}
    BY <2>1, AllSorted DEF Apart
  <2>3. ASSUME NEW i \in S
        PROVE  \E k \in DOMAIN model.nodes[i].ins :
                 /\ model.nodes[i].ins[k] \notin model.given \cup {Absent}
                 /\ \A j \in Nodes(model) \ S : model.nodes[i].ins[k] \notin model.nodes[j].outs
    <3>1. inDegree[i] > 0 /\ inDegree[i] \in Int /\ inDegree[i] <= Cardinality(Missing(i))
      BY <2>1 DEF Apart, Counted, SortTypeOK
    <3>2. Missing(i) # {}
      BY <3>1, FS_EmptySet
    <3>3. PICK k \in Missing(i) : TRUE
      BY <3>2
    <3>4. ASSUME NEW j \in Nodes(model) \ S
          PROVE  model.nodes[i].ins[k] \notin model.nodes[j].outs
      BY <3>3 DEF Missing
    <3> QED BY <3>3, <3>4 DEF Missing, Unmet
  <2> QED BY <2>2, <2>3 DEF Stuck
<1> QED BY SortInductive, <1>1, PTL

-----------------------------------------------------------------------------
(* Lists that are thinned out. *)

\* The members of keep, in order, each by its entry in all.
Thinned(list, all, keep, h) ==
  /\ Len(list) \in Nat /\ DOMAIN list = 1 .. Len(list) /\ list = [p \in 1 .. Len(list) |-> list[p]]
  /\ h \in [1 .. Len(list) -> keep]
  /\ \A p \in 1 .. Len(list) : list[p] = all[h[p]]
  /\ \A p, q \in 1 .. Len(list) : p < q => h[p] < h[q]
  /\ \A k \in keep : \E p \in 1 .. Len(list) : h[p] = k

\* Nothing is nothing, thinned out.
LEMMA ThinEmpty ==
  ASSUME NEW all
  PROVE  \E h : Thinned(<<>>, all, {}, h)
<1> DEFINE h == [p \in 1 .. 0 |-> {}]
<1>1. Thinned(<<>>, all, {}, h)
  BY DEF Thinned
<1> QED BY <1>1

\* Keeping the next entry appends it.
LEMMA ThinGrows ==
  ASSUME NEW list, NEW all, NEW keep, NEW h, Thinned(list, all, keep, h),
         NEW k \in Nat, keep \subseteq Nat, \A j \in keep : j < k
  PROVE  \E f : Thinned(Append(list, all[k]), all, keep \cup {k}, f)
<1> DEFINE n == Len(list)
           new == Append(list, all[k])
           f == [p \in 1 .. n + 1 |-> IF p = n + 1 THEN k ELSE h[p]]
<1>1. /\ n \in Nat /\ DOMAIN list = 1 .. n /\ list = [p \in 1 .. n |-> list[p]]
      /\ \A p \in 1 .. n : h[p] \in keep /\ list[p] = all[h[p]]
      /\ \A p, q \in 1 .. n : p < q => h[p] < h[q]
      /\ \A j \in keep : \E p \in 1 .. n : h[p] = j
  BY DEF Thinned
<1>2. /\ Len(new) = n + 1 /\ DOMAIN new = 1 .. n + 1 /\ new = [p \in 1 .. n + 1 |-> new[p]]
      /\ new[n + 1] = all[k] /\ \A p \in 1 .. n : new[p] = list[p]
  <2> DEFINE S == Range(list) \cup {all[k]}
  <2>1. list \in Seq(S) /\ all[k] \in S
    <3>1. \A p \in 1 .. n : list[p] \in S
      BY <1>1 DEF Range
    <3> HIDE DEF n, S
    <3>2. [p \in 1 .. n |-> list[p]] \in [1 .. n -> S]
      BY <3>1
    <3>3. list \in [1 .. n -> S]
      BY <3>2, <1>1
    <3>4. list \in Seq(S)
      BY <3>3, <1>1
    <3> QED BY <3>4 DEF S
  <2> HIDE DEF S
  <2> QED BY <2>1, <1>1
<1> HIDE DEF new, n
<1>3. f \in [1 .. n + 1 -> keep \cup {k}]
  BY <1>1
<1>4. ASSUME NEW p \in 1 .. n + 1 PROVE new[p] = all[f[p]]
  <2>1. CASE p = n + 1
    BY <2>1, <1>1, <1>2
  <2>2. CASE p # n + 1
    <3>1. p \in 1 .. n
      BY <2>2, <1>1
    <3> QED BY <3>1, <2>2, <1>1, <1>2
  <2> QED BY <2>1, <2>2
<1>5. ASSUME NEW p \in 1 .. n + 1, NEW q \in 1 .. n + 1, p < q PROVE f[p] < f[q]
  <2>1. p \in 1 .. n /\ p # n + 1
    BY <1>1, <1>5
  <2>2. CASE q = n + 1
    BY <2>1, <2>2, <1>1
  <2>3. CASE q # n + 1
    <3>1. q \in 1 .. n
      BY <2>3, <1>1
    <3> QED BY <2>1, <3>1, <2>3, <1>1, <1>5
  <2> QED BY <2>2, <2>3
<1>6. ASSUME NEW j \in keep \cup {k} PROVE \E p \in 1 .. n + 1 : f[p] = j
  <2>1. CASE j = k
    <3>1. n + 1 \in 1 .. n + 1 /\ f[n + 1] = k
      BY <1>1
    <3> QED BY <2>1, <3>1
  <2>2. CASE j \in keep
    <3>1. PICK p \in 1 .. n : h[p] = j
      BY <2>2, <1>1
    <3>2. p \in 1 .. n + 1 /\ p # n + 1
      BY <1>1
    <3> QED BY <3>1, <3>2
  <2> QED BY <2>1, <2>2
<1> HIDE DEF f
<1>7. Thinned(new, all, keep \cup {k}, f)
  <2>1. Len(new) \in Nat
    BY <1>1, <1>2
  <2> QED BY <2>1, <1>2, <1>3, <1>4, <1>5, <1>6 DEF Thinned
<1> QED BY <1>7 DEF new

\* Entries that are distinct are kept or not as a whole.
LEMMA OrderKept ==
  ASSUME NEW graph, NEW new, InOrder(graph), NEW n \in Nat, DOMAIN new.ops = 1 .. n, 
         DOMAIN graph.ops \subseteq Int,
         NEW h \in [1 .. n -> DOMAIN graph.ops], NEW w \in [1 .. n -> DOMAIN graph.ops],
         \A p, q \in 1 .. n : p < q => h[p] < h[q],
         \A p, q \in 1 .. n : w[p] = w[q] => p = q,
         \A p \in 1 .. n : /\ h[p] <= w[p]
                           /\ new.ops[p].outs = graph.ops[w[p]].outs
                           /\ \A t \in ToSet(new.ops[p].ins) :
                                \/ t \in ToSet(graph.ops[h[p]].ins)
                                \/ \A i \in DOMAIN graph.ops : t \notin ToSet(graph.ops[i].outs)
  PROVE  InOrder(new)
<1>1. ASSUME NEW p \in 1 .. n, NEW q \in 1 .. n,
             NEW k \in DOMAIN new.ops[p].outs, NEW l \in DOMAIN new.ops[q].outs,
             new.ops[p].outs[k] = new.ops[q].outs[l]
      PROVE  p = q /\ k = l
  <2>1. /\ w[p] \in DOMAIN graph.ops /\ w[q] \in DOMAIN graph.ops
        /\ k \in DOMAIN graph.ops[w[p]].outs /\ l \in DOMAIN graph.ops[w[q]].outs
        /\ graph.ops[w[p]].outs[k] = graph.ops[w[q]].outs[l]
    BY <1>1
  <2>2. w[p] = w[q] /\ k = l
    BY <2>1 DEF InOrder
  <2> QED BY <2>2
<1>2. ASSUME NEW p \in 1 .. n, NEW q \in 1 .. n,
             ToSet(new.ops[p].outs) \cap ToSet(new.ops[q].ins) # {}
      PROVE  p < q
  <2>1. PICK t : t \in ToSet(new.ops[p].outs) /\ t \in ToSet(new.ops[q].ins)
    BY <1>2
  <2>2. t \in ToSet(graph.ops[w[p]].outs) /\ w[p] \in DOMAIN graph.ops
    BY <2>1
  <2>3. t \in ToSet(graph.ops[h[q]].ins) /\ h[q] \in DOMAIN graph.ops
    BY <2>1, <2>2
  <2>4. w[p] < h[q]
    BY <2>2, <2>3 DEF InOrder
  <2>5. h[p] <= w[p] /\ h[p] \in Int /\ w[p] \in Int /\ h[q] \in Int
    BY <2>2, <2>3
  <2>6. h[p] < h[q]
    BY <2>4, <2>5
  <2>7. p # q /\ ~(q < p)
    BY <2>5, <2>6
  <2> QED BY <2>7
<1> QED BY <1>1, <1>2 DEF InOrder

\* What is left of a list is in order.
LEMMA PartInOrder ==
  ASSUME NEW graph, NEW new, InOrder(graph), NEW n \in Nat, DOMAIN new.ops = 1 .. n,
         DOMAIN graph.ops \subseteq Int, NEW h \in [1 .. n -> DOMAIN graph.ops],
         \A p, q \in 1 .. n : p < q => h[p] < h[q],
         \A p \in 1 .. n : new.ops[p] = graph.ops[h[p]]
  PROVE  InOrder(new)
<1>1. \A p \in 1 .. n : h[p] \in Int
  OBVIOUS
<1>2. \A p, q \in 1 .. n : h[p] = h[q] => p = q
  BY <1>1
<1>3. ASSUME NEW p \in 1 .. n, NEW q \in 1 .. n,
             NEW k \in DOMAIN new.ops[p].outs, NEW l \in DOMAIN new.ops[q].outs,
             new.ops[p].outs[k] = new.ops[q].outs[l]
      PROVE  p = q /\ k = l
  <2>1. h[p] = h[q] /\ k = l
    BY <1>3 DEF InOrder
  <2> QED BY <2>1, <1>2
<1>4. ASSUME NEW p \in 1 .. n, NEW q \in 1 .. n,
             ToSet(new.ops[p].outs) \cap ToSet(new.ops[q].ins) # {}
      PROVE  p < q
  <2>1. h[p] < h[q]
    BY <1>4 DEF InOrder
  <2>2. p # q /\ ~(q < p)
    BY <2>1, <1>1
  <2> QED BY <2>2
<1> QED BY <1>3, <1>4 DEF InOrder

-----------------------------------------------------------------------------
(* Graphs. *)

\* The strings, and among them those the passes make up.
Words == STRING \cup {"absorbed", "Conv_Relu", "Gemm_Relu", "MatMul_Add", "Add_Relu"}

\* Names of tensors: sequences, as absorption makes names up from names.
TensorNames == Seq(Words)

\* Operators as the passes leave them.
Operations ==
  [type : Words, attr : Seq(STRING), ins : Seq(TensorNames), outs : Seq(TensorNames)]

\* Tensors as the passes leave them.
IsTensor(x) ==
  x \in [name : {x.name}, dtype : Dtypes, shape : Seq(Nat), val : {x.val},
         as : DOMAIN ItemSize]

\* Graphs as the passes leave them.
IsGraph(graph) ==
  /\ graph \in [ops : Seq(Operations), tensors : {graph.tensors},
                inputs : Seq(TensorNames), outputs : SUBSET TensorNames]
  /\ \A t \in DOMAIN graph.tensors : IsTensor(graph.tensors[t])

\* What every pass leaves, whatever the graph.
Sound(graph) ==
  /\ IsGraph(graph) /\ NamesKnown(graph) /\ InOrder(graph)
  /\ \A op \in ToSet(graph.ops) :
       HasArity(op) /\ \A t \in ToSet(op.outs) : ~IsConstant(graph.tensors, t)

\* The inputs and outputs of an operator are sequences of names.
LEMMA OperatorShape ==
  ASSUME NEW op \in Operations
  PROVE  /\ op.ins \in Seq(TensorNames) /\ op.outs \in Seq(TensorNames)
         /\ Len(op.ins) \in Nat /\ DOMAIN op.ins = 1 .. Len(op.ins)
         /\ Len(op.outs) \in Nat /\ DOMAIN op.outs = 1 .. Len(op.outs)
         /\ op.attr \in Seq(STRING) /\ op.type \in Words
         /\ \A k \in DOMAIN op.ins : op.ins[k] \in ToSet(op.ins)
         /\ \A k \in DOMAIN op.outs : op.outs[k] \in ToSet(op.outs)
<1>1. op.ins \in Seq(TensorNames) /\ op.outs \in Seq(TensorNames) /\ op.attr \in Seq(STRING) /\ op.type \in Words
  BY DEF Operations
<1> HIDE DEF Operations
<1>2. /\ Len(op.ins) \in Nat /\ DOMAIN op.ins = 1 .. Len(op.ins)
      /\ Len(op.outs) \in Nat /\ DOMAIN op.outs = 1 .. Len(op.outs)
  BY <1>1
<1>3. /\ \A k \in DOMAIN op.ins : op.ins[k] \in ToSet(op.ins)
      /\ \A k \in DOMAIN op.outs : op.outs[k] \in ToSet(op.outs)
  BY DEF ToSet
<1> QED BY <1>1, <1>2, <1>3

\* The operators of a graph are a sequence, its tensors a table.
LEMMA GraphShape ==
  ASSUME NEW graph, IsGraph(graph)
  PROVE  /\ graph.ops \in Seq(Operations) /\ Len(graph.ops) \in Nat
         /\ DOMAIN graph.ops = 1 .. Len(graph.ops)
         /\ \A k \in DOMAIN graph.ops : graph.ops[k] \in Operations /\ graph.ops[k] \in ToSet(graph.ops)
         /\ \A op \in ToSet(graph.ops) : op \in Operations /\ \E k \in DOMAIN graph.ops : graph.ops[k] = op
         /\ \A t \in DOMAIN graph.tensors : IsTensor(graph.tensors[t])
         /\ graph.inputs \in Seq(TensorNames) /\ graph.outputs \in SUBSET TensorNames
<1> HIDE DEF Operations
<1>1. /\ graph.ops \in Seq(Operations) /\ \A t \in DOMAIN graph.tensors : IsTensor(graph.tensors[t])
      /\ graph.inputs \in Seq(TensorNames) /\ graph.outputs \in SUBSET TensorNames
  BY DEF IsGraph
<1>2. Len(graph.ops) \in Nat /\ DOMAIN graph.ops = 1 .. Len(graph.ops)
  BY <1>1
<1>3. \A k \in DOMAIN graph.ops : graph.ops[k] \in Operations /\ graph.ops[k] \in ToSet(graph.ops)
  BY <1>1, <1>2, ElementOfSeq DEF ToSet
<1>4. \A op \in ToSet(graph.ops) : op \in Operations /\ \E k \in DOMAIN graph.ops : graph.ops[k] = op
  BY <1>3 DEF ToSet
<1> QED BY <1>1, <1>2, <1>3, <1>4

\* What an operator of a sound graph names has a tensor.
LEMMA SoundOperators ==
  ASSUME NEW graph, Sound(graph), NEW k \in DOMAIN graph.ops
  PROVE  /\ HasArity(graph.ops[k])
         /\ \A t \in ToSet(graph.ops[k].ins) : t \in DOMAIN graph.tensors
         /\ \A t \in ToSet(graph.ops[k].outs) : t \in DOMAIN graph.tensors /\ ~IsConstant(graph.tensors, t)
         /\ 1 \in DOMAIN graph.ops[k].outs /\ graph.ops[k].outs[1] \in ToSet(graph.ops[k].outs)
<1>1. graph.ops[k] \in Operations /\ graph.ops[k] \in ToSet(graph.ops)
  BY GraphShape DEF Sound
<1>2. HasArity(graph.ops[k]) /\ \A t \in ToSet(graph.ops[k].outs) : ~IsConstant(graph.tensors, t)
  BY <1>1 DEF Sound
<1>3. \A t \in ToSet(graph.ops[k].ins) \cup ToSet(graph.ops[k].outs) : t \in DOMAIN graph.tensors
  BY <1>1 DEF Sound, NamesKnown
<1>4. Len(graph.ops[k].outs) > 0
  <2>1. graph.ops[k].outs # <<>>
    BY <1>2 DEF HasArity
  <2> QED BY <1>1, <2>1, OperatorShape, EmptySeq
<1> HIDE DEF Operations
<1>5. 1 \in DOMAIN graph.ops[k].outs
  BY <1>1, <1>4, OperatorShape
<1> QED BY <1>1, <1>2, <1>3, <1>5, OperatorShape

-----------------------------------------------------------------------------
(* What a graph means. *)

\* Some operator writes the tensor.
Written(graph, t) == \E k \in DOMAIN graph.ops : t \in ToSet(graph.ops[k].outs)

\* V gives each tensor what the operators make of what is held before.
Means(graph, V) ==
  /\ \A t \in DOMAIN graph.tensors : ~Written(graph, t) => V[t] = Held(graph, t)
  /\ \A k \in DOMAIN graph.ops : \A t \in ToSet(graph.ops[k].outs) : V[t] = Compute(graph.ops[k], V)

\* An operator computes the same from the same operands.
LEMMA SameComputed ==
  ASSUME NEW op, NEW V, NEW W, \A x \in DOMAIN op.ins : V[op.ins[x]] = W[op.ins[x]]
  PROVE  Compute(op, V) = Compute(op, W)
<1> DEFINE a == [x \in DOMAIN op.ins |-> V[op.ins[x]]]
           b == [x \in DOMAIN op.ins |-> W[op.ins[x]]]
<1>1. a = b
  OBVIOUS
<1>2. Compute(op, V) = Result(op.type, op.attr, a) /\ Compute(op, W) = Result(op.type, op.attr, b)
  BY DEF Compute
<1> HIDE DEF a, b
<1> QED BY <1>1, <1>2

\* The values after one more operator.
StepOf(graph, vals, k) ==
  [t \in DOMAIN graph.tensors |->
     IF t \in ToSet(graph.ops[k].outs) THEN Compute(graph.ops[k], vals) ELSE vals[t]]

\* Values is what its steps make of it.
LEMMA ValuesUnfold ==
  ASSUME NEW graph, Len(graph.ops) \in Nat
  PROVE  \E vals : /\ vals[0] = [t \in DOMAIN graph.tensors |-> Held(graph, t)]
                   /\ \A k \in 1 .. Len(graph.ops) : vals[k] = StepOf(graph, vals[k - 1], k)
                   /\ Values(graph) = vals[Len(graph.ops)]
<1> DEFINE n == Len(graph.ops)
           Start == [t \in DOMAIN graph.tensors |-> Held(graph, t)]
           Is(m, f) == f = [k \in 0 .. m |-> IF k = 0 THEN Start ELSE StepOf(graph, f[k - 1], k)]
           G == {m \in Nat : \E f : Is(m, f)}
           vals == CHOOSE f : Is(n, f)
<1>5. Values(graph) = vals[n]
  BY DEF Values, vals, Is, n, Start, StepOf
<1> HIDE DEF Start
<1>1. 0 \in G
  <2> DEFINE f == [k \in 0 .. 0 |-> Start]
  <2>1. Is(0, f)
    OBVIOUS
  <2> QED BY <2>1
<1>2. ASSUME NEW m \in Nat, m \in G PROVE m + 1 \in G
  <2>1. PICK f : Is(m, f)
    BY <1>2
  <2> DEFINE e == [k \in 0 .. m + 1 |-> IF k = m + 1 THEN StepOf(graph, f[m], m + 1) ELSE f[k]]
  <2>2. ASSUME NEW k \in 0 .. m + 1
        PROVE  e[k] = IF k = 0 THEN Start ELSE StepOf(graph, e[k - 1], k)
    <3>1. CASE k = m + 1
      <4>1. k # 0 /\ k - 1 = m /\ m \in 0 .. m + 1 /\ m # m + 1
        BY <3>1
      <4> QED BY <3>1, <4>1
    <3>2. CASE k # m + 1
      <4>1. k \in 0 .. m
        BY <3>2
      <4>2. f[k] = IF k = 0 THEN Start ELSE StepOf(graph, f[k - 1], k)
        BY <2>1, <4>1
      <4>3. k # 0 => k - 1 \in 0 .. m + 1 /\ k - 1 # m + 1
        BY <4>1
      <4> QED BY <3>2, <4>1, <4>2, <4>3
    <3> QED BY <3>1, <3>2
  <2> HIDE DEF Is
  <2>3. e = [k \in 0 .. m + 1 |-> e[k]]
    OBVIOUS
  <2> HIDE DEF e
  <2>4. Is(m + 1, e)
    BY <2>2, <2>3 DEF Is
  <2> QED BY <2>4
<1> HIDE DEF Is
<1>3. Nat \subseteq G
  <2> HIDE DEF G
  <2> QED BY <1>1, <1>2, NatInductive
<1>4. Is(n, vals)
  BY <1>3
<1>6. vals[0] = Start /\ \A k \in 1 .. n : vals[k] = StepOf(graph, vals[k - 1], k)
  <2> HIDE DEF vals, n
  <2>1. \A k \in 0 .. n : vals[k] = IF k = 0 THEN Start ELSE StepOf(graph, vals[k - 1], k)
    BY <1>4 DEF Is
  <2>2. n \in Nat
    BY DEF n
  <2> QED BY <2>1, <2>2
<1> HIDE DEF vals
<1> QED BY <1>5, <1>6 DEF Start

\* What the operators compute one after the other is what a graph means.
LEMMA ValuesMean ==
  ASSUME NEW graph, Sound(graph)
  PROVE  Means(graph, Values(graph))
<1> DEFINE n == Len(graph.ops)
           V == Values(graph)
<1>1. n \in Nat /\ DOMAIN graph.ops = 1 .. n
  BY GraphShape DEF Sound
<1>2. PICK vals : /\ vals[0] = [t \in DOMAIN graph.tensors |-> Held(graph, t)]
                  /\ \A k \in 1 .. n : vals[k] = StepOf(graph, vals[k - 1], k)
                  /\ V = vals[n]
  BY <1>1, ValuesUnfold
<1> DEFINE NotAfter(k, t) == \A l \in 1 .. n : l > k => t \notin ToSet(graph.ops[l].outs)
           G == {m \in Nat : m <= n => \A k \in 0 .. m : \A t \in DOMAIN graph.tensors :
                   (\A l \in 1 .. m : l > k => t \notin ToSet(graph.ops[l].outs)) => vals[m][t] = vals[k][t]}
<1> HIDE DEF V, n
<1>3. 0 \in G
  OBVIOUS
<1>4. ASSUME NEW m \in Nat, m \in G PROVE m + 1 \in G
  <2> SUFFICES ASSUME m + 1 <= n, NEW k \in 0 .. m + 1, NEW t \in DOMAIN graph.tensors,
                      \A l \in 1 .. m + 1 : l > k => t \notin ToSet(graph.ops[l].outs)
               PROVE  vals[m + 1][t] = vals[k][t]
    OBVIOUS
  <2>1. CASE k = m + 1
    BY <2>1
  <2>2. CASE k # m + 1
    <3>1. k \in 0 .. m /\ m + 1 > k /\ m + 1 \in 1 .. n /\ (m + 1) - 1 = m /\ m + 1 \in 1 .. m + 1 /\ m <= n
          /\ 1 .. m \subseteq 1 .. m + 1
      BY <2>2, <1>1
    <3>2. t \notin ToSet(graph.ops[m + 1].outs)
      BY <3>1
    <3>3. vals[m + 1] = StepOf(graph, vals[m], m + 1)
      BY <3>1, <1>2
    <3>4. vals[m + 1][t] = vals[m][t]
      BY <3>2, <3>3 DEF StepOf
    <3>5. \A l \in 1 .. m : l > k => t \notin ToSet(graph.ops[l].outs)
      BY <3>1
    <3>6. vals[m][t] = vals[k][t]
      BY <3>1, <3>5, <1>4
    <3> QED BY <3>4, <3>6
  <2> QED BY <2>1, <2>2
<1>5. Nat \subseteq G
  <2> HIDE DEF G
  <2> QED BY <1>3, <1>4, NatInductive
<1>6. \A k \in 0 .. n : \A t \in DOMAIN graph.tensors : NotAfter(k, t) => V[t] = vals[k][t]
  <2>1. n \in G /\ n <= n
    BY <1>1, <1>5
  <2> QED BY <2>1, <1>2
<1> HIDE DEF G
<1>7. ASSUME NEW t \in DOMAIN graph.tensors, ~Written(graph, t) PROVE V[t] = Held(graph, t)
  <2>1. NotAfter(0, t) /\ 0 \in 0 .. n
    BY <1>1, <1>7 DEF Written
  <2>2. V[t] = vals[0][t]
    BY <2>1, <1>6
  <2> QED BY <2>2, <1>2
<1>8. ASSUME NEW k \in DOMAIN graph.ops, NEW t \in ToSet(graph.ops[k].outs)
      PROVE  V[t] = Compute(graph.ops[k], V)
  <2>1. k \in 1 .. n /\ k \in 0 .. n /\ k - 1 \in 0 .. n
    BY <1>1
  <2>2. t \in DOMAIN graph.tensors
    BY SoundOperators
  <2>3. NotAfter(k, t)
    <3> SUFFICES ASSUME NEW l \in 1 .. n, l > k, t \in ToSet(graph.ops[l].outs) PROVE FALSE
      OBVIOUS
    <3>1. PICK x \in DOMAIN graph.ops[k].outs : graph.ops[k].outs[x] = t
      BY DEF ToSet
    <3>2. PICK y \in DOMAIN graph.ops[l].outs : graph.ops[l].outs[y] = t
      BY DEF ToSet
    <3>3. k = l
      BY <3>1, <3>2, <1>1 DEF Sound, InOrder
    <3> QED BY <3>3, <2>1, <1>1
  <2>4. V[t] = vals[k][t]
    BY <2>1, <2>2, <2>3, <1>6
  <2>5. vals[k] = StepOf(graph, vals[k - 1], k)
    BY <2>1, <1>2
  <2>6. vals[k][t] = Compute(graph.ops[k], vals[k - 1])
    BY <2>2, <2>5 DEF StepOf
  <2>7. ASSUME NEW x \in DOMAIN graph.ops[k].ins PROVE vals[k - 1][graph.ops[k].ins[x]] = V[graph.ops[k].ins[x]]
    <3> DEFINE u == graph.ops[k].ins[x]
    <3>1. u \in ToSet(graph.ops[k].ins)
      BY DEF ToSet
    <3>2. u \in DOMAIN graph.tensors
      BY <3>1, SoundOperators
    <3> HIDE DEF u
    <3>3. NotAfter(k - 1, u)
      <4> SUFFICES ASSUME NEW l \in 1 .. n, l > k - 1, u \in ToSet(graph.ops[l].outs) PROVE FALSE
        OBVIOUS
      <4>1. ToSet(graph.ops[l].outs) \cap ToSet(graph.ops[k].ins) # {}
        BY <3>1
      <4>2. l < k
        BY <4>1, <1>1 DEF Sound, InOrder
      <4> QED BY <4>2, <2>1, <1>1
    <3>4. V[u] = vals[k - 1][u]
      BY <3>2, <3>3, <2>1, <1>6
    <3> QED BY <3>4 DEF u
  <2> DEFINE before == vals[k - 1]
             op == graph.ops[k]
  <2>8. \A x \in DOMAIN op.ins : before[op.ins[x]] = V[op.ins[x]]
    BY <2>7
  <2> HIDE DEF before, op
  <2>9. Compute(op, before) = Compute(op, V)
    BY <2>8, SameComputed
  <2> QED BY <2>4, <2>6, <2>9 DEF before, op
<1>9. Means(graph, V)
  BY <1>7, <1>8 DEF Means
<1> QED BY <1>9 DEF V

\* A graph means one thing.
LEMMA OneMeaning ==
  ASSUME NEW graph, Sound(graph), NEW V, NEW W, Means(graph, V), Means(graph, W),
         NEW t \in DOMAIN graph.tensors
  PROVE  V[t] = W[t]
<1> DEFINE n == Len(graph.ops)
           G == {m \in Nat : \A k \in DOMAIN graph.ops : k <= m => \A u \in ToSet(graph.ops[k].outs) : V[u] = W[u]}
<1>1. n \in Nat /\ DOMAIN graph.ops = 1 .. n
  BY GraphShape DEF Sound
<1>2. \A u \in DOMAIN graph.tensors : ~Written(graph, u) => V[u] = W[u]
  BY DEF Means
<1>3. 0 \in G
  BY <1>1
<1>4. ASSUME NEW m \in Nat, m \in G PROVE m + 1 \in G
  <2> SUFFICES ASSUME NEW k \in DOMAIN graph.ops, k <= m + 1, NEW u \in ToSet(graph.ops[k].outs)
               PROVE  V[u] = W[u]
    OBVIOUS
  <2>1. k \in Nat
    BY <1>1
  <2>2. ASSUME NEW x \in DOMAIN graph.ops[k].ins PROVE V[graph.ops[k].ins[x]] = W[graph.ops[k].ins[x]]
    <3> DEFINE v == graph.ops[k].ins[x]
    <3>1. v \in ToSet(graph.ops[k].ins)
      BY DEF ToSet
    <3>2. v \in DOMAIN graph.tensors
      BY <3>1, SoundOperators
    <3> HIDE DEF v
    <3>3. CASE ~Written(graph, v)
      BY <3>2, <3>3, <1>2 DEF v
    <3>4. CASE Written(graph, v)
      <4>1. PICK l \in DOMAIN graph.ops : v \in ToSet(graph.ops[l].outs)
        BY <3>4 DEF Written
      <4>2. ToSet(graph.ops[l].outs) \cap ToSet(graph.ops[k].ins) # {}
        BY <3>1, <4>1
      <4>3. l < k
        BY <4>2 DEF Sound, InOrder
      <4>4. l <= m
        BY <4>3, <2>1, <1>1
      <4> QED BY <4>1, <4>4, <1>4 DEF v
    <3> QED BY <3>3, <3>4 DEF v
  <2>3. Compute(graph.ops[k], V) = Compute(graph.ops[k], W)
    BY <2>2, SameComputed
  <2> QED BY <2>3 DEF Means
<1>5. Nat \subseteq G
  <2> HIDE DEF G
  <2> QED BY <1>3, <1>4, NatInductive
<1>6. n \in G
  BY <1>1, <1>5
<1>7. CASE Written(graph, t)
  <2>1. PICK k \in DOMAIN graph.ops : t \in ToSet(graph.ops[k].outs)
    BY <1>7 DEF Written
  <2>2. k <= n
    BY <1>1
  <2> QED BY <2>1, <2>2, <1>6
<1> QED BY <1>2, <1>7

\* Two graphs compute the same if what the second means agrees where the caller looks.
LEMMA SameOutputs ==
  ASSUME NEW graph, Sound(graph), NEW new, Sound(new), new.outputs = graph.outputs,
         NEW W, Means(new, W), \A t \in graph.outputs : W[t] = Values(graph)[t]
  PROVE  Outputs(new) = Outputs(graph)
<1> DEFINE A == Values(graph)
           B == Values(new)
<1>1. ASSUME NEW t \in graph.outputs PROVE B[t] = A[t]
  <2>1. t \in DOMAIN new.tensors
    BY DEF Sound, NamesKnown
  <2>2. B[t] = W[t]
    BY <2>1, ValuesMean, OneMeaning
  <2> QED BY <2>2
<1>2. Outputs(new) = [t \in graph.outputs |-> B[t]] /\ Outputs(graph) = [t \in graph.outputs |-> A[t]]
  BY DEF Outputs
<1> HIDE DEF A, B
<1> QED BY <1>1, <1>2

\* A constant has its own value from the start.
LEMMA ConstantMeans ==
  ASSUME NEW graph, Sound(graph), NEW t, IsConstant(graph.tensors, t)
  PROVE  ~Written(graph, t) /\ Held(graph, t) = Read(graph.tensors[t]) /\ Values(graph)[t] = Read(graph.tensors[t])
<1>1. ~Written(graph, t)
  BY SoundOperators DEF Written
<1>2. Held(graph, t) = Read(graph.tensors[t]) /\ t \in DOMAIN graph.tensors
  BY DEF Held, IsConstant
<1>3. Values(graph)[t] = Held(graph, t)
  <2>1. Means(graph, Values(graph))
    BY ValuesMean
  <2> QED BY <2>1, <1>1, <1>2 DEF Means
<1> QED BY <1>1, <1>2, <1>3

-----------------------------------------------------------------------------
(* Folding. *)

\* A sweep of folding takes one operator after the other.
LEMMA FoldUnfolds ==
  ASSUME NEW graph, Len(graph.ops) \in Nat
  PROVE  \E acc : /\ acc[0] = [ops |-> <<>>, tensors |-> graph.tensors, changed |-> FALSE, raised |-> FALSE]
                  /\ \A k \in 1 .. Len(graph.ops) : acc[k] = FoldOp(acc[k - 1], graph.ops[k])
                  /\ FoldSweep(graph) = acc[Len(graph.ops)]
<1> DEFINE n == Len(graph.ops)
           Start == [ops |-> <<>>, tensors |-> graph.tensors, changed |-> FALSE, raised |-> FALSE]
           Is(m, f) == f = [k \in 0 .. m |-> IF k = 0 THEN Start ELSE FoldOp(f[k - 1], graph.ops[k])]
           G == {m \in Nat : \E f : Is(m, f)}
           acc == CHOOSE f : Is(n, f)
<1> HIDE DEF Start
<1>1. 0 \in G
  <2> DEFINE f == [k \in 0 .. 0 |-> Start]
  <2>1. Is(0, f)
    OBVIOUS
  <2> QED BY <2>1
<1>2. ASSUME NEW m \in Nat, m \in G PROVE m + 1 \in G
  <2>1. PICK f : Is(m, f)
    BY <1>2
  <2> DEFINE e == [k \in 0 .. m + 1 |-> IF k = m + 1 THEN FoldOp(f[m], graph.ops[m + 1]) ELSE f[k]]
  <2>2. ASSUME NEW k \in 0 .. m + 1
        PROVE  e[k] = IF k = 0 THEN Start ELSE FoldOp(e[k - 1], graph.ops[k])
    <3>1. CASE k = m + 1
      <4>1. k # 0 /\ k - 1 = m /\ m \in 0 .. m + 1 /\ m # m + 1
        BY <3>1
      <4> QED BY <3>1, <4>1
    <3>2. CASE k # m + 1
      <4>1. k \in 0 .. m
        BY <3>2
      <4>2. f[k] = IF k = 0 THEN Start ELSE FoldOp(f[k - 1], graph.ops[k])
        BY <2>1, <4>1
      <4>3. k # 0 => k - 1 \in 0 .. m + 1 /\ k - 1 # m + 1
        BY <4>1
      <4> QED BY <3>2, <4>1, <4>2, <4>3
    <3> QED BY <3>1, <3>2
  <2> HIDE DEF Is
  <2>3. e = [k \in 0 .. m + 1 |-> e[k]]
    OBVIOUS
  <2> HIDE DEF e
  <2>4. Is(m + 1, e)
    BY <2>2, <2>3 DEF Is
  <2> QED BY <2>4
<1> HIDE DEF Is
<1>3. Nat \subseteq G
  <2> HIDE DEF G
  <2> QED BY <1>1, <1>2, NatInductive
<1>4. Is(n, acc)
  BY <1>3
<1>5. FoldSweep(graph) = acc[n]
  BY DEF FoldSweep, acc, Is, n, Start
<1>6. acc[0] = Start /\ \A k \in 1 .. n : acc[k] = FoldOp(acc[k - 1], graph.ops[k])
  <2> HIDE DEF acc, n
  <2>1. \A k \in 0 .. n : acc[k] = IF k = 0 THEN Start ELSE FoldOp(acc[k - 1], graph.ops[k])
    BY <1>4 DEF Is
  <2>2. n \in Nat
    BY DEF n
  <2> QED BY <2>1, <2>2
<1> HIDE DEF acc
<1> QED BY <1>5, <1>6 DEF Start

\* What an operator that can be evaluated computes is a value of its own.
LEMMA ResultIsTerm ==
  ASSUME NEW type \in Evaluable, NEW attr, NEW args
  PROVE  /\ Result(type, attr, args) # NoValue
         /\ OpOf(Result(type, attr, args)) \notin {"scaled", "otherwise"}
<1>1. Result(type, attr, args) = Term(type, IF type = "Add" THEN <<>> ELSE attr,
                                            IF type = "Add" THEN ToSet(args) ELSE args)
  BY DEF Result, Evaluable, Plus
<1>2. type \notin {"none", "scaled", "otherwise"}
  BY DEF Evaluable
<1> QED BY <1>1, <1>2 DEF Term, NoValue, OpOf

\* The constant that folding makes of an operator's result.
Made(graph, ts, op) ==
  LET operands == [k \in DOMAIN op.ins |-> ts[op.ins[k]]]
      t == op.outs[1]
  IN  Constant(t, graph.tensors[t].dtype, ArrayShape(op, operands, graph.tensors[t].shape),
               ArrayValue(op, operands), ArrayType(op, operands))

\* The same operands make the same constant.
LEMMA SameMade ==
  ASSUME NEW graph, NEW op, NEW ts, NEW new, \A k \in DOMAIN op.ins : ts[op.ins[k]] = new[op.ins[k]]
  PROVE  Made(graph, ts, op) = Made(graph, new, op)
<1> DEFINE a == [k \in DOMAIN op.ins |-> ts[op.ins[k]]]
           b == [k \in DOMAIN op.ins |-> new[op.ins[k]]]
           Of(operands) ==
             Constant(op.outs[1], graph.tensors[op.outs[1]].dtype,
                      ArrayShape(op, operands, graph.tensors[op.outs[1]].shape),
                      ArrayValue(op, operands), ArrayType(op, operands))
<1>1. a = b
  OBVIOUS
<1>2. Made(graph, ts, op) = Of(a) /\ Made(graph, new, op) = Of(b)
  BY DEF Made
<1> HIDE DEF a, b, Of
<1> QED BY <1>1, <1>2

\* What numpy computes is a value that absorption has not made.
LEMMA ArrayIsTerm ==
  ASSUME NEW op, op.type \in Evaluable, NEW operands
  PROVE  ArrayValue(op, operands) # NoValue /\ OpOf(ArrayValue(op, operands)) # "scaled"
<1> DEFINE result == ResultOf(op, operands)
<1>1. result # NoValue /\ OpOf(result) # "scaled"
  BY ResultIsTerm DEF ResultOf
<1>2. ArrayValue(op, operands) = IF Deviates(op, result) THEN Term("otherwise", <<>>, <<result>>) ELSE result
  BY DEF ArrayValue
<1> HIDE DEF result
<1>3. Term("otherwise", <<>>, <<result>>) # NoValue /\ OpOf(Term("otherwise", <<>>, <<result>>)) # "scaled"
  BY DEF Term, NoValue, OpOf
<1> QED BY <1>1, <1>2, <1>3

\* What folding makes is a constant under the name of the result.
LEMMA MadeIsConstant ==
  ASSUME NEW graph, NEW ts, NEW op, op.type \in Evaluable
  PROVE  /\ Made(graph, ts, op).name = op.outs[1]
         /\ Made(graph, ts, op).dtype = graph.tensors[op.outs[1]].dtype
         /\ Made(graph, ts, op).val # NoValue /\ OpOf(Made(graph, ts, op).val) # "scaled"
<1> DEFINE operands == [k \in DOMAIN op.ins |-> ts[op.ins[k]]]
           t == op.outs[1]
           made == Made(graph, ts, op)
           shape == ArrayShape(op, operands, graph.tensors[t].shape)
           val == ArrayValue(op, operands)
           as == ArrayType(op, operands)
<1>1. made = Constant(t, graph.tensors[t].dtype, shape, val, as)
  BY DEF Made
<1>2. val # NoValue /\ OpOf(val) # "scaled"
  BY ArrayIsTerm
<1> HIDE DEF made, shape, val, as
<1>3. made.name = t /\ made.dtype = graph.tensors[t].dtype /\ made.val = val
  BY <1>1 DEF Constant
<1> QED BY <1>2, <1>3 DEF made

\* The operators in gone have been evaluated, and nothing else has changed.
FoldsTo(graph, ts, gone) ==
  /\ DOMAIN ts = DOMAIN graph.tensors
  /\ \A t \in DOMAIN ts :
       (\A j \in gone : graph.ops[j].outs[1] # t) => ts[t] = graph.tensors[t]
  /\ \A j \in gone :
       LET op == graph.ops[j]
       IN  /\ op.type \in Evaluable
           /\ \A k \in DOMAIN op.ins : IsConstant(ts, op.ins[k])
           /\ ts[op.outs[1]] = Made(graph, ts, op)

\* Folding one more operator.
LEMMA FoldStep ==
  ASSUME NEW graph, Sound(graph), NEW k \in DOMAIN graph.ops,
         NEW gone, gone \subseteq 1 .. k - 1,
         NEW ts, FoldsTo(graph, ts, gone),
         graph.ops[k].type \in Evaluable,
         \A m \in DOMAIN graph.ops[k].ins : IsConstant(ts, graph.ops[k].ins[m])
  PROVE  /\ ts[graph.ops[k].outs[1]] = graph.tensors[graph.ops[k].outs[1]]
         /\ FoldsTo(graph, [ts EXCEPT ![graph.ops[k].outs[1]] = Made(graph, ts, graph.ops[k])], gone \cup {k})
<1> DEFINE op == graph.ops[k]
           t == op.outs[1]
           made == Made(graph, ts, op)
           new == [ts EXCEPT ![t] = made]
<1>1. /\ k \in Nat /\ DOMAIN graph.ops = 1 .. Len(graph.ops) /\ Len(graph.ops) \in Nat
      /\ \A j \in gone : j \in DOMAIN graph.ops /\ j < k /\ j \in Nat
  BY GraphShape DEF Sound
<1>2. /\ t \in ToSet(op.outs) /\ t \in DOMAIN ts /\ 1 \in DOMAIN op.outs
      /\ DOMAIN ts = DOMAIN graph.tensors
  BY SoundOperators DEF FoldsTo
<1>3. \A j \in gone : graph.ops[j].outs[1] # t
  <2> SUFFICES ASSUME NEW j \in gone, graph.ops[j].outs[1] = t PROVE FALSE
    OBVIOUS
  <2>1. 1 \in DOMAIN graph.ops[j].outs
    BY <1>1, SoundOperators
  <2>2. j = k
    BY <1>1, <1>2, <2>1 DEF Sound, InOrder
  <2> QED BY <1>1, <2>2
<1>4. \A j \in gone \cup {k} : \A m \in DOMAIN graph.ops[j].ins : graph.ops[j].ins[m] # t
  <2> SUFFICES ASSUME NEW j \in gone \cup {k}, NEW m \in DOMAIN graph.ops[j].ins,
                      graph.ops[j].ins[m] = t
               PROVE  FALSE
    OBVIOUS
  <2>1. j \in DOMAIN graph.ops /\ j <= k /\ j \in Nat
    BY <1>1
  <2>2. graph.ops[j].ins[m] \in ToSet(graph.ops[j].ins)
    BY DEF ToSet
  <2>3. k < j
    BY <2>1, <2>2, <1>2 DEF Sound, InOrder
  <2> QED BY <2>1, <2>3, <1>1
<1>5. ts[t] = graph.tensors[t]
  BY <1>2, <1>3 DEF FoldsTo
<1> HIDE DEF made, t, op
<1>7. /\ DOMAIN new = DOMAIN ts /\ new[t] = made
      /\ \A u \in DOMAIN ts : u # t => new[u] = ts[u]
  BY <1>2
<1>8. \A u : u # t => (IsConstant(new, u) <=> IsConstant(ts, u))
  BY <1>7 DEF IsConstant
<1> HIDE DEF new
<1>9. \A u \in DOMAIN new : (\A j \in gone \cup {k} : graph.ops[j].outs[1] # u) => new[u] = graph.tensors[u]
  <2> SUFFICES ASSUME NEW u \in DOMAIN new, \A j \in gone \cup {k} : graph.ops[j].outs[1] # u
               PROVE  new[u] = graph.tensors[u]
    OBVIOUS
  <2>1. u # t
    BY DEF t, op
  <2>2. ts[u] = graph.tensors[u]
    BY <1>7 DEF FoldsTo
  <2> QED BY <2>1, <2>2, <1>7
<1>10. ASSUME NEW j \in gone \cup {k}
       PROVE  LET o == graph.ops[j]
              IN  /\ o.type \in Evaluable
                  /\ \A m \in DOMAIN o.ins : IsConstant(new, o.ins[m])
                  /\ new[o.outs[1]] = Made(graph, new, o)
  <2> DEFINE o == graph.ops[j]
  <2>1. /\ o.type \in Evaluable
        /\ \A m \in DOMAIN o.ins : IsConstant(ts, o.ins[m])
        /\ new[o.outs[1]] = Made(graph, ts, o)
    <3>1. CASE j \in gone
      <4>1. /\ o.type \in Evaluable
            /\ \A m \in DOMAIN o.ins : IsConstant(ts, o.ins[m])
            /\ ts[o.outs[1]] = Made(graph, ts, o)
        BY <3>1 DEF FoldsTo
      <4>2. o.outs[1] # t /\ o.outs[1] \in DOMAIN ts
        BY <3>1, <1>1, <1>2, <1>3, SoundOperators
      <4> QED BY <4>1, <4>2, <1>7
    <3>2. CASE j = k
      BY <3>2, <1>7 DEF op, t, made
    <3> QED BY <3>1, <3>2
  <2>2. \A m \in DOMAIN o.ins : o.ins[m] # t /\ o.ins[m] \in DOMAIN ts
    BY <1>4, <2>1 DEF IsConstant
  <2>3. \A m \in DOMAIN o.ins : ts[o.ins[m]] = new[o.ins[m]]
    BY <2>2, <1>7
  <2>4. \A m \in DOMAIN o.ins : IsConstant(new, o.ins[m])
    BY <2>1, <2>2, <1>8
  <2> HIDE DEF o
  <2>5. Made(graph, ts, o) = Made(graph, new, o)
    BY <2>3, SameMade
  <2> QED BY <2>1, <2>4, <2>5 DEF o
<1>11. FoldsTo(graph, new, gone \cup {k})
  BY <1>10, <1>9, <1>7, <1>2 DEF FoldsTo
<1> QED BY <1>5, <1>11 DEF new, made, t, op

\* An operator over which a sweep raises: an operand cannot be read, or numpy
\* refuses to compute the result.
Unfoldable(ts, op) ==
  /\ \A m \in DOMAIN op.ins : IsConstant(ts, op.ins[m])
  /\ \/ \E m \in DOMAIN op.ins : ~Readable(ts[op.ins[m]])
     \/ op.type \in Evaluable /\ ResultOf(op, [m \in DOMAIN op.ins |-> ts[op.ins[m]]]) \in EvalRaises

\* What a sweep has done after k operators.
SweptTo(graph, acc, k, gone) ==
  /\ acc \in [ops : {acc.ops}, tensors : {acc.tensors}, changed : {acc.changed}, raised : {acc.raised}]
  /\ acc.raised \in BOOLEAN
  /\ gone \subseteq 1 .. k
  /\ FoldsTo(graph, acc.tensors, gone)
  /\ acc.changed = (gone # {})
  /\ acc.raised => \E j \in DOMAIN graph.ops : Unfoldable(acc.tensors, graph.ops[j])
  /\ ~acc.raised =>
       /\ \A j \in (1 .. k) \ gone :
            graph.ops[j].type \in Evaluable =>
              \E m \in DOMAIN graph.ops[j].ins : ~IsConstant(acc.tensors, graph.ops[j].ins[m])
       /\ \E h : Thinned(acc.ops, graph.ops, (1 .. k) \ gone, h)

\* A sweep's record with one field changed, or two.
LEMMA WithOps ==
  ASSUME NEW a, NEW b, NEW c, NEW d, NEW x,
         NEW acc \in [ops : {a}, tensors : {b}, changed : {c}, raised : {d}]
  PROVE  [acc EXCEPT !.ops = x] = [ops |-> x, tensors |-> b, changed |-> c, raised |-> d]
OBVIOUS

\* A record with another flag.
LEMMA WithRaised ==
  ASSUME NEW a, NEW b, NEW c, NEW d, NEW x,
         NEW acc \in [ops : {a}, tensors : {b}, changed : {c}, raised : {d}]
  PROVE  [acc EXCEPT !.raised = x] = [ops |-> a, tensors |-> b, changed |-> c, raised |-> x]
OBVIOUS

\* The sweep goes past an operator that stays.
LEMMA SweepAppends ==
  ASSUME NEW graph, Sound(graph), NEW k \in DOMAIN graph.ops,
         NEW acc, NEW gone, SweptTo(graph, acc, k - 1, gone), acc.raised = FALSE,
         graph.ops[k].type \in Evaluable =>
           \E m \in DOMAIN graph.ops[k].ins : ~IsConstant(acc.tensors, graph.ops[k].ins[m])
  PROVE  SweptTo(graph, [acc EXCEPT !.ops = Append(@, graph.ops[k])], k, gone)
<1> DEFINE new == [acc EXCEPT !.ops = Append(@, graph.ops[k])]
<1>1. k \in Nat /\ k - 1 \in Nat /\ k \notin gone /\ gone \subseteq 1 .. k - 1
  <2>1. k \in 1 .. Len(graph.ops) /\ Len(graph.ops) \in Nat
    BY GraphShape DEF Sound
  <2> QED BY <2>1 DEF SweptTo
<1>2. /\ acc \in [ops : {acc.ops}, tensors : {acc.tensors}, changed : {acc.changed}, raised : {acc.raised}]
      /\ FoldsTo(graph, acc.tensors, gone) /\ acc.changed = (gone # {})
      /\ \A j \in (1 .. k - 1) \ gone :
            graph.ops[j].type \in Evaluable =>
              \E m \in DOMAIN graph.ops[j].ins : ~IsConstant(acc.tensors, graph.ops[j].ins[m])
  BY DEF SweptTo
<1>3. PICK h : Thinned(acc.ops, graph.ops, (1 .. k - 1) \ gone, h)
  BY DEF SweptTo
<1>4. PICK f : Thinned(Append(acc.ops, graph.ops[k]), graph.ops, ((1 .. k - 1) \ gone) \cup {k}, f)
  <2>1. /\ (1 .. k - 1) \ gone \subseteq Nat
        /\ \A j \in (1 .. k - 1) \ gone : j < k
    BY <1>1
  <2> QED BY <2>1, <1>1, <1>3, ThinGrows
<1>5. ((1 .. k - 1) \ gone) \cup {k} = (1 .. k) \ gone
  BY <1>1
<1>6. /\ new = [ops |-> Append(acc.ops, graph.ops[k]), tensors |-> acc.tensors,
                changed |-> acc.changed, raised |-> acc.raised]
  <2>1. acc \in [ops : {acc.ops}, tensors : {acc.tensors}, changed : {acc.changed}, raised : {acc.raised}]
    BY <1>2
  <2> QED BY <2>1, WithOps
<1>7. /\ new.ops = Append(acc.ops, graph.ops[k]) /\ new.tensors = acc.tensors
      /\ new.changed = acc.changed /\ new.raised = FALSE
      /\ new \in [ops : {new.ops}, tensors : {new.tensors}, changed : {new.changed}, raised : {new.raised}]
  BY <1>6
<1> HIDE DEF new
<1>8. \A j \in (1 .. k) \ gone :
        graph.ops[j].type \in Evaluable =>
          \E m \in DOMAIN graph.ops[j].ins : ~IsConstant(new.tensors, graph.ops[j].ins[m])
  BY <1>1, <1>2, <1>7
<1>9. gone \subseteq 1 .. k
  BY <1>1
<1>10. \E e : Thinned(new.ops, graph.ops, (1 .. k) \ gone, e)
  BY <1>4, <1>5, <1>7
<1> QED BY <1>2, <1>7, <1>8, <1>9, <1>10 DEF SweptTo, new

\* The sweep folds an operator.
LEMMA SweepEvaluates ==
  ASSUME NEW graph, Sound(graph), NEW k \in DOMAIN graph.ops,
         NEW acc, NEW gone, SweptTo(graph, acc, k - 1, gone), acc.raised = FALSE,
         graph.ops[k].type \in Evaluable,
         \A m \in DOMAIN graph.ops[k].ins : IsConstant(acc.tensors, graph.ops[k].ins[m])
  PROVE  SweptTo(graph, Evaluate(acc, graph.ops[k], [m \in DOMAIN graph.ops[k].ins |-> acc.tensors[graph.ops[k].ins[m]]]),
                 k, gone \cup {k})
<1> DEFINE op == graph.ops[k]
           t == op.outs[1]
           ts == acc.tensors
           operands == [m \in DOMAIN op.ins |-> ts[op.ins[m]]]
           later == [ts EXCEPT ![t] = Made(graph, ts, op)]
           new == Evaluate(acc, op, operands)
<1>1. /\ k \in Nat /\ k - 1 \in Nat /\ k \notin gone /\ gone \subseteq 1 .. k - 1
      /\ DOMAIN graph.ops = 1 .. Len(graph.ops) /\ Len(graph.ops) \in Nat
  <2>1. k \in 1 .. Len(graph.ops) /\ Len(graph.ops) \in Nat /\ DOMAIN graph.ops = 1 .. Len(graph.ops)
    BY GraphShape DEF Sound
  <2> QED BY <2>1 DEF SweptTo
<1>2. /\ acc \in [ops : {acc.ops}, tensors : {ts}, changed : {acc.changed}, raised : {acc.raised}]
      /\ FoldsTo(graph, ts, gone)
      /\ \A j \in (1 .. k - 1) \ gone :
            graph.ops[j].type \in Evaluable =>
              \E m \in DOMAIN graph.ops[j].ins : ~IsConstant(ts, graph.ops[j].ins[m])
  BY DEF SweptTo
<1>3. PICK h : Thinned(acc.ops, graph.ops, (1 .. k - 1) \ gone, h)
  BY DEF SweptTo
<1>4. (1 .. k) \ (gone \cup {k}) = (1 .. k - 1) \ gone
  BY <1>1
<1>5. ts[t] = graph.tensors[t] /\ FoldsTo(graph, later, gone \cup {k})
  <2>1. gone \subseteq 1 .. k - 1 /\ FoldsTo(graph, ts, gone)
    BY <1>1, <1>2
  <2> QED BY <2>1, FoldStep
<1>7. new = [ops |-> acc.ops, tensors |-> later, changed |-> TRUE, raised |-> FALSE]
  <2>1. Evaluate(acc, op, operands) = [acc EXCEPT !.changed = TRUE, !.tensors = later]
    <3> DEFINE made == Constant(t, graph.tensors[t].dtype, ArrayShape(op, operands, graph.tensors[t].shape),
                                ArrayValue(op, operands), ArrayType(op, operands))
    <3>1. Evaluate(acc, op, operands) =
            [acc EXCEPT !.changed = TRUE,
               !.tensors = [ts EXCEPT ![t] = Constant(t, ts[t].dtype, ArrayShape(op, operands, ts[t].shape),
                                                 ArrayValue(op, operands), ArrayType(op, operands))]]
      BY DEF Evaluate, Folded
    <3>2. later = [ts EXCEPT ![t] = made]
      BY DEF Made
    <3> HIDE DEF later, operands, ts, t, op
    <3> QED BY <3>1, <3>2, <1>5
  <2> HIDE DEF later
  <2>2. [acc EXCEPT !.changed = TRUE, !.tensors = later] =
          [ops |-> acc.ops, tensors |-> later, changed |-> TRUE, raised |-> acc.raised]
    <3>1. acc \in [ops : {acc.ops}, tensors : {acc.tensors}, changed : {acc.changed}, raised : {acc.raised}]
      BY <1>2
    <3> DEFINE yes == TRUE
    <3> HIDE DEF yes, new, op, t, ts
    <3>2. [acc EXCEPT !.changed = yes, !.tensors = later] =
            [ops |-> acc.ops, tensors |-> later, changed |-> yes, raised |-> acc.raised]
      <4> DEFINE mid == [acc EXCEPT !.changed = yes]
      <4>1. mid \in [ops : {acc.ops}, tensors : {acc.tensors}, changed : {yes}, raised : {acc.raised}]
        BY <3>1
      <4>2. [acc EXCEPT !.changed = yes, !.tensors = later] = [mid EXCEPT !.tensors = later]
        OBVIOUS
      <4> HIDE DEF mid
      <4> QED BY <4>1, <4>2
    <3> QED BY <3>2 DEF yes
  <2> QED BY <2>1, <2>2
<1> HIDE DEF operands, new
<1>8. /\ new.ops = acc.ops /\ new.tensors = later /\ new.changed = TRUE /\ new.raised = FALSE
      /\ new \in [ops : {new.ops}, tensors : {new.tensors}, changed : {new.changed}, raised : {new.raised}]
  BY <1>7
<1>9. t \in ToSet(op.outs)
  BY SoundOperators
<1>10. ASSUME NEW j \in (1 .. k) \ (gone \cup {k}), graph.ops[j].type \in Evaluable
       PROVE  \E m \in DOMAIN graph.ops[j].ins : ~IsConstant(later, graph.ops[j].ins[m])
  <2>1. j \in (1 .. k - 1) \ gone /\ j \in DOMAIN graph.ops /\ j < k /\ j \in Nat
    BY <1>1
  <2>2. PICK m \in DOMAIN graph.ops[j].ins : ~IsConstant(ts, graph.ops[j].ins[m])
    BY <1>2, <1>10, <2>1
  <2>3. graph.ops[j].ins[m] # t
    <3>1. graph.ops[j].ins[m] \in ToSet(graph.ops[j].ins)
      BY DEF ToSet
    <3>2. graph.ops[j].ins[m] = t => k < j
      BY <2>1, <3>1, <1>9 DEF Sound, InOrder
    <3> QED BY <3>2, <2>1, <1>1
  <2>4. ~IsConstant(later, graph.ops[j].ins[m])
    BY <2>2, <2>3 DEF IsConstant
  <2> QED BY <2>4
<1> HIDE DEF later
<1>11. gone \cup {k} \subseteq 1 .. k /\ gone \cup {k} # {}
  <2>1. \A j \in 1 .. k - 1 : j \in 1 .. k
    BY <1>1
  <2>2. k \in 1 .. k
    BY <1>1
  <2> QED BY <1>1, <2>1, <2>2
<1>12. \E e : Thinned(new.ops, graph.ops, (1 .. k) \ (gone \cup {k}), e)
  BY <1>3, <1>4, <1>8
<1>13. SweptTo(graph, new, k, gone \cup {k})
  BY <1>5, <1>8, <1>10, <1>11, <1>12 DEF SweptTo
<1> QED BY <1>13 DEF new, operands

\* The sweep stops at an operator it raises over.
LEMMA SweepRaises ==
  ASSUME NEW graph, Sound(graph), NEW k \in DOMAIN graph.ops,
         NEW acc, NEW gone, SweptTo(graph, acc, k - 1, gone), Unfoldable(acc.tensors, graph.ops[k])
  PROVE  SweptTo(graph, [acc EXCEPT !.raised = TRUE], k, gone)
<1> DEFINE new == [acc EXCEPT !.raised = TRUE]
<1>1. acc \in [ops : {acc.ops}, tensors : {acc.tensors}, changed : {acc.changed}, raised : {acc.raised}]
  BY DEF SweptTo
<1>2. new = [ops |-> acc.ops, tensors |-> acc.tensors, changed |-> acc.changed, raised |-> TRUE]
  <2> DEFINE yes == TRUE
  <2> HIDE DEF yes, new
  <2>1. [acc EXCEPT !.raised = yes] =
          [ops |-> acc.ops, tensors |-> acc.tensors, changed |-> acc.changed, raised |-> yes]
    BY <1>1, WithRaised
  <2> QED BY <2>1 DEF yes, new
<1>3. /\ new.ops = acc.ops /\ new.tensors = acc.tensors /\ new.changed = acc.changed
      /\ new.raised = TRUE
      /\ new \in [ops : {new.ops}, tensors : {new.tensors}, changed : {new.changed}, raised : {new.raised}]
  BY <1>2
<1> HIDE DEF new
<1>4. gone \subseteq 1 .. k
  <2>1. k \in 1 .. Len(graph.ops) /\ Len(graph.ops) \in Nat
    BY GraphShape DEF Sound
  <2> QED BY <2>1 DEF SweptTo
<1>5. FoldsTo(graph, new.tensors, gone) /\ new.changed = (gone # {})
  BY <1>3 DEF SweptTo
<1>6. \E j \in DOMAIN graph.ops : Unfoldable(new.tensors, graph.ops[j])
  BY <1>3
<1>7. SweptTo(graph, new, k, gone)
  BY <1>3, <1>4, <1>5, <1>6 DEF SweptTo
<1> QED BY <1>7 DEF new

\* The sweep goes past any operator.
LEMMA SweepGoesOn ==
  ASSUME NEW graph, Sound(graph), NEW k \in DOMAIN graph.ops,
         NEW acc, NEW gone, SweptTo(graph, acc, k - 1, gone)
  PROVE  \E more : SweptTo(graph, FoldOp(acc, graph.ops[k]), k, more)
<1> DEFINE op == graph.ops[k]
           operands == [m \in DOMAIN op.ins |-> acc.tensors[op.ins[m]]]
<1>1. k \in Nat /\ k - 1 \in Nat
  <2>1. k \in 1 .. Len(graph.ops) /\ Len(graph.ops) \in Nat
    BY GraphShape DEF Sound
  <2> QED BY <2>1
<1>2. acc.raised \in BOOLEAN
  BY DEF SweptTo
<1>3. CASE acc.raised
  <2>1. FoldOp(acc, op) = acc
    BY <1>3 DEF FoldOp
  <2>2. SweptTo(graph, acc, k, gone)
    <3>1. gone \subseteq 1 .. k
      BY <1>1 DEF SweptTo
    <3> QED BY <3>1, <1>3 DEF SweptTo
  <2> QED BY <2>1, <2>2
<1>4. CASE ~acc.raised /\ \E t \in ToSet(op.ins) : ~IsConstant(acc.tensors, t)
  <2>1. FoldOp(acc, op) = [acc EXCEPT !.ops = Append(@, op)]
    BY <1>4 DEF FoldOp
  <2>2. \E m \in DOMAIN op.ins : ~IsConstant(acc.tensors, op.ins[m])
    BY <1>4 DEF ToSet
  <2>3. acc.raised = FALSE
    BY <1>2, <1>4
  <2>4. SweptTo(graph, [acc EXCEPT !.ops = Append(@, graph.ops[k])], k, gone)
    BY <2>2, <2>3, SweepAppends
  <2> QED BY <2>1, <2>4
<1>5. CASE ~acc.raised /\ ~(\E t \in ToSet(op.ins) : ~IsConstant(acc.tensors, t))
  <2>1. \A m \in DOMAIN op.ins : IsConstant(acc.tensors, op.ins[m])
    BY <1>5 DEF ToSet
  <2>2. acc.raised = FALSE
    BY <1>2, <1>5
  <2>3. CASE \E m \in DOMAIN operands : ~Readable(operands[m])
    <3>1. FoldOp(acc, op) = [acc EXCEPT !.raised = TRUE]
      BY <1>5, <2>3 DEF FoldOp
    <3>2. PICK m \in DOMAIN op.ins : ~Readable(acc.tensors[op.ins[m]])
      BY <2>3
    <3>3. Unfoldable(acc.tensors, op)
      BY <3>2, <2>1 DEF Unfoldable
    <3>4. SweptTo(graph, [acc EXCEPT !.raised = TRUE], k, gone)
      BY <3>3, SweepRaises
    <3> QED BY <3>1, <3>4
  <2>4. CASE /\ ~(\E m \in DOMAIN operands : ~Readable(operands[m]))
             /\ op.type \in Evaluable /\ ResultOf(op, operands) \notin EvalRaises
    <3>1. FoldOp(acc, op) = Evaluate(acc, op, operands)
      BY <1>5, <2>4 DEF FoldOp
    <3>2. SweptTo(graph, Evaluate(acc, graph.ops[k],
                    [m \in DOMAIN graph.ops[k].ins |-> acc.tensors[graph.ops[k].ins[m]]]), k, gone \cup {k})
      BY <2>1, <2>2, <2>4, SweepEvaluates
    <3> QED BY <3>1, <3>2
  <2>5. CASE ~(\E m \in DOMAIN operands : ~Readable(operands[m])) /\ op.type \notin Evaluable
    <3>1. FoldOp(acc, op) = [acc EXCEPT !.ops = Append(@, op)]
      BY <1>5, <2>5 DEF FoldOp
    <3>2. SweptTo(graph, [acc EXCEPT !.ops = Append(@, graph.ops[k])], k, gone)
      BY <2>2, <2>5, SweepAppends
    <3> QED BY <3>1, <3>2
  <2>6. CASE /\ ~(\E m \in DOMAIN operands : ~Readable(operands[m]))
             /\ op.type \in Evaluable /\ ResultOf(op, operands) \in EvalRaises
    <3>1. FoldOp(acc, op) = [acc EXCEPT !.raised = TRUE]
      BY <1>5, <2>6 DEF FoldOp
    <3>2. Unfoldable(acc.tensors, op)
      BY <2>6, <2>1 DEF Unfoldable
    <3>3. SweptTo(graph, [acc EXCEPT !.raised = TRUE], k, gone)
      BY <3>2, SweepRaises
    <3> QED BY <3>1, <3>3
  <2> QED BY <2>3, <2>4, <2>5, <2>6
<1> QED BY <1>3, <1>4, <1>5

\* A sweep of folding over the whole graph.
LEMMA SweepDone ==
  ASSUME NEW graph, Sound(graph)
  PROVE  \E gone : SweptTo(graph, FoldSweep(graph), Len(graph.ops), gone)
<1> DEFINE n == Len(graph.ops)
<1>1. n \in Nat /\ DOMAIN graph.ops = 1 .. n
  BY GraphShape DEF Sound
<1>2. PICK acc : /\ acc[0] = [ops |-> <<>>, tensors |-> graph.tensors, changed |-> FALSE, raised |-> FALSE]
                 /\ \A k \in 1 .. n : acc[k] = FoldOp(acc[k - 1], graph.ops[k])
                 /\ FoldSweep(graph) = acc[n]
  BY <1>1, FoldUnfolds
<1> DEFINE G == {k \in Nat : k <= n => \E gone : SweptTo(graph, acc[k], k, gone)}
<1>3. 0 \in G
  <2>1. FoldsTo(graph, graph.tensors, {})
    BY DEF FoldsTo
  <2>2. \E h : Thinned(<<>>, graph.ops, {}, h)
    BY ThinEmpty
  <2>3. (1 .. 0) \ {} = {} /\ {} \subseteq 1 .. 0
    OBVIOUS
  <2>4. /\ acc[0].ops = <<>> /\ acc[0].tensors = graph.tensors /\ acc[0].changed = FALSE /\ acc[0].raised = FALSE
        /\ acc[0] \in [ops : {acc[0].ops}, tensors : {acc[0].tensors}, changed : {acc[0].changed}, raised : {acc[0].raised}]
    BY <1>2
  <2>5. SweptTo(graph, acc[0], 0, {})
    BY <2>1, <2>2, <2>3, <2>4 DEF SweptTo
  <2> QED BY <2>5
<1>4. ASSUME NEW k \in Nat, k \in G PROVE k + 1 \in G
  <2> SUFFICES ASSUME k + 1 <= n PROVE \E gone : SweptTo(graph, acc[k + 1], k + 1, gone)
    OBVIOUS
  <2>1. k <= n /\ k + 1 \in 1 .. n /\ (k + 1) - 1 = k
    BY <1>1
  <2>2. PICK gone : SweptTo(graph, acc[k], k, gone)
    BY <1>4, <2>1
  <2>3. acc[k + 1] = FoldOp(acc[k], graph.ops[k + 1])
    BY <1>2, <2>1
  <2> QED BY <2>1, <2>2, <2>3, <1>1, SweepGoesOn
<1>5. n \in G
  <2> HIDE DEF G, n
  <2> QED BY <1>1, <1>3, <1>4, NatInductive
<1>6. \E gone : SweptTo(graph, acc[n], n, gone)
  BY <1>1, <1>5
<1> QED BY <1>2, <1>6

\* A constant is a tensor.
LEMMA ConstantIsTensor ==
  ASSUME NEW t, NEW dtype \in Dtypes, NEW shape \in Seq(Nat), NEW val,
         NEW as \in Dtypes \cup {"F64"}
  PROVE  IsTensor(Constant(t, dtype, shape, val, as))
<1> DEFINE x == Constant(t, dtype, shape, val, as)
<1>1. /\ x.name = t /\ x.dtype = dtype /\ x.shape = shape /\ x.val = val /\ x.as = as
      /\ x = [name |-> t, dtype |-> dtype, shape |-> shape, val |-> val, as |-> as]
  BY DEF Constant
<1>2. x \in [name : {t}, dtype : Dtypes, shape : Seq(Nat), val : {val}, as : Dtypes \cup {"F64"}]
  BY DEF Constant
<1>3. DOMAIN ItemSize = Dtypes \cup {"F64"}
  BY DEF ItemSize, Dtypes
<1> HIDE DEF x
<1>4. IsTensor(x)
  BY <1>1, <1>2, <1>3 DEF IsTensor
<1> QED BY <1>4 DEF x

\* What folding makes of tensors is a tensor.
LEMMA MadeIsTensor ==
  ASSUME NEW graph, Sound(graph), NEW j \in DOMAIN graph.ops, NEW ts,
         graph.ops[j].type \in Evaluable,
         \A k \in DOMAIN graph.ops[j].ins : IsTensor(ts[graph.ops[j].ins[k]])
  PROVE  IsTensor(Made(graph, ts, graph.ops[j]))
<1> DEFINE op == graph.ops[j]
           t == op.outs[1]
           operands == [k \in DOMAIN op.ins |-> ts[op.ins[k]]]
           inferred == graph.tensors[t].shape
           shape == ArrayShape(op, operands, inferred)
           val == ArrayValue(op, operands)
           as == ArrayType(op, operands)
           dtype == graph.tensors[t].dtype
<1>1. 1 \in DOMAIN op.ins
  <2>1. op \in Operations /\ op.ins # <<>>
    BY GraphShape, SoundOperators DEF Sound, HasArity
  <2>2. Len(op.ins) \in Nat /\ DOMAIN op.ins = 1 .. Len(op.ins) /\ op.ins \in Seq(TensorNames)
    BY <2>1, OperatorShape
  <2>3. Len(op.ins) > 0
    BY <2>1, <2>2, EmptySeq
  <2> QED BY <2>2, <2>3
<1>2. IsTensor(graph.tensors[t])
  BY SoundOperators, GraphShape DEF Sound
<1>3. dtype \in Dtypes /\ inferred \in Seq(Nat)
  BY <1>2 DEF IsTensor
<1>4. IsTensor(operands[1])
  BY <1>1
<1>5. op.type \in Evaluable
  OBVIOUS
<1>6. Made(graph, ts, op) = Constant(t, dtype, shape, val, as)
  BY DEF Made
<1> HIDE DEF operands, op, t, inferred, dtype
<1>7. operands[1].dtype \in Dtypes /\ operands[1].shape \in Seq(Nat)
  BY <1>4 DEF IsTensor
<1>8. as \in Dtypes \cup {"F64"}
  <2>1. CastTargets \subseteq Dtypes /\ "F32" \in Dtypes /\ "I64" \in Dtypes
    BY DEF CastTargets, Dtypes
  <2> QED BY <1>7, <2>1 DEF ArrayType
<1>9. shape \in Seq(Nat)
  <2>1. <<Len(operands[1].shape)>> \in Seq(Nat)
    BY <1>7
  <2>2. \A result \in DOMAIN EvalShapes : EvalShapes[result] \in Seq(Nat)
    BY EvalAssumption
  <2> DEFINE result == ResultOf(op, operands)
  <2>3. shape = IF op.type = "Shape" /\ op.attr # <<>> THEN <<Len(operands[1].shape)>>
                ELSE IF result \in DOMAIN EvalShapes THEN EvalShapes[result] ELSE inferred
    BY DEF ArrayShape
  <2> HIDE DEF result, shape
  <2> QED BY <1>3, <2>1, <2>2, <2>3
<1> HIDE DEF shape, val, as
<1>10. IsTensor(Constant(t, dtype, shape, val, as))
  BY <1>3, <1>8, <1>9, ConstantIsTensor
<1> QED BY <1>6, <1>10 DEF op

\* What folding does to the tensors: some outputs become constants.
LEMMA FoldTensors ==
  ASSUME NEW graph, Sound(graph), NEW ts, NEW gone, gone \subseteq DOMAIN graph.ops,
         FoldsTo(graph, ts, gone)
  PROVE  /\ \A t \in DOMAIN ts : /\ ts[t].dtype = graph.tensors[t].dtype
                                 /\ ts[t].name \in {t, graph.tensors[t].name}
                                 /\ IsTensor(ts[t])
         /\ \A t : IsConstant(graph.tensors, t) => IsConstant(ts, t) /\ ts[t] = graph.tensors[t]
         /\ \A t : IsConstant(ts, t) =>
              IsConstant(graph.tensors, t) \/ \E j \in gone : graph.ops[j].outs[1] = t
         /\ \A j \in gone : IsConstant(ts, graph.ops[j].outs[1])
<1>1. DOMAIN ts = DOMAIN graph.tensors
  BY DEF FoldsTo
<1>2. ASSUME NEW t \in DOMAIN ts, \A j \in gone : graph.ops[j].outs[1] # t
      PROVE  ts[t] = graph.tensors[t] /\ IsTensor(ts[t])
  <2>1. ts[t] = graph.tensors[t]
    BY <1>2 DEF FoldsTo
  <2> QED BY <2>1, <1>1, GraphShape DEF Sound
<1>3. ASSUME NEW j \in gone
      PROVE  LET t == graph.ops[j].outs[1]
             IN  /\ j \in DOMAIN graph.ops /\ graph.ops[j].type \in Evaluable
                 /\ t \in DOMAIN ts /\ ts[t] = Made(graph, ts, graph.ops[j])
                 /\ ts[t].dtype = graph.tensors[t].dtype
                 /\ ts[t].name = t /\ ts[t].val # NoValue
                 /\ \A k \in DOMAIN graph.ops[j].ins : IsConstant(ts, graph.ops[j].ins[k])
  <2> DEFINE op == graph.ops[j]
             t == op.outs[1]
  <2>1. j \in DOMAIN graph.ops /\ t \in DOMAIN ts
    BY <1>1, SoundOperators
  <2>2. /\ op.type \in Evaluable /\ ts[t] = Made(graph, ts, op)
        /\ \A k \in DOMAIN op.ins : IsConstant(ts, op.ins[k])
    BY DEF FoldsTo
  <2> DEFINE made == Made(graph, ts, op)
  <2> HIDE DEF op
  <2>3. made.name = t /\ made.dtype = graph.tensors[t].dtype /\ made.val # NoValue
    BY <2>2, MadeIsConstant
  <2> QED BY <2>1, <2>2, <2>3 DEF op
<1> DEFINE n == Len(graph.ops)
           G == {m \in Nat : \A j \in gone : j <= m => IsTensor(ts[graph.ops[j].outs[1]])}
<1>4. n \in Nat /\ DOMAIN graph.ops = 1 .. n
  BY GraphShape DEF Sound
<1> HIDE DEF n
<1>5. \A j \in gone : IsTensor(ts[graph.ops[j].outs[1]])
  <2>1. 0 \in G
    BY <1>4
  <2>2. ASSUME NEW m \in Nat, m \in G PROVE m + 1 \in G
    <3> SUFFICES ASSUME NEW j \in gone, j <= m + 1 PROVE IsTensor(ts[graph.ops[j].outs[1]])
      OBVIOUS
    <3> DEFINE op == graph.ops[j]
    <3>1. j \in DOMAIN graph.ops /\ j \in Nat
      BY <1>4
    <3>2. ASSUME NEW x \in DOMAIN op.ins PROVE IsTensor(ts[op.ins[x]])
      <4> DEFINE u == op.ins[x]
      <4>1. u \in ToSet(op.ins)
        BY DEF ToSet
      <4>2. u \in DOMAIN ts
        BY <4>1, <3>1, <1>1, SoundOperators
      <4> HIDE DEF u, op
      <4>3. ASSUME NEW l \in gone, graph.ops[l].outs[1] = u PROVE IsTensor(ts[u])
        <5>1. l \in DOMAIN graph.ops /\ graph.ops[l].outs[1] \in ToSet(graph.ops[l].outs) /\ l \in Nat
          BY SoundOperators, <1>4
        <5>2. ToSet(graph.ops[l].outs) \cap ToSet(graph.ops[j].ins) # {}
          BY <5>1, <4>1, <4>3 DEF op
        <5>3. l < j
          BY <3>1, <5>1, <5>2 DEF Sound, InOrder
        <5>4. l <= m
          BY <5>1, <5>3, <3>1
        <5> QED BY <5>4, <2>2, <4>3
      <4>4. IsTensor(ts[u])
        BY <4>2, <4>3, <1>2
      <4> QED BY <4>4 DEF u
    <3>3. op.type \in Evaluable /\ ts[op.outs[1]] = Made(graph, ts, op)
      BY <1>3
    <3>4. IsTensor(Made(graph, ts, op))
      BY <3>1, <3>2, <3>3, MadeIsTensor
    <3> QED BY <3>3, <3>4
  <2>3. Nat \subseteq G
    <3> HIDE DEF G
    <3> QED BY <2>1, <2>2, NatInductive
  <2>4. n \in G /\ \A j \in gone : j <= n
    BY <2>3, <1>4
  <2> QED BY <2>4
<1> HIDE DEF G
<1>6. \A t : IsConstant(graph.tensors, t) => IsConstant(ts, t) /\ ts[t] = graph.tensors[t]
  <2> SUFFICES ASSUME NEW t, IsConstant(graph.tensors, t) PROVE IsConstant(ts, t) /\ ts[t] = graph.tensors[t]
    OBVIOUS
  <2>1. \A j \in gone : graph.ops[j].outs[1] # t
    BY SoundOperators
  <2> QED BY <1>1, <1>2, <2>1 DEF IsConstant
<1>7. \A t : IsConstant(ts, t) =>
              IsConstant(graph.tensors, t) \/ \E j \in gone : graph.ops[j].outs[1] = t
  BY <1>1, <1>2 DEF IsConstant
<1>8. \A j \in gone : IsConstant(ts, graph.ops[j].outs[1])
  BY <1>3 DEF IsConstant
<1>9. \A t \in DOMAIN ts : /\ ts[t].dtype = graph.tensors[t].dtype
                           /\ ts[t].name \in {t, graph.tensors[t].name}
                           /\ IsTensor(ts[t])
  BY <1>2, <1>3, <1>5
<1> QED BY <1>6, <1>7, <1>8, <1>9

\* The entries of a list at some indices.
Entries(all, keep) == {all[k] : k \in keep}

\* A list of operators is one, and so is the list of those kept.
LEMMA ThinnedOperators ==
  ASSUME NEW list, NEW graph, IsGraph(graph), NEW keep, keep \subseteq DOMAIN graph.ops,
         NEW h, Thinned(list, graph.ops, keep, h)
  PROVE  /\ list \in Seq(Operations)
         /\ ToSet(list) = Entries(graph.ops, keep)
<1>1. /\ Len(list) \in Nat /\ DOMAIN list = 1 .. Len(list) /\ list = [p \in 1 .. Len(list) |-> list[p]]
      /\ \A p \in 1 .. Len(list) : h[p] \in keep /\ list[p] = graph.ops[h[p]]
      /\ \A k \in keep : \E p \in 1 .. Len(list) : h[p] = k
  BY DEF Thinned
<1>2. \A p \in 1 .. Len(list) : list[p] \in Operations
  BY <1>1, GraphShape
<1> HIDE DEF Operations
<1>3. list \in [1 .. Len(list) -> Operations]
  BY <1>1, <1>2
<1>4. list \in Seq(Operations)
  BY <1>1, <1>3
<1>5. ToSet(list) = Entries(graph.ops, keep)
  <2>1. ToSet(list) = {list[p] : p \in 1 .. Len(list)}
    BY <1>1 DEF ToSet
  <2> QED BY <1>1, <2>1 DEF Entries
<1> QED BY <1>4, <1>5

\* A sweep of folding leaves a sound graph.
LEMMA FoldKeepsSound ==
  ASSUME NEW graph, Sound(graph), NEW r, NEW gone,
         SweptTo(graph, r, Len(graph.ops), gone), r.raised = FALSE
  PROVE  Sound([graph EXCEPT !.ops = r.ops, !.tensors = r.tensors])
<1> DEFINE new == [graph EXCEPT !.ops = r.ops, !.tensors = r.tensors]
           n == Len(graph.ops)
           keep == (1 .. n) \ gone
<1>1. n \in Nat /\ DOMAIN graph.ops = 1 .. n /\ IsGraph(graph) /\ gone \subseteq 1 .. n
      /\ FoldsTo(graph, r.tensors, gone)
  BY GraphShape DEF Sound, SweptTo
<1>2. PICK h : Thinned(r.ops, graph.ops, keep, h)
  BY DEF SweptTo
<1>3. r.ops \in Seq(Operations) /\ ToSet(r.ops) = {graph.ops[k] : k \in keep}
  <2>1. keep \subseteq DOMAIN graph.ops
    BY <1>1
  <2>2. IsGraph(graph) /\ Thinned(r.ops, graph.ops, keep, h)
    BY <1>1, <1>2
  <2> HIDE DEF keep, n, new
  <2>3. r.ops \in Seq(Operations)
    BY <2>1, <2>2, ThinnedOperators
  <2>4. ToSet(r.ops) = Entries(graph.ops, keep)
    BY <2>1, <2>2, ThinnedOperators
  <2> QED BY <2>3, <2>4 DEF Entries
<1>4. /\ \A t \in DOMAIN r.tensors : IsTensor(r.tensors[t])
      /\ \A t : IsConstant(r.tensors, t) =>
              IsConstant(graph.tensors, t) \/ \E j \in gone : graph.ops[j].outs[1] = t
      /\ DOMAIN r.tensors = DOMAIN graph.tensors
  <2>1. DOMAIN r.tensors = DOMAIN graph.tensors
    BY <1>1 DEF FoldsTo
  <2>2. gone \subseteq DOMAIN graph.ops
    BY <1>1
  <2>3. FoldsTo(graph, r.tensors, gone)
    BY <1>1
  <2> HIDE DEF keep, n, new
  <2>4. \A t \in DOMAIN r.tensors : IsTensor(r.tensors[t])
    BY <2>2, <2>3, FoldTensors
  <2>5. \A t : IsConstant(r.tensors, t) =>
              IsConstant(graph.tensors, t) \/ \E j \in gone : graph.ops[j].outs[1] = t
    BY <2>2, <2>3, FoldTensors
  <2> QED BY <2>1, <2>4, <2>5
<1>5. /\ new.ops = r.ops /\ new.tensors = r.tensors /\ new.inputs = graph.inputs /\ new.outputs = graph.outputs
      /\ new \in [ops : Seq(Operations), tensors : {new.tensors},
                  inputs : Seq(TensorNames), outputs : SUBSET TensorNames]
  <2> HIDE DEF Operations
  <2> QED BY <1>1, <1>3 DEF IsGraph
<1> HIDE DEF new
<1>6. IsGraph(new)
  BY <1>4, <1>5 DEF IsGraph
<1>7. NamesKnown(new)
  <2>1. \A op \in ToSet(new.ops) : op \in ToSet(graph.ops)
    BY <1>1, <1>3, <1>5, GraphShape
  <2> QED BY <2>1, <1>4, <1>5 DEF Sound, NamesKnown
<1>8. InOrder(new)
  <2> DEFINE m == Len(r.ops)
  <2>1. /\ m \in Nat /\ DOMAIN new.ops = 1 .. m
        /\ \A p \in 1 .. m : h[p] \in keep /\ new.ops[p] = graph.ops[h[p]]
        /\ h \in [1 .. m -> DOMAIN graph.ops]
        /\ \A p, q \in 1 .. m : p < q => h[p] < h[q]
    BY <1>1, <1>2, <1>5 DEF Thinned
  <2>2. DOMAIN graph.ops \subseteq Int /\ InOrder(graph)
    BY <1>1 DEF Sound
  <2> HIDE DEF m, n, keep
  <2> QED BY <2>1, <2>2, PartInOrder
<1>9. ASSUME NEW op \in ToSet(new.ops)
      PROVE  HasArity(op) /\ \A t \in ToSet(op.outs) : ~IsConstant(new.tensors, t)
  <2>1. PICK k \in keep : graph.ops[k] = op
    BY <1>3, <1>5
  <2>2. k \in DOMAIN graph.ops /\ k \notin gone /\ HasArity(op)
    BY <1>1, <2>1, SoundOperators
  <2>3. ASSUME NEW t \in ToSet(op.outs), IsConstant(new.tensors, t) PROVE FALSE
    <3>1. ~IsConstant(graph.tensors, t)
      BY <2>1, <2>2, SoundOperators
    <3>2. PICK j \in gone : graph.ops[j].outs[1] = t
      BY <2>3, <3>1, <1>4, <1>5
    <3>3. PICK l \in DOMAIN op.outs : op.outs[l] = t
      BY DEF ToSet
    <3>4. j \in DOMAIN graph.ops /\ 1 \in DOMAIN graph.ops[j].outs
      BY <1>1, SoundOperators
    <3>5. j = k
      BY <2>1, <2>2, <3>2, <3>3, <3>4 DEF Sound, InOrder
    <3> QED BY <3>5, <2>2
  <2> QED BY <2>2, <2>3
<1>10. Sound(new)
  BY <1>6, <1>7, <1>8, <1>9 DEF Sound
<1> QED BY <1>10 DEF new

\* What is known, one operator after the other.
LEMMA KnownUnfolds ==
  ASSUME NEW graph, Len(graph.ops) \in Nat
  PROVE  \E known :
           /\ known[0] = {t \in DOMAIN graph.tensors : IsConstant(graph.tensors, t)}
           /\ \A k \in 1 .. Len(graph.ops) :
                known[k] = known[k - 1] \cup
                  (IF graph.ops[k].type \in Evaluable /\ ToSet(graph.ops[k].ins) \subseteq known[k - 1]
                   THEN ToSet(graph.ops[k].outs) ELSE {})
           /\ Known(graph) = known[Len(graph.ops)]
<1> DEFINE n == Len(graph.ops)
           Start == {t \in DOMAIN graph.tensors : IsConstant(graph.tensors, t)}
           More(S, op) == S \cup (IF op.type \in Evaluable /\ ToSet(op.ins) \subseteq S
                                  THEN ToSet(op.outs) ELSE {})
           Is(m, f) == f = [k \in 0 .. m |-> IF k = 0 THEN Start ELSE More(f[k - 1], graph.ops[k])]
           G == {m \in Nat : \E f : Is(m, f)}
           known == CHOOSE f : Is(n, f)
<1>5. Known(graph) = known[n]
  BY DEF Known
<1> HIDE DEF Start, More
<1>1. 0 \in G
  <2> DEFINE f == [k \in 0 .. 0 |-> Start]
  <2>1. Is(0, f)
    OBVIOUS
  <2> QED BY <2>1
<1>2. ASSUME NEW m \in Nat, m \in G PROVE m + 1 \in G
  <2>1. PICK f : Is(m, f)
    BY <1>2
  <2> DEFINE e == [k \in 0 .. m + 1 |-> IF k = m + 1 THEN More(f[m], graph.ops[m + 1]) ELSE f[k]]
  <2>2. ASSUME NEW k \in 0 .. m + 1
        PROVE  e[k] = IF k = 0 THEN Start ELSE More(e[k - 1], graph.ops[k])
    <3>1. CASE k = m + 1
      <4>1. k # 0 /\ k - 1 = m /\ m \in 0 .. m + 1 /\ m # m + 1
        BY <3>1
      <4> QED BY <3>1, <4>1
    <3>2. CASE k # m + 1
      <4>1. k \in 0 .. m
        BY <3>2
      <4>2. f[k] = IF k = 0 THEN Start ELSE More(f[k - 1], graph.ops[k])
        BY <2>1, <4>1
      <4>3. k # 0 => k - 1 \in 0 .. m + 1 /\ k - 1 # m + 1
        BY <4>1
      <4> QED BY <3>2, <4>1, <4>2, <4>3
    <3> QED BY <3>1, <3>2
  <2> HIDE DEF Is
  <2>3. e = [k \in 0 .. m + 1 |-> e[k]]
    OBVIOUS
  <2> HIDE DEF e
  <2>4. Is(m + 1, e)
    BY <2>2, <2>3 DEF Is
  <2> QED BY <2>4
<1> HIDE DEF Is
<1>3. Nat \subseteq G
  <2> HIDE DEF G
  <2> QED BY <1>1, <1>2, NatInductive
<1>4. Is(n, known)
  BY <1>3
<1>6. known[0] = Start /\ \A k \in 1 .. n : known[k] = More(known[k - 1], graph.ops[k])
  <2> HIDE DEF known, n
  <2>1. \A k \in 0 .. n : known[k] = IF k = 0 THEN Start ELSE More(known[k - 1], graph.ops[k])
    BY <1>4 DEF Is
  <2>2. n \in Nat
    BY DEF n
  <2>3. 0 \in 0 .. n /\ \A k \in 1 .. n : k \in 0 .. n /\ k # 0
    BY <2>2
  <2> HIDE DEF G, More, Start
  <2> QED BY <2>1, <2>3
<1> HIDE DEF known
<1> QED BY <1>5, <1>6 DEF Start, More

\* What is computed from known operands is known.
LEMMA KnownClosed ==
  ASSUME NEW graph, Sound(graph), NEW op \in ToSet(graph.ops), op.type \in Evaluable,
         ToSet(op.ins) \subseteq Known(graph)
  PROVE  ToSet(op.outs) \subseteq Known(graph)
<1> DEFINE n == Len(graph.ops)
<1>1. n \in Nat /\ DOMAIN graph.ops = 1 .. n
  BY GraphShape DEF Sound
<1>2. PICK known :
           /\ \A k \in 1 .. n :
                known[k] = known[k - 1] \cup
                  (IF graph.ops[k].type \in Evaluable /\ ToSet(graph.ops[k].ins) \subseteq known[k - 1]
                   THEN ToSet(graph.ops[k].outs) ELSE {})
           /\ Known(graph) = known[n]
  BY <1>1, KnownUnfolds
<1>3. PICK k \in 1 .. n : graph.ops[k] = op
  BY <1>1, GraphShape DEF Sound
<1> HIDE DEF n
<1>4. k \in Nat /\ k - 1 \in Nat /\ n \in Nat
  BY <1>1
<1> DEFINE G == {m \in Nat : m <= n => /\ k - 1 <= m => known[m] \cap ToSet(op.ins) \subseteq known[k - 1]
                                       /\ k <= m => known[k] \subseteq known[m]}
<1>5. 0 \in G
  BY <1>4
<1>6. ASSUME NEW m \in Nat, m \in G PROVE m + 1 \in G
  <2> SUFFICES ASSUME m + 1 <= n
               PROVE  /\ k - 1 <= m + 1 => known[m + 1] \cap ToSet(op.ins) \subseteq known[k - 1]
                      /\ k <= m + 1 => known[k] \subseteq known[m + 1]
    OBVIOUS
  <2>1. m <= n /\ m + 1 \in 1 .. n /\ (m + 1) - 1 = m
    BY <1>4
  <2> DEFINE new == IF graph.ops[m + 1].type \in Evaluable /\ ToSet(graph.ops[m + 1].ins) \subseteq known[m]
                    THEN ToSet(graph.ops[m + 1].outs) ELSE {}
  <2>2. known[m + 1] = known[m] \cup new /\ new \subseteq ToSet(graph.ops[m + 1].outs)
    BY <1>2, <2>1
  <2> HIDE DEF new
  <2>3. ASSUME k - 1 <= m + 1 PROVE known[m + 1] \cap ToSet(op.ins) \subseteq known[k - 1]
    <3>1. CASE k - 1 = m + 1
      BY <3>1
    <3>2. CASE k - 1 # m + 1
      <4>1. k - 1 <= m /\ ~(m + 1 < k)
        BY <2>3, <3>2, <1>4
      <4>2. known[m] \cap ToSet(op.ins) \subseteq known[k - 1]
        BY <4>1, <1>6, <2>1
      <4>3. ToSet(graph.ops[m + 1].outs) \cap ToSet(op.ins) = {}
        BY <4>1, <2>1, <1>1, <1>3 DEF Sound, InOrder
      <4> QED BY <4>2, <4>3, <2>2
    <3> QED BY <3>1, <3>2
  <2>4. ASSUME k <= m + 1 PROVE known[k] \subseteq known[m + 1]
    <3>1. CASE k = m + 1
      BY <3>1
    <3>2. CASE k # m + 1
      <4>1. k <= m
        BY <2>4, <3>2, <1>4
      <4>2. known[k] \subseteq known[m]
        BY <4>1, <1>6, <2>1
      <4> QED BY <4>2, <2>2
    <3> QED BY <3>1, <3>2
  <2> QED BY <2>3, <2>4
<1>7. Nat \subseteq G
  <2> HIDE DEF G
  <2> QED BY <1>5, <1>6, NatInductive
<1>8. known[n] \cap ToSet(op.ins) \subseteq known[k - 1] /\ known[k] \subseteq known[n]
  <2>1. n \in G /\ k - 1 <= n /\ k <= n /\ n <= n
    BY <1>4, <1>7
  <2> QED BY <2>1
<1>9. ToSet(op.outs) \subseteq known[k]
  BY <1>2, <1>3, <1>8
<1> QED BY <1>2, <1>8, <1>9

\* Constants are known.
LEMMA KnownHolds ==
  ASSUME NEW graph, Len(graph.ops) \in Nat, NEW t \in DOMAIN graph.tensors, IsConstant(graph.tensors, t)
  PROVE  t \in Known(graph)
<1> DEFINE n == Len(graph.ops)
<1>1. PICK known :
           /\ known[0] = {u \in DOMAIN graph.tensors : IsConstant(graph.tensors, u)}
           /\ \A k \in 1 .. n :
                known[k] = known[k - 1] \cup
                  (IF graph.ops[k].type \in Evaluable /\ ToSet(graph.ops[k].ins) \subseteq known[k - 1]
                   THEN ToSet(graph.ops[k].outs) ELSE {})
           /\ Known(graph) = known[n]
  BY KnownUnfolds
<1>2. n \in Nat
  OBVIOUS
<1> HIDE DEF n
<1> DEFINE G == {m \in Nat : m <= n => t \in known[m]}
<1>3. 0 \in G
  BY <1>1
<1>4. ASSUME NEW m \in Nat, m \in G PROVE m + 1 \in G
  <2> SUFFICES ASSUME m + 1 <= n PROVE t \in known[m + 1]
    OBVIOUS
  <2>1. m <= n /\ m + 1 \in 1 .. n /\ (m + 1) - 1 = m
    BY <1>2
  <2>2. known[m] \subseteq known[m + 1]
    BY <1>1, <2>1
  <2> QED BY <2>1, <2>2, <1>4
<1>5. n \in G
  <2> HIDE DEF G
  <2> QED BY <1>2, <1>3, <1>4, NatInductive
<1> QED BY <1>1, <1>2, <1>5

\* Nothing stands in the way of folding what the source defines.
FoldsPlainly(s) == ~ReadsMislaid(s) /\ ~FoldsOtherwise(s)

\* How a tensor of the source comes to be a constant: it is known, its bytes are in
\* its type or the cause is named, and it is what the source defines if nothing
\* stands in the way.
Explained(s, ts, t) ==
  /\ t \in Known(s)
  /\ ts[t].as # ts[t].dtype => t \in Mislaid(s)
  /\ FoldsPlainly(s) => ts[t].val = Values(s)[t] /\ ts[t].shape = s.tensors[t].shape

\* What folding keeps of the source.
FoldPhase(s, graph) ==
  /\ \A op \in ToSet(graph.ops) : op \in ToSet(s.ops)
  /\ graph.inputs = s.inputs /\ graph.outputs = s.outputs
  /\ DOMAIN graph.tensors = DOMAIN s.tensors
  /\ \A t \in DOMAIN s.tensors : /\ graph.tensors[t].dtype = s.tensors[t].dtype
                                 /\ graph.tensors[t].name = t
  /\ \A t \in DOMAIN s.tensors :
       IsConstant(s.tensors, t) \/ ~IsConstant(graph.tensors, t) => graph.tensors[t] = s.tensors[t]
  /\ \A t : IsConstant(graph.tensors, t) =>
       OpOf(graph.tensors[t].val) # "scaled" /\ Explained(s, graph.tensors, t)
  /\ \A op \in ToSet(s.ops) :
       \/ op \in ToSet(graph.ops)
       \/ op.type \in Evaluable /\ \A t \in ToSet(op.outs) : IsConstant(graph.tensors, t)

\* What ingestion leaves is sound.
LEMMA SourceSound ==
  ASSUME NEW s, IsIngested(s)
  PROVE  Sound(s) /\ FoldPhase(s, s)
<1>0. Seq(Seq(STRING)) \subseteq Seq(TensorNames) /\ Seq(STRING) \subseteq TensorNames
  <2>1. STRING \subseteq Words
    BY DEF Words
  <2>2. Seq(STRING) \subseteq TensorNames
    BY <2>1, SeqMonotonic DEF TensorNames
  <2> QED BY <2>2, SeqMonotonic
<1>1. /\ s \in [ops : Seq(Operations), tensors : {s.tensors},
                inputs : Seq(TensorNames), outputs : SUBSET TensorNames]
      /\ NamesKnown(s) /\ InOrder(s)
      /\ \A op \in ToSet(s.ops) : HasArity(op) /\ \A t \in ToSet(op.outs) : ~IsConstant(s.tensors, t)
  <2>1. s \in [ops : Seq(Operators), tensors : {s.tensors},
               inputs : Seq(Seq(STRING)), outputs : SUBSET Seq(STRING)]
    BY DEF IsIngested
  <2>2. Seq(Operators) \subseteq Seq(Operations)
    <3>1. Operators \subseteq Operations
      <4>1. STRING \subseteq Words
        BY DEF Words
      <4> QED BY <4>1, <1>0 DEF Operators, Operations
    <3> HIDE DEF Operators, Operations
    <3> QED BY <3>1, SeqMonotonic
  <2>3. s \in [ops : Seq(Operations), tensors : {s.tensors},
               inputs : Seq(TensorNames), outputs : SUBSET TensorNames]
    <3> DEFINE A == Seq(Operators)
               B == Seq(Operations)
               C == Seq(Seq(STRING))
               D == Seq(TensorNames)
               E == Seq(STRING)
               ts == s.tensors
    <3>1. /\ s \in [ops : A, tensors : {ts}, inputs : C, outputs : SUBSET E]
          /\ A \subseteq B /\ C \subseteq D /\ E \subseteq TensorNames
      BY <2>1, <2>2, <1>0
    <3> HIDE DEF A, B, C, D, E, ts
    <3>2. s \in [ops : B, tensors : {ts}, inputs : D, outputs : SUBSET TensorNames]
      BY <3>1
    <3> QED BY <3>2 DEF B, D, ts
  <2> QED BY <2>3 DEF IsIngested
<1>2. ASSUME NEW t \in DOMAIN s.tensors
      PROVE  /\ IsTensor(s.tensors[t]) /\ s.tensors[t].name = t
             /\ s.tensors[t].as = s.tensors[t].dtype
             /\ s.tensors[t].val # NoValue => OpOf(s.tensors[t].val) = "const"
  <2> DEFINE x == s.tensors[t]
  <2>1. x \in [name : {t}, dtype : Dtypes, shape : Seq(Nat),
               val : {NoValue, Term("const", t, <<>>)}, as : {x.dtype}]
    BY DEF IsIngested
  <2> HIDE DEF x
  <2>2. /\ x.name = t /\ x.dtype \in Dtypes /\ x.shape \in Seq(Nat) /\ x.as = x.dtype
        /\ x.val \in {NoValue, Term("const", t, <<>>)}
    BY <2>1
  <2>3. x.as \in DOMAIN ItemSize
    BY <2>2 DEF ItemSize, Dtypes
  <2>4. x \in [name : {x.name}, dtype : Dtypes, shape : Seq(Nat), val : {x.val},
               as : DOMAIN ItemSize]
    BY <2>1, <2>2, <2>3
  <2>5. x.val # NoValue => OpOf(x.val) = "const"
    BY <2>2 DEF OpOf, Term
  <2> QED BY <2>2, <2>4, <2>5 DEF IsTensor, x
<1>3. Sound(s)
  BY <1>1, <1>2 DEF Sound, IsGraph
<1>4. ASSUME NEW t, IsConstant(s.tensors, t) PROVE Explained(s, s.tensors, t)
  <2>1. t \in Known(s)
    <3>1. Len(s.ops) \in Nat
      BY <1>3, GraphShape DEF Sound
    <3> QED BY <1>4, <3>1, KnownHolds DEF IsConstant
  <2>2. s.tensors[t].as = s.tensors[t].dtype
    BY <1>2, <1>4 DEF IsConstant
  <2>3. Values(s)[t] = Read(s.tensors[t])
    BY <1>3, <1>4, ConstantMeans
  <2>4. Read(s.tensors[t]) = s.tensors[t].val
    BY <2>2 DEF Read
  <2> QED BY <2>1, <2>2, <2>3, <2>4 DEF Explained
<1>5. FoldPhase(s, s)
  BY <1>2, <1>4 DEF FoldPhase, IsConstant
<1> QED BY <1>3, <1>5

\* Nothing mislaid is read, and what is evaluated is what the source defines.
LEMMA PlainRead ==
  ASSUME NEW s, FoldsPlainly(s), NEW op \in ToSet(s.ops), NEW ts, NEW k \in DOMAIN op.ins,
         Explained(s, ts, op.ins[k])
  PROVE  ts[op.ins[k]].as = ts[op.ins[k]].dtype /\ Read(ts[op.ins[k]]) = Values(s)[op.ins[k]]
<1>1. op.ins[k] \in ToSet(op.ins)
  BY DEF ToSet
<1>2. op.ins[k] \notin Mislaid(s)
  BY <1>1 DEF FoldsPlainly, ReadsMislaid
<1>3. ts[op.ins[k]].as = ts[op.ins[k]].dtype /\ ts[op.ins[k]].val = Values(s)[op.ins[k]]
  BY <1>2 DEF Explained
<1> QED BY <1>3 DEF Read

\* What is evaluated is what the source defines, and numpy computes it.
LEMMA PlainResult ==
  ASSUME NEW s, Sound(s), FoldsPlainly(s), NEW op \in ToSet(s.ops), op.type \in Evaluable,
         NEW ts, \A k \in DOMAIN op.ins : Explained(s, ts, op.ins[k]),
         NEW operands, operands = [k \in DOMAIN op.ins |-> ts[op.ins[k]]]
  PROVE  /\ ResultOf(op, operands) = Values(s)[op.outs[1]]
         /\ ~Deviates(op, ResultOf(op, operands)) /\ ResultOf(op, operands) \notin EvalRaises
<1> DEFINE result == ResultOf(op, operands)
           V == Values(s)
           read == [k \in DOMAIN operands |-> Read(operands[k])]
           held == [k \in DOMAIN op.ins |-> V[op.ins[k]]]
<1>1. \A k \in DOMAIN op.ins : Read(ts[op.ins[k]]) = V[op.ins[k]]
  BY PlainRead
<1>2. DOMAIN operands = DOMAIN op.ins /\ \A k \in DOMAIN op.ins : operands[k] = ts[op.ins[k]]
  OBVIOUS
<1>3. PICK j \in DOMAIN s.ops : s.ops[j] = op
  BY GraphShape DEF Sound
<1>4. op.outs[1] \in ToSet(op.outs) /\ Means(s, V)
  BY <1>3, SoundOperators, ValuesMean
<1>5. ToSet(op.ins) \subseteq Known(s)
  BY DEF ToSet, Explained
<1>6. V[op.outs[1]] = Compute(op, V)
  BY <1>3, <1>4 DEF Means
<1>7. result = Result(op.type, op.attr, read) /\ Compute(op, V) = Result(op.type, op.attr, held)
  BY DEF ResultOf, Compute
<1> HIDE DEF V, result
<1>8. read = held
  BY <1>1, <1>2
<1> HIDE DEF read, held
<1>9. result = V[op.outs[1]]
  BY <1>6, <1>7, <1>8
<1>10. V[op.outs[1]] \notin EvalRaises /\ ~Deviates(op, V[op.outs[1]])
  BY <1>5 DEF FoldsPlainly, FoldsOtherwise, V
<1> QED BY <1>9, <1>10 DEF result, V

\* A result has the type its bytes are in, or it is mislaid.
LEMMA MadeType ==
  ASSUME NEW s, Sound(s), NEW op \in ToSet(s.ops), op.type \in Evaluable, HasType(s.tensors, op),
         ToSet(op.ins) \subseteq Known(s), NEW operands,
         operands[1].dtype = s.tensors[op.ins[1]].dtype,
         ArrayType(op, operands) # s.tensors[op.outs[1]].dtype
  PROVE  op.outs[1] \in Mislaid(s)
<1> DEFINE first == s.tensors[op.ins[1]].dtype
           declared == s.tensors[op.outs[1]].dtype
<1>0. PICK j \in DOMAIN s.ops : s.ops[j] = op
  BY GraphShape DEF Sound
<1>1. 1 \in DOMAIN op.ins
  <2>1. op \in Operations /\ op.ins # <<>>
    BY <1>0, GraphShape, SoundOperators DEF Sound, HasArity
  <2>2. Len(op.ins) \in Nat /\ DOMAIN op.ins = 1 .. Len(op.ins) /\ op.ins \in Seq(TensorNames)
    BY <2>1, OperatorShape
  <2>3. Len(op.ins) > 0
    BY <2>1, <2>2, EmptySeq
  <2> QED BY <2>2, <2>3
<1>2. declared = CASE op.type = "Cast" -> op.attr[1]
                   [] op.type = "Shape" -> "I64"
                   [] OTHER -> first
  BY <1>1 DEF HasType
<1> HIDE DEF first, declared
<1>3. operands[1].dtype = first /\ ArrayType(op, operands) # declared
  BY DEF first, declared
<1>4. \/ op.type = "Cast" /\ op.attr[1] \notin CastTargets
      \/ op.type = "Div" /\ first \notin FloatTypes
  BY <1>2, <1>3 DEF ArrayType
<1> QED BY <1>4 DEF Mislaid, first

\* What folding makes of explained operands is explained.
LEMMA MadeExplained ==
  ASSUME NEW s, IsIngested(s), Sound(s), NEW op \in ToSet(s.ops), op.type \in Evaluable,
         NEW graph, NEW ts,
         \A k \in DOMAIN op.ins : /\ Explained(s, ts, op.ins[k])
                                  /\ ts[op.ins[k]].dtype = s.tensors[op.ins[k]].dtype,
         graph.tensors[op.outs[1]] = s.tensors[op.outs[1]],
         ts[op.outs[1]] = Made(graph, ts, op)
  PROVE  Explained(s, ts, op.outs[1])
<1> DEFINE t == op.outs[1]
           operands == [k \in DOMAIN op.ins |-> ts[op.ins[k]]]
           made == Made(graph, ts, op)
<1>0. PICK j \in DOMAIN s.ops : s.ops[j] = op
  BY GraphShape DEF Sound
<1>1. ToSet(op.ins) \subseteq Known(s)
  BY DEF ToSet, Explained
<1>2. t \in Known(s)
  <2>1. ToSet(op.outs) \subseteq Known(s)
    BY <1>1, KnownClosed
  <2>2. t \in ToSet(op.outs)
    BY <1>0, SoundOperators
  <2> QED BY <2>1, <2>2
<1>3. 1 \in DOMAIN op.ins
  <2>1. op \in Operations /\ op.ins # <<>>
    BY <1>0, GraphShape, SoundOperators DEF Sound, HasArity
  <2>2. Len(op.ins) \in Nat /\ DOMAIN op.ins = 1 .. Len(op.ins) /\ op.ins \in Seq(TensorNames)
    BY <2>1, OperatorShape
  <2>3. Len(op.ins) > 0
    BY <2>1, <2>2, EmptySeq
  <2> QED BY <2>2, <2>3
<1>4. /\ made.shape = ArrayShape(op, operands, s.tensors[t].shape)
      /\ made.val = ArrayValue(op, operands)
      /\ made.as = ArrayType(op, operands)
      /\ made.dtype = s.tensors[t].dtype
      /\ ts[t] = made
  <2> DEFINE shape == ArrayShape(op, operands, graph.tensors[t].shape)
             val == ArrayValue(op, operands)
             as == ArrayType(op, operands)
  <2>1. made = Constant(t, graph.tensors[t].dtype, shape, val, as)
    BY DEF Made
  <2> HIDE DEF made, shape, val, as
  <2>2. /\ made.shape = shape /\ made.val = val /\ made.as = as
        /\ made.dtype = graph.tensors[t].dtype
    BY <2>1 DEF Constant
  <2> QED BY <2>2 DEF shape, val, as, made
<1>5. operands[1].dtype = s.tensors[op.ins[1]].dtype
  BY <1>3
<1>6. ASSUME made.as # made.dtype PROVE t \in Mislaid(s)
  <2>1. HasType(s.tensors, op)
    BY DEF IsIngested
  <2>2. ArrayType(op, operands) # s.tensors[op.outs[1]].dtype
    BY <1>4, <1>6
  <2> HIDE DEF operands, made
  <2> QED BY <2>1, <2>2, <1>1, <1>5, MadeType
<1>7. ASSUME FoldsPlainly(s) PROVE made.val = Values(s)[t] /\ made.shape = s.tensors[t].shape
  <2> DEFINE given == operands
  <2>1. given = [k \in DOMAIN op.ins |-> ts[op.ins[k]]] /\ given = operands
    OBVIOUS
  <2> HIDE DEF given, made
  <2>2. ResultOf(op, given) = Values(s)[op.outs[1]] /\ ~Deviates(op, ResultOf(op, given))
    BY <2>1, <1>7, PlainResult
  <2>3. made.val = ArrayValue(op, given) /\ made.shape = ArrayShape(op, given, s.tensors[t].shape)
    BY <2>1, <1>4
  <2> QED BY <2>2, <2>3 DEF ArrayValue, ArrayShape, Deviates
<1> HIDE DEF made
<1> QED BY <1>2, <1>4, <1>6, <1>7 DEF Explained

\* A sweep leaves no constant unexplained.
LEMMA FoldExplained ==
  ASSUME NEW s, IsIngested(s), NEW graph, Sound(graph), FoldPhase(s, graph),
         NEW ts, NEW gone, gone \subseteq DOMAIN graph.ops, FoldsTo(graph, ts, gone),
         NEW t, IsConstant(ts, t)
  PROVE  OpOf(ts[t].val) # "scaled" /\ Explained(s, ts, t)
<1>1. /\ \A u \in DOMAIN ts : ts[u].dtype = graph.tensors[u].dtype
      /\ \A u : IsConstant(graph.tensors, u) => ts[u] = graph.tensors[u]
      /\ \A u : IsConstant(ts, u) =>
           IsConstant(graph.tensors, u) \/ \E j \in gone : graph.ops[j].outs[1] = u
  BY FoldTensors
<1>2. DOMAIN ts = DOMAIN graph.tensors /\ DOMAIN graph.tensors = DOMAIN s.tensors /\ Sound(s)
  BY SourceSound DEF FoldsTo, FoldPhase
<1>3. ASSUME NEW u, IsConstant(graph.tensors, u)
      PROVE  OpOf(ts[u].val) # "scaled" /\ Explained(s, ts, u)
  <2>1. ts[u] = graph.tensors[u]
    BY <1>1, <1>3
  <2>2. OpOf(graph.tensors[u].val) # "scaled" /\ Explained(s, graph.tensors, u)
    BY <1>3 DEF FoldPhase
  <2> QED BY <2>1, <2>2 DEF Explained
<1>4. ASSUME NEW j \in gone
      PROVE  /\ j \in DOMAIN graph.ops /\ graph.ops[j] \in ToSet(s.ops)
             /\ graph.ops[j].type \in Evaluable
             /\ ts[graph.ops[j].outs[1]] = Made(graph, ts, graph.ops[j])
             /\ graph.tensors[graph.ops[j].outs[1]] = s.tensors[graph.ops[j].outs[1]]
             /\ \A k \in DOMAIN graph.ops[j].ins :
                  /\ IsConstant(ts, graph.ops[j].ins[k])
                  /\ ts[graph.ops[j].ins[k]].dtype = s.tensors[graph.ops[j].ins[k]].dtype
  <2> DEFINE op == graph.ops[j]
             out == op.outs[1]
  <2>1. j \in DOMAIN graph.ops /\ op \in ToSet(s.ops)
    BY GraphShape DEF Sound, FoldPhase
  <2>2. /\ op.type \in Evaluable /\ ts[out] = Made(graph, ts, op)
        /\ \A k \in DOMAIN op.ins : IsConstant(ts, op.ins[k])
    BY DEF FoldsTo
  <2>3. out \in DOMAIN graph.tensors /\ ~IsConstant(graph.tensors, out)
    BY <2>1, SoundOperators
  <2>4. graph.tensors[out] = s.tensors[out]
    BY <2>3, <1>2 DEF FoldPhase
  <2>5. ASSUME NEW k \in DOMAIN op.ins PROVE ts[op.ins[k]].dtype = s.tensors[op.ins[k]].dtype
    <3>1. op.ins[k] \in DOMAIN ts
      BY <2>2 DEF IsConstant
    <3>2. ts[op.ins[k]].dtype = graph.tensors[op.ins[k]].dtype
      BY <3>1, <1>1
    <3> QED BY <3>1, <3>2, <1>2 DEF FoldPhase
  <2> QED BY <2>1, <2>2, <2>4, <2>5
<1> DEFINE n == Len(graph.ops)
           G == {m \in Nat : \A j \in gone : j <= m => Explained(s, ts, graph.ops[j].outs[1])}
<1>5. n \in Nat /\ DOMAIN graph.ops = 1 .. n
  BY GraphShape DEF Sound
<1> HIDE DEF n
<1>6. \A j \in gone : Explained(s, ts, graph.ops[j].outs[1])
  <2>1. 0 \in G
    BY <1>5
  <2>2. ASSUME NEW m \in Nat, m \in G PROVE m + 1 \in G
    <3> SUFFICES ASSUME NEW j \in gone, j <= m + 1 PROVE Explained(s, ts, graph.ops[j].outs[1])
      OBVIOUS
    <3> DEFINE op == graph.ops[j]
    <3>1. j \in DOMAIN graph.ops /\ j \in Nat
      BY <1>5
    <3>2. ASSUME NEW x \in DOMAIN op.ins PROVE Explained(s, ts, op.ins[x])
      <4> DEFINE u == op.ins[x]
      <4>1. u \in ToSet(op.ins) /\ IsConstant(ts, u)
        BY <1>4 DEF ToSet
      <4> HIDE DEF u, op
      <4>2. ASSUME NEW l \in gone, graph.ops[l].outs[1] = u PROVE Explained(s, ts, u)
        <5>1. l \in DOMAIN graph.ops /\ graph.ops[l].outs[1] \in ToSet(graph.ops[l].outs) /\ l \in Nat
          BY SoundOperators, <1>5
        <5>2. ToSet(graph.ops[l].outs) \cap ToSet(graph.ops[j].ins) # {}
          BY <5>1, <4>1, <4>2 DEF op
        <5>3. l < j
          BY <3>1, <5>1, <5>2 DEF Sound, InOrder
        <5>4. l <= m
          BY <5>1, <5>3, <3>1
        <5> QED BY <5>4, <2>2, <4>2
      <4>3. Explained(s, ts, u)
        BY <4>1, <4>2, <1>1, <1>3
      <4> QED BY <4>3 DEF u
    <3>3. /\ op \in ToSet(s.ops) /\ op.type \in Evaluable /\ ts[op.outs[1]] = Made(graph, ts, op)
          /\ graph.tensors[op.outs[1]] = s.tensors[op.outs[1]]
          /\ \A k \in DOMAIN op.ins : ts[op.ins[k]].dtype = s.tensors[op.ins[k]].dtype
      BY <1>4
    <3> HIDE DEF op
    <3>4. Explained(s, ts, op.outs[1])
      BY <3>2, <3>3, <1>2, MadeExplained
    <3> QED BY <3>4 DEF op
  <2>3. Nat \subseteq G
    <3> HIDE DEF G
    <3> QED BY <2>1, <2>2, NatInductive
  <2>4. n \in G /\ \A j \in gone : j <= n
    BY <2>3, <1>5
  <2> QED BY <2>4
<1> HIDE DEF G
<1>7. ASSUME NEW j \in gone, graph.ops[j].outs[1] = t PROVE OpOf(ts[t].val) # "scaled"
  <2> DEFINE op == graph.ops[j]
  <2>1. op.type \in Evaluable /\ ts[t] = Made(graph, ts, op)
    BY <1>4, <1>7
  <2> HIDE DEF op
  <2> QED BY <2>1, MadeIsConstant
<1> QED BY <1>1, <1>3, <1>6, <1>7

\* One sweep: it raises only over what is mislaid, or where numpy does not follow
\* ONNX.
LEMMA FoldFacts ==
  ASSUME NEW s, IsIngested(s), NEW graph, Sound(graph), FoldPhase(s, graph)
  PROVE  LET r == FoldSweep(graph)
             new == [graph EXCEPT !.ops = r.ops, !.tensors = r.tensors]
         IN  /\ r.raised => ~FoldsPlainly(s)
             /\ ~r.raised =>
                  /\ Sound(new) /\ FoldPhase(s, new)
                  /\ ~r.changed => \A op \in ToSet(new.ops) :
                       op.type \in Evaluable => \E t \in ToSet(op.ins) : ~IsConstant(new.tensors, t)
<1> DEFINE r == FoldSweep(graph)
           n == Len(graph.ops)
           new == [graph EXCEPT !.ops = r.ops, !.tensors = r.tensors]
<1>1. PICK gone : SweptTo(graph, r, n, gone)
  BY SweepDone
<1>2. n \in Nat /\ DOMAIN graph.ops = 1 .. n /\ IsGraph(graph)
  BY GraphShape DEF Sound
<1>3. gone \subseteq DOMAIN graph.ops /\ FoldsTo(graph, r.tensors, gone) /\ r.raised \in BOOLEAN
  BY <1>1, <1>2 DEF SweptTo
<1> DEFINE ts == r.tensors
<1>4. DOMAIN ts = DOMAIN graph.tensors /\ DOMAIN ts = DOMAIN s.tensors
  BY <1>3 DEF FoldsTo, FoldPhase
<1>5. /\ \A t \in DOMAIN ts : /\ ts[t].dtype = graph.tensors[t].dtype
                              /\ ts[t].name \in {t, graph.tensors[t].name}
      /\ \A t : IsConstant(graph.tensors, t) => IsConstant(ts, t) /\ ts[t] = graph.tensors[t]
      /\ \A t : IsConstant(ts, t) =>
              IsConstant(graph.tensors, t) \/ \E j \in gone : graph.ops[j].outs[1] = t
      /\ \A j \in gone : IsConstant(ts, graph.ops[j].outs[1])
  <2> HIDE DEF ts
  <2>1. FoldsTo(graph, ts, gone)
    BY <1>3 DEF ts
  <2>2. \A t \in DOMAIN ts : /\ ts[t].dtype = graph.tensors[t].dtype
                             /\ ts[t].name \in {t, graph.tensors[t].name}
    BY <1>3, <2>1, FoldTensors
  <2>3. \A t : IsConstant(graph.tensors, t) => IsConstant(ts, t) /\ ts[t] = graph.tensors[t]
    BY <1>3, <2>1, FoldTensors
  <2>4. \A t : IsConstant(ts, t) =>
              IsConstant(graph.tensors, t) \/ \E j \in gone : graph.ops[j].outs[1] = t
    BY <1>3, <2>1, FoldTensors
  <2>5. \A j \in gone : IsConstant(ts, graph.ops[j].outs[1])
    BY <1>3, <2>1, FoldTensors
  <2> QED BY <2>2, <2>3, <2>4, <2>5
<1>6. \A t : IsConstant(ts, t) => OpOf(ts[t].val) # "scaled" /\ Explained(s, ts, t)
  <2> HIDE DEF ts
  <2>1. FoldsTo(graph, ts, gone)
    BY <1>3 DEF ts
  <2> QED BY <1>3, <2>1, FoldExplained
<1>7. ASSUME r.raised, FoldsPlainly(s) PROVE FALSE
  <2>1. PICK j \in DOMAIN graph.ops : Unfoldable(ts, graph.ops[j])
    BY <1>1, <1>7 DEF SweptTo
  <2> DEFINE op == graph.ops[j]
             operands == [m \in DOMAIN op.ins |-> ts[op.ins[m]]]
  <2>2. op \in ToSet(s.ops) /\ Sound(s)
    BY SourceSound, GraphShape DEF Sound, FoldPhase
  <2>3. \A m \in DOMAIN op.ins : IsConstant(ts, op.ins[m])
    BY <2>1 DEF Unfoldable
  <2>4. (\E m \in DOMAIN op.ins : ~Readable(ts[op.ins[m]]))
          \/ (op.type \in Evaluable /\ ResultOf(op, operands) \in EvalRaises)
    BY <2>1 DEF Unfoldable
  <2> DEFINE given == operands
  <2>5. given = [m \in DOMAIN op.ins |-> ts[op.ins[m]]] /\ given = operands
    OBVIOUS
  <2> HIDE DEF given, op, ts
  <2>6. \A m \in DOMAIN op.ins : Explained(s, ts, op.ins[m])
    BY <2>3, <1>6
  <2>7. \A m \in DOMAIN op.ins : Readable(ts[op.ins[m]])
    <3>1. \A m \in DOMAIN op.ins : ts[op.ins[m]].as = ts[op.ins[m]].dtype
      BY <2>2, <2>6, <1>7, PlainRead
    <3> QED BY <3>1 DEF Readable
  <2>8. op.type \in Evaluable => ResultOf(op, given) \notin EvalRaises
    BY <2>2, <2>5, <2>6, <1>7, PlainResult
  <2> QED BY <2>4, <2>5, <2>7, <2>8
<1>8. ASSUME ~r.raised
      PROVE  /\ Sound(new) /\ FoldPhase(s, new)
             /\ ~r.changed => \A op \in ToSet(new.ops) :
                  op.type \in Evaluable => \E t \in ToSet(op.ins) : ~IsConstant(new.tensors, t)
  <2>0. r.raised = FALSE
    BY <1>3, <1>8
  <2>1. Sound(new)
    BY <1>1, <2>0, FoldKeepsSound
  <2>2. /\ new.ops = r.ops /\ new.tensors = ts /\ new.inputs = graph.inputs /\ new.outputs = graph.outputs
    BY <1>2 DEF IsGraph
  <2>3. ToSet(r.ops) = Entries(graph.ops, (1 .. n) \ gone)
    <3>1. PICK h : Thinned(r.ops, graph.ops, (1 .. n) \ gone, h)
      BY <1>1, <2>0 DEF SweptTo
    <3> DEFINE keep == (1 .. n) \ gone
    <3>2. keep \subseteq DOMAIN graph.ops
      BY <1>2
    <3>3. Thinned(r.ops, graph.ops, keep, h)
      BY <3>1
    <3> HIDE DEF keep, n
    <3>4. ToSet(r.ops) = Entries(graph.ops, keep)
      BY <1>2, <3>2, <3>3, ThinnedOperators
    <3> QED BY <3>4 DEF keep
  <2>4. \A op \in ToSet(new.ops) : \E k \in (1 .. n) \ gone : graph.ops[k] = op
    BY <2>2, <2>3 DEF Entries
  <2>5. \A k \in (1 .. n) \ gone : graph.ops[k] \in ToSet(new.ops)
    BY <2>2, <2>3 DEF Entries
  <2> HIDE DEF new, ts, r, n
  <2>6. FoldPhase(s, new)
    <3>1. \A op \in ToSet(new.ops) : op \in ToSet(s.ops)
      BY <2>4, <1>2, GraphShape DEF FoldPhase
    <3>2. \A t \in DOMAIN s.tensors : ts[t].dtype = s.tensors[t].dtype /\ ts[t].name = t
      BY <1>4, <1>5 DEF FoldPhase
    <3>3. ASSUME NEW t \in DOMAIN s.tensors, IsConstant(s.tensors, t) \/ ~IsConstant(ts, t)
          PROVE  ts[t] = s.tensors[t]
      <4>1. CASE IsConstant(s.tensors, t)
        <5>1. graph.tensors[t] = s.tensors[t]
          BY <4>1 DEF FoldPhase
        <5>2. IsConstant(graph.tensors, t)
          BY <5>1, <4>1, <1>4 DEF IsConstant
        <5> QED BY <5>1, <5>2, <1>5
      <4>2. CASE ~IsConstant(ts, t)
        <5>1. ~IsConstant(graph.tensors, t) /\ \A j \in gone : graph.ops[j].outs[1] # t
          BY <4>2, <1>5
        <5>2. ts[t] = graph.tensors[t] /\ graph.tensors[t] = s.tensors[t]
          BY <5>1, <1>4, <1>3 DEF FoldsTo, FoldPhase, ts
        <5> QED BY <5>2
      <4> QED BY <3>3, <4>1, <4>2
    <3>4. \A t : IsConstant(ts, t) => OpOf(ts[t].val) # "scaled" /\ Explained(s, ts, t)
      BY <1>6
    <3>5. ASSUME NEW op \in ToSet(s.ops)
          PROVE  \/ op \in ToSet(new.ops)
                 \/ op.type \in Evaluable /\ \A t \in ToSet(op.outs) : IsConstant(ts, t)
      <4>1. CASE op \in ToSet(graph.ops)
        <5>1. PICK k \in 1 .. n : graph.ops[k] = op
          BY <4>1, <1>2, GraphShape
        <5>2. CASE k \notin gone
          BY <5>1, <5>2, <2>5
        <5>3. CASE k \in gone
          <6>1. op.type \in Evaluable /\ IsConstant(ts, op.outs[1])
            BY <5>1, <5>3, <1>3, <1>5 DEF FoldsTo
          <6>2. Len(op.outs) = 1 /\ op \in Operations
            BY <6>1, <4>1, <1>2, GraphShape DEF Sound, HasArity
          <6>3. DOMAIN op.outs = 1 .. 1
            BY <6>2, OperatorShape
          <6>4. \A t \in ToSet(op.outs) : t = op.outs[1]
            BY <6>3 DEF ToSet
          <6> QED BY <6>1, <6>4
        <5> QED BY <5>2, <5>3
      <4>2. CASE op \notin ToSet(graph.ops)
        BY <4>2, <1>5 DEF FoldPhase
      <4> QED BY <4>1, <4>2
    <3> QED BY <3>1, <3>2, <3>3, <3>4, <3>5, <2>2, <1>4 DEF FoldPhase
  <2>8. ASSUME ~r.changed, NEW op \in ToSet(new.ops), op.type \in Evaluable
        PROVE  \E t \in ToSet(op.ins) : ~IsConstant(new.tensors, t)
    <3>1. PICK k \in (1 .. n) \ gone : graph.ops[k] = op
      BY <2>4
    <3>2. PICK m \in DOMAIN op.ins : ~IsConstant(ts, op.ins[m])
      BY <1>1, <2>0, <2>8, <3>1 DEF SweptTo, ts
    <3>3. op.ins[m] \in ToSet(op.ins)
      BY DEF ToSet
    <3> QED BY <3>2, <3>3, <2>2
  <2> QED BY <2>1, <2>6, <2>8
<1> HIDE DEF r, new
<1> QED BY <1>7, <1>8 DEF r, new

\* Nothing is left to be folded.
Settled(graph) ==
  \A op \in ToSet(graph.ops) :
    op.type \in Evaluable => \E t \in ToSet(op.ins) : ~IsConstant(graph.tensors, t)

\* The named reasons for a refusal.
Excused(s) ==
  Unsupported(s) \/ TooLarge(s) \/ AbsorbsUnfused(s) \/ ReadsMislaid(s) \/ FoldsOtherwise(s)

\* Folding is done only when everything that can be known is.
LEMMA KnownIsFolded ==
  ASSUME NEW s, IsIngested(s), NEW graph, Sound(graph), FoldPhase(s, graph), Settled(graph),
         NEW t \in Known(s)
  PROVE  IsConstant(graph.tensors, t)
<1> DEFINE n == Len(s.ops)
<1>1. n \in Nat /\ \A k \in 1 .. n : s.ops[k] \in ToSet(s.ops)
  BY SourceSound, GraphShape DEF Sound
<1>2. PICK known :
           /\ known[0] = {u \in DOMAIN s.tensors : IsConstant(s.tensors, u)}
           /\ \A k \in 1 .. n :
                known[k] = known[k - 1] \cup
                  (IF s.ops[k].type \in Evaluable /\ ToSet(s.ops[k].ins) \subseteq known[k - 1]
                   THEN ToSet(s.ops[k].outs) ELSE {})
           /\ Known(s) = known[n]
  BY <1>1, KnownUnfolds
<1> DEFINE G == {k \in Nat : k <= n => \A u \in known[k] : IsConstant(graph.tensors, u)}
<1>3. 0 \in G
  <2>1. ASSUME NEW u, IsConstant(s.tensors, u) PROVE IsConstant(graph.tensors, u)
    BY <2>1 DEF FoldPhase, IsConstant
  <2> QED BY <2>1, <1>2
<1>4. ASSUME NEW k \in Nat, k \in G PROVE k + 1 \in G
  <2> SUFFICES ASSUME k + 1 <= n, NEW u \in known[k + 1] PROVE IsConstant(graph.tensors, u)
    OBVIOUS
  <2>1. k <= n /\ k + 1 \in 1 .. n /\ (k + 1) - 1 = k
    BY <1>1
  <2>2. \A v \in known[k] : IsConstant(graph.tensors, v)
    BY <1>4, <2>1
  <2> DEFINE op == s.ops[k + 1]
  <2>3. known[k + 1] = known[k] \cup
          (IF op.type \in Evaluable /\ ToSet(op.ins) \subseteq known[k] THEN ToSet(op.outs) ELSE {})
    BY <1>2, <2>1
  <2>4. CASE u \in known[k]
    BY <2>2, <2>4
  <2>5. CASE u \notin known[k]
    <3>1. op.type \in Evaluable /\ ToSet(op.ins) \subseteq known[k] /\ u \in ToSet(op.outs)
      BY <2>3, <2>5
    <3>2. op \in ToSet(s.ops)
      BY <1>1, <2>1
    <3>3. op \notin ToSet(graph.ops)
      BY <3>1, <2>2 DEF Settled
    <3> QED BY <3>1, <3>2, <3>3 DEF FoldPhase
  <2> QED BY <2>4, <2>5
<1>5. n \in G
  <2> HIDE DEF G, n
  <2> QED BY <1>1, <1>3, <1>4, NatInductive
<1> QED BY <1>1, <1>2, <1>5

\* What folding leaves of a source it does not have to refuse.
LEMMA FoldedGraph ==
  ASSUME NEW s, IsIngested(s), NEW graph, Sound(graph), FoldPhase(s, graph), Settled(graph)
  PROVE  /\ ~Unsupported(s) => \A op \in ToSet(graph.ops) : op.type \in SupportedOps
         /\ Supplied(graph)
         /\ ~TooLarge(s) /\ FoldsPlainly(s) => ~TooLarge(graph)
<1>1. ASSUME ~Unsupported(s), NEW op \in ToSet(graph.ops) PROVE op.type \in SupportedOps
  <2>1. op \in ToSet(s.ops)
    BY DEF FoldPhase
  <2>2. CASE ToSet(op.outs) \subseteq Known(s)
    <3>1. PICK k \in DOMAIN graph.ops : graph.ops[k] = op
      BY GraphShape DEF Sound
    <3>2. op.outs[1] \in ToSet(op.outs) /\ ~IsConstant(graph.tensors, op.outs[1])
      BY <3>1, SoundOperators
    <3>3. IsConstant(graph.tensors, op.outs[1])
      BY <2>2, <3>2, KnownIsFolded
    <3> QED BY <3>2, <3>3
  <2>3. CASE ~(ToSet(op.outs) \subseteq Known(s))
    BY <1>1, <2>1, <2>3 DEF Unsupported
  <2> QED BY <2>2, <2>3
<1>2. Supplied(graph)
  <2> SUFFICES ASSUME NEW t \in graph.outputs \cup UNION {ToSet(op.ins) : op \in ToSet(graph.ops)}
               PROVE  \/ t \in ToSet(graph.inputs) \/ IsConstant(graph.tensors, t)
                      \/ \E op \in ToSet(graph.ops) : t \in ToSet(op.outs)
    BY DEF Supplied
  <2>1. t \in s.outputs \cup UNION {ToSet(op.ins) : op \in ToSet(s.ops)}
    BY DEF FoldPhase
  <2>2. Supplied(s)
    BY DEF IsIngested
  <2>3. \/ t \in ToSet(s.inputs) \/ IsConstant(s.tensors, t)
        \/ \E op \in ToSet(s.ops) : t \in ToSet(op.outs)
    BY <2>1, <2>2 DEF Supplied
  <2>4. CASE t \in ToSet(s.inputs)
    BY <2>4 DEF FoldPhase
  <2>5. CASE IsConstant(s.tensors, t)
    BY <2>5 DEF FoldPhase, IsConstant
  <2>6. CASE \E op \in ToSet(s.ops) : t \in ToSet(op.outs)
    BY <2>6 DEF FoldPhase
  <2> QED BY <2>3, <2>4, <2>5, <2>6
<1>3. ASSUME ~TooLarge(s), FoldsPlainly(s) PROVE ~TooLarge(graph)
  <2>1. /\ \A op \in ToSet(graph.ops) : op \in ToSet(s.ops)
        /\ DOMAIN graph.tensors = DOMAIN s.tensors
    BY DEF FoldPhase
  <2>2. ASSUME NEW t \in DOMAIN s.tensors PROVE graph.tensors[t].shape = s.tensors[t].shape
    <3>1. CASE IsConstant(graph.tensors, t)
      BY <3>1, <1>3 DEF FoldPhase, Explained
    <3>2. CASE ~IsConstant(graph.tensors, t)
      BY <3>2 DEF FoldPhase
    <3> QED BY <3>1, <3>2
  <2> QED BY <2>1, <2>2, <1>3 DEF TooLarge
<1> QED BY <1>1, <1>2, <1>3

-----------------------------------------------------------------------------
(* Absorption. *)

\* The operators that absorb, and those they absorb.
Absorbing(graph) == {i \in DOMAIN graph.ops : \E j \in DOMAIN graph.ops : Absorbs(graph, i, j)}

\* The BatchNorms that are absorbed.
Consumed(graph) == {j \in DOMAIN graph.ops : \E i \in DOMAIN graph.ops : Absorbs(graph, i, j)}

\* The BatchNorm an operator absorbs.
PartnerOf(graph, i) == CHOOSE j \in {j \in DOMAIN graph.ops : Absorbs(graph, i, j)} : TRUE

\* What each operator becomes.
AfterAbsorption(graph) ==
  [i \in DOMAIN graph.ops |->
     IF i \in Absorbing(graph) THEN Fused(graph.ops[i], graph.ops[PartnerOf(graph, i)])
     ELSE graph.ops[i]]

\* What the conditions of absorption say of the two operators.
LEMMA AbsorbFacts ==
  ASSUME NEW graph, Sound(graph), NEW i \in DOMAIN graph.ops, NEW j \in DOMAIN graph.ops,
         Absorbs(graph, i, j)
  PROVE  LET op == graph.ops[i]
             bn == graph.ops[j]
         IN  /\ i \in Int /\ j \in Int /\ i < j
             /\ op.type \in {"Conv", "Gemm"} /\ bn.type = "BatchNormalization"
             /\ DOMAIN op.outs = 1 .. 1 /\ DOMAIN bn.outs = 1 .. 1 /\ DOMAIN bn.ins = 1 .. 5
             /\ bn.ins[1] = op.outs[1]
             /\ \A k \in 2 .. 5 : IsConstant(graph.tensors, bn.ins[k]) /\ Params(bn)[k - 1] = bn.ins[k]
             /\ Len(op.ins) \in {2, 3} /\ DOMAIN op.ins = 1 .. Len(op.ins)
             /\ IsConstant(graph.tensors, op.ins[2])
             /\ \A k \in DOMAIN graph.ops : k > i /\ op.outs[1] \in ToSet(graph.ops[k].ins) => k = j
             /\ PartnerOf(graph, i) = j
             /\ \A k \in DOMAIN graph.ops : Absorbs(graph, k, j) => k = i
             /\ i \notin Consumed(graph) /\ j \notin Absorbing(graph)
<1> DEFINE op == graph.ops[i]
           bn == graph.ops[j]
<1>1. /\ op.type \in {"Conv", "Gemm"} /\ Len(op.outs) = 1
      /\ {k \in DOMAIN graph.ops : op.outs[1] \in ToSet(graph.ops[k].ins) /\ k > i} = {j}
      /\ bn.type = "BatchNormalization"
      /\ \A p \in ToSet(Params(bn)) : IsConstant(graph.tensors, p)
      /\ IsConstant(graph.tensors, op.ins[2])
  BY DEF Absorbs, SoleConsumer, ConsumersAfter
<1>2. /\ op \in Operations /\ bn \in Operations /\ i \in Int /\ j \in Int
      /\ DOMAIN graph.ops = 1 .. Len(graph.ops) /\ Len(graph.ops) \in Nat
  BY GraphShape DEF Sound
<1>3. /\ Len(bn.ins) = 5 /\ Len(bn.outs) = 1 /\ Len(op.ins) \in {2, 3}
  <2>1. HasArity(op) /\ HasArity(bn)
    BY SoundOperators
  <2>2. /\ {"Conv", "Gemm", "BatchNormalization"} \subseteq DOMAIN Arity
        /\ Arity["Conv"] = {2, 3} /\ Arity["Gemm"] = {2, 3} /\ Arity["BatchNormalization"] = {5}
    BY DEF Arity
  <2> HIDE DEF op, bn
  <2>3. /\ Len(op.ins) \in Arity[op.type] /\ Len(bn.ins) \in Arity[bn.type] /\ Len(bn.outs) = 1
    BY <2>1, <2>2, <1>1 DEF HasArity
  <2> QED BY <2>2, <2>3, <1>1
<1>4. /\ DOMAIN op.outs = 1 .. 1 /\ DOMAIN bn.outs = 1 .. 1 /\ DOMAIN bn.ins = 1 .. 5
      /\ DOMAIN op.ins = 1 .. Len(op.ins) /\ bn.ins \in Seq(TensorNames)
  <2> HIDE DEF op, bn
  <2> QED BY <1>1, <1>2, <1>3, OperatorShape
<1>5. i < j /\ op.outs[1] \in ToSet(bn.ins)
  <2>1. j \in {k \in DOMAIN graph.ops : op.outs[1] \in ToSet(graph.ops[k].ins) /\ k > i}
    BY <1>1
  <2> QED BY <2>1, <1>2
<1>6. \A k \in 2 .. 5 : IsConstant(graph.tensors, bn.ins[k]) /\ Params(bn)[k - 1] = bn.ins[k]
  <2> HIDE DEF bn, op
  <2>1. \A k \in 2 .. 5 : bn.ins[k] \in TensorNames
    BY <1>3, <1>4, ElementOfSeq
  <2> DEFINE s == SubSeq(bn.ins, 2, 5)
  <2>2. s \in Seq(TensorNames) /\ Len(s) = 4 /\ \A k \in 1 .. 4 : s[k] = bn.ins[k + 1]
    BY <2>1, SubSeqProperties
  <2>3. DOMAIN s = 1 .. 4
    BY <2>2
  <2>4. s = Params(bn)
    BY DEF Params
  <2> HIDE DEF s
  <2> SUFFICES ASSUME NEW k \in 2 .. 5
               PROVE  IsConstant(graph.tensors, bn.ins[k]) /\ Params(bn)[k - 1] = bn.ins[k]
    OBVIOUS
  <2>5. k - 1 \in 1 .. 4 /\ (k - 1) + 1 = k
    OBVIOUS
  <2>6. s[k - 1] = bn.ins[k]
    BY <2>2, <2>5
  <2>7. s[k - 1] \in ToSet(s)
    BY <2>3, <2>5 DEF ToSet
  <2> QED BY <1>1, <2>4, <2>6, <2>7
<1>7. bn.ins[1] = op.outs[1]
  <2>1. PICK k \in 1 .. 5 : bn.ins[k] = op.outs[1]
    BY <1>4, <1>5 DEF ToSet
  <2>2. ~IsConstant(graph.tensors, op.outs[1])
    BY SoundOperators
  <2>3. k \notin 2 .. 5
    BY <2>1, <2>2, <1>6
  <2>4. k = 1
    BY <2>3
  <2> QED BY <2>1, <2>4
<1>8. \A k \in DOMAIN graph.ops : k > i /\ op.outs[1] \in ToSet(graph.ops[k].ins) => k = j
  BY <1>1
<1>9. \A k \in DOMAIN graph.ops : Absorbs(graph, i, k) => k = j
  <2> SUFFICES ASSUME NEW k \in DOMAIN graph.ops, Absorbs(graph, i, k) PROVE k = j
    OBVIOUS
  <2>1. {m \in DOMAIN graph.ops : op.outs[1] \in ToSet(graph.ops[m].ins) /\ m > i} = {k}
    BY DEF Absorbs, SoleConsumer, ConsumersAfter
  <2> QED BY <2>1, <1>1
<1>10. PartnerOf(graph, i) = j
  <2>1. {m \in DOMAIN graph.ops : Absorbs(graph, i, m)} = {j}
    BY <1>9
  <2> QED BY <2>1 DEF PartnerOf
<1>11. \A k \in DOMAIN graph.ops : Absorbs(graph, k, j) => k = i
  <2> SUFFICES ASSUME NEW k \in DOMAIN graph.ops, Absorbs(graph, k, j) PROVE k = i
    OBVIOUS
  <2> DEFINE other == graph.ops[k]
  <2>1. /\ Len(other.outs) = 1
        /\ {m \in DOMAIN graph.ops : other.outs[1] \in ToSet(graph.ops[m].ins) /\ m > k} = {j}
    BY DEF Absorbs, SoleConsumer, ConsumersAfter
  <2>2. other.outs[1] \in ToSet(bn.ins)
    <3>1. j \in {m \in DOMAIN graph.ops : other.outs[1] \in ToSet(graph.ops[m].ins) /\ m > k}
      BY <2>1
    <3> QED BY <3>1
  <2>3. PICK m \in 1 .. 5 : bn.ins[m] = other.outs[1]
    BY <1>4, <2>2 DEF ToSet
  <2>4. ~IsConstant(graph.tensors, other.outs[1])
    BY SoundOperators
  <2>5. m = 1
    <3>1. m \notin 2 .. 5
      BY <2>3, <2>4, <1>6
    <3> QED BY <3>1
  <2>6. other.outs[1] = op.outs[1] /\ 1 \in DOMAIN other.outs /\ 1 \in DOMAIN op.outs
    BY <2>3, <2>5, <1>7, SoundOperators
  <2> QED BY <2>6 DEF Sound, InOrder
<1>12. i \notin Consumed(graph) /\ j \notin Absorbing(graph)
  <2>1. \A k \in DOMAIN graph.ops : ~Absorbs(graph, k, i) /\ ~Absorbs(graph, j, k)
    BY <1>1 DEF Absorbs
  <2> QED BY <2>1 DEF Consumed, Absorbing
<1> QED BY <1>1, <1>2, <1>3, <1>4, <1>5, <1>6, <1>7, <1>8, <1>10, <1>11, <1>12

\* A constant that absorption has stored.
IsStored(x, t, shape) == IsTensor(x) /\ x.shape = shape /\ x.val # NoValue /\ x.name = t

\* What absorption stores is a tensor.
LEMMA StoredIsTensor ==
  ASSUME NEW x, NEW t, NEW dtype \in Dtypes, NEW shape \in Seq(Nat), NEW val,
         val # NoValue, x = Constant(t, dtype, shape, val, dtype)
  PROVE  IsStored(x, t, shape)
<1>1. IsTensor(Constant(t, dtype, shape, val, dtype))
  BY ConstantIsTensor
<1>2. /\ Constant(t, dtype, shape, val, dtype).shape = shape
      /\ Constant(t, dtype, shape, val, dtype).val = val
      /\ Constant(t, dtype, shape, val, dtype).name = t
  BY DEF Constant
<1> QED BY <1>1, <1>2 DEF IsStored

\* What absorbing the operators in done leaves of the tensors.
Repainted(graph, ts, done) ==
  /\ DOMAIN graph.tensors \subseteq DOMAIN ts
  /\ \A t \in DOMAIN ts :
       /\ IsTensor(ts[t]) /\ \E u \in DOMAIN graph.tensors : ts[t].shape = graph.tensors[u].shape
       /\ t \notin DOMAIN graph.tensors => ts[t].val # NoValue
       /\ ts[t].name # t => \E i \in done : t = graph.ops[PartnerOf(graph, i)].outs[1]
  /\ \A t \in DOMAIN graph.tensors : ts[t].val = NoValue <=> graph.tensors[t].val = NoValue
  /\ \A i \in done : Len(graph.ops[i].ins) < 3 => NewBias(graph.ops[i]) \in DOMAIN ts

\* Absorbing one more BatchNorm, as far as the tensors go.
LEMMA RepaintStep ==
  ASSUME NEW graph, Sound(graph), NEW i \in DOMAIN graph.ops, NEW j \in DOMAIN graph.ops,
         Absorbs(graph, i, j), NewBias(graph.ops[i]) \notin DOMAIN graph.tensors,
         NEW ts, NEW done, Repainted(graph, ts, done)
  PROVE  Repainted(graph, Rewritten(ts, graph.ops[i], graph.ops[j]), done \cup {i})
<1> DEFINE op == graph.ops[i]
           bn == graph.ops[j]
           w == op.ins[2]
           b == BiasOf(op)
           bo == bn.outs[1]
           params == [k \in 1 .. 4 |-> Read(ts[Params(bn)[k]])]
           dtype == ts[w].dtype
           Stored(t, shape, term, args) == Constant(t, dtype, shape, Term(term, bn.attr, args), dtype)
           scaled == [ts EXCEPT ![w] = Stored(w, @.shape, "scaled", <<Read(@), params>>)]
           out == IF op.outs[1] \in DOMAIN ts THEN op.outs[1] ELSE bo
           new == Rewritten(ts, op, bn)
<1>1. /\ Len(op.ins) \in {2, 3} /\ DOMAIN op.ins = 1 .. Len(op.ins) /\ IsConstant(graph.tensors, w)
      /\ Params(bn)[1] = bn.ins[2] /\ IsConstant(graph.tensors, bn.ins[2])
      /\ PartnerOf(graph, i) = j
  <2>1. 2 \in 2 .. 5 /\ 2 - 1 = 1
    OBVIOUS
  <2> QED BY <2>1, AbsorbFacts
<1>2. /\ w \in DOMAIN ts /\ w \in DOMAIN graph.tensors /\ bo \in DOMAIN ts /\ bo \in DOMAIN graph.tensors
      /\ ~IsConstant(graph.tensors, bo) /\ bo # w
      /\ op.outs[1] \in DOMAIN graph.tensors /\ op.outs[1] \in DOMAIN ts
      /\ bn.ins[2] \in DOMAIN ts
      /\ Len(op.ins) = 3 => b = op.ins[3] /\ b \in DOMAIN graph.tensors /\ b \in DOMAIN ts
      /\ Len(op.ins) < 3 => b = NewBias(op) /\ b \notin DOMAIN graph.tensors
  <2>1. /\ \A t \in ToSet(op.ins) : t \in DOMAIN graph.tensors
        /\ bo \in DOMAIN graph.tensors /\ ~IsConstant(graph.tensors, bo) /\ op.outs[1] \in DOMAIN graph.tensors
    BY SoundOperators
  <2>2. DOMAIN graph.tensors \subseteq DOMAIN ts
    BY DEF Repainted
  <2>3. Len(op.ins) = 3 => op.ins[3] \in ToSet(op.ins)
    BY <1>1 DEF ToSet
  <2>4. w \in DOMAIN graph.tensors /\ bn.ins[2] \in DOMAIN graph.tensors
    BY <1>1 DEF IsConstant
  <2>5. bo # w
    BY <2>1, <1>1
  <2>6. /\ Len(op.ins) = 3 => b = op.ins[3]
        /\ Len(op.ins) < 3 => b = NewBias(op)
    BY <1>1 DEF BiasOf
  <2> QED BY <2>1, <2>2, <2>3, <2>4, <2>5, <2>6
<1>3. /\ DOMAIN new = DOMAIN ts \cup {bo, b}
      /\ \A t \in DOMAIN new :
           new[t] = IF t = bo THEN [ts[out] EXCEPT !.val = NoValue]
                    ELSE IF t = b /\ Len(op.ins) < 3
                    THEN Stored(t, ts[Params(bn)[1]].shape, "shift", <<params>>)
                    ELSE IF t = b /\ IsConstant(ts, t)
                    THEN Stored(t, ts[t].shape, "shifted", <<Read(scaled[t]), params>>)
                    ELSE scaled[t]
  BY DEF Rewritten
<1>4. /\ out \in DOMAIN ts /\ dtype \in Dtypes
      /\ \A t \in DOMAIN ts : /\ IsTensor(ts[t]) /\ ts[t].shape \in Seq(Nat)
                              /\ \E u \in DOMAIN graph.tensors : ts[t].shape = graph.tensors[u].shape
  <2>1. out \in DOMAIN ts
    BY <1>2
  <2>2. \A t \in DOMAIN ts : IsTensor(ts[t]) /\ \E u \in DOMAIN graph.tensors : ts[t].shape = graph.tensors[u].shape
    BY DEF Repainted
  <2> HIDE DEF op
  <2>3. dtype \in Dtypes
    BY <2>2, <1>2 DEF IsTensor
  <2>4. \A t \in DOMAIN ts : ts[t].shape \in Seq(Nat)
    BY <2>2 DEF IsTensor
  <2> QED BY <2>1, <2>2, <2>3, <2>4
<1>5. \A term \in {"scaled", "shift", "shifted"} : \A args : Term(term, bn.attr, args) # NoValue
  BY DEF Term, NoValue
<1> HIDE DEF new, params
<1>6. ASSUME NEW t \in DOMAIN ts
      PROVE  scaled[t] = IF t = w THEN Stored(w, ts[w].shape, "scaled", <<Read(ts[w]), params>>) ELSE ts[t]
  BY <1>2
<1> HIDE DEF scaled
<1>7. LET x == [ts[out] EXCEPT !.val = NoValue]
      IN  IsTensor(x) /\ x.shape = ts[out].shape /\ x.val = NoValue
  <2> DEFINE y == ts[out]
             none == NoValue
             x == [y EXCEPT !.val = none]
  <2>1. y \in [name : {y.name}, dtype : Dtypes, shape : Seq(Nat), val : {y.val},
         as : DOMAIN ItemSize]
    BY <1>4 DEF IsTensor
  <2> HIDE DEF y, none
  <2>2. x = [name |-> y.name, dtype |-> y.dtype, shape |-> y.shape, val |-> none, as |-> y.as]
    BY <2>1
  <2>3. x.name = y.name /\ x.shape = y.shape /\ x.val = none
    BY <2>2
  <2>4. x \in [name : {x.name}, dtype : Dtypes, shape : Seq(Nat), val : {x.val},
         as : DOMAIN ItemSize]
    BY <2>1, <2>2, <2>3
  <2> HIDE DEF x
  <2>5. IsTensor(x)
    BY <2>4 DEF IsTensor
  <2> QED BY <2>3, <2>5 DEF x, y, none
\* each tensor, by what it is
<1>8. ASSUME NEW t \in DOMAIN new
      PROVE  /\ IsTensor(new[t]) /\ \E u \in DOMAIN graph.tensors : new[t].shape = graph.tensors[u].shape
             /\ t \in DOMAIN ts /\ t # bo /\ new[t] # ts[t] => new[t].val # NoValue /\ ts[t].val # NoValue
             /\ t \notin DOMAIN ts => new[t].val # NoValue
             /\ t = bo => new[t].val = NoValue
             /\ t # bo /\ new[t].name # t => t \in DOMAIN ts /\ ts[t].name # t
  <2>1. CASE t = bo
    <3>1. new[t] = [ts[out] EXCEPT !.val = NoValue]
      BY <2>1, <1>3
    <3>2. t \in DOMAIN ts
      BY <2>1, <1>2
    <3>3. IsTensor(new[t]) /\ new[t].shape = ts[out].shape /\ new[t].val = NoValue
      BY <3>1, <1>7
    <3> HIDE DEF bo, out
    <3> QED BY <3>2, <3>3, <2>1, <1>4
  <2>2. CASE t # bo /\ t = b /\ Len(op.ins) < 3
    <3>1. new[t] = Stored(t, ts[Params(bn)[1]].shape, "shift", <<params>>)
      BY <2>2, <1>3
    <3>2. Params(bn)[1] \in DOMAIN ts
      BY <1>1, <1>2
    <3>3. t \notin DOMAIN graph.tensors
      BY <2>2, <1>2
    <3> DEFINE p == Params(bn)[1]
    <3> HIDE DEF p
    <3>4. p \in DOMAIN ts
      BY <3>2 DEF p
    <3>5. new[t] = Stored(t, ts[p].shape, "shift", <<params>>)
      BY <3>1 DEF p
    <3>6. ts[p].shape \in Seq(Nat)
      BY <3>4, <1>4
    <3>7. IsTensor(new[t]) /\ new[t].shape = ts[p].shape /\ new[t].val # NoValue /\ new[t].name = t
      <4> DEFINE sh == ts[p].shape
                 a == <<params>>
      <4> HIDE DEF sh, a
      <4>1. sh \in Seq(Nat) /\ new[t] = Stored(t, sh, "shift", a)
        BY <3>5, <3>6 DEF sh, a
      <4> DEFINE v == Term("shift", bn.attr, a)
      <4>2. v # NoValue
        BY <1>5
      <4>3. new[t] = Constant(t, dtype, sh, v, dtype)
        BY <4>1
      <4> HIDE DEF v, dtype
      <4>5. dtype \in Dtypes
        BY <1>4
      <4>6. sh \in Seq(Nat)
        BY <4>1
      <4> DEFINE x == new[t]
      <4> HIDE DEF x
      <4>7. x = Constant(t, dtype, sh, v, dtype)
        BY <4>3 DEF x
      <4>4. IsStored(x, t, sh)
        BY <4>5, <4>6, <4>2, <4>7, StoredIsTensor
      <4> QED BY <4>4 DEF sh, x, IsStored
    <3>8. t \in DOMAIN ts => ts[t].val # NoValue
      BY <3>3 DEF Repainted
    <3> HIDE DEF bo
    <3> QED BY <3>4, <3>7, <3>8, <2>2, <1>4
  <2>3. CASE t # bo /\ ~(t = b /\ Len(op.ins) < 3) /\ t = b /\ IsConstant(ts, t)
    <3>1. new[t] = Stored(t, ts[t].shape, "shifted", <<Read(scaled[t]), params>>)
      BY <2>3, <1>3
    <3>2. t \in DOMAIN ts /\ ts[t].val # NoValue
      BY <2>3 DEF IsConstant
    <3>3. ts[t].shape \in Seq(Nat)
      BY <3>2, <1>4
    <3>4. IsTensor(new[t]) /\ new[t].shape = ts[t].shape /\ new[t].val # NoValue /\ new[t].name = t
      <4> DEFINE sh == ts[t].shape
                 a == <<Read(scaled[t]), params>>
      <4> HIDE DEF sh, a
      <4>1. sh \in Seq(Nat) /\ new[t] = Stored(t, sh, "shifted", a)
        BY <3>1, <3>3 DEF sh, a
      <4> DEFINE v == Term("shifted", bn.attr, a)
      <4>2. v # NoValue
        BY <1>5
      <4>3. new[t] = Constant(t, dtype, sh, v, dtype)
        BY <4>1
      <4> HIDE DEF v, dtype
      <4>5. dtype \in Dtypes
        BY <1>4
      <4>6. sh \in Seq(Nat)
        BY <4>1
      <4> DEFINE x == new[t]
      <4> HIDE DEF x
      <4>7. x = Constant(t, dtype, sh, v, dtype)
        BY <4>3 DEF x
      <4>4. IsStored(x, t, sh)
        BY <4>5, <4>6, <4>2, <4>7, StoredIsTensor
      <4> QED BY <4>4 DEF sh, x, IsStored
    <3> HIDE DEF bo
    <3> QED BY <3>2, <3>4, <2>3, <1>4
  <2>4. CASE t # bo /\ ~(t = b /\ Len(op.ins) < 3) /\ ~(t = b /\ IsConstant(ts, t))
    <3>1. new[t] = scaled[t]
      BY <2>4, <1>3
    <3>2. t \in DOMAIN ts
      <4> HIDE DEF op, b, bo, w
      <4>0. Len(op.ins) < 3 \/ Len(op.ins) = 3
        <5> DEFINE len == Len(op.ins)
        <5>1. len \in {2, 3}
          BY <1>1
        <5> HIDE DEF len
        <5>2. len < 3 \/ len = 3
          BY <5>1
        <5> QED BY <5>2 DEF len
      <4>1. t = b => Len(op.ins) = 3
        BY <2>4, <4>0
      <4>2. t = b => t \in DOMAIN ts
        BY <4>1, <1>2
      <4> QED BY <4>2, <2>4, <1>3
    <3>3. CASE t = w
      <4>1. new[t] = Stored(w, ts[w].shape, "scaled", <<Read(ts[w]), params>>)
        BY <3>1, <3>2, <3>3, <1>6
      <4>2. ts[w].shape \in Seq(Nat)
        BY <1>2, <1>4
      <4>3. ts[t].val # NoValue
        BY <3>3, <1>1, <1>2 DEF Repainted, IsConstant
      <4> HIDE DEF w, bo
      <4>4. IsTensor(new[t]) /\ new[t].shape = ts[w].shape /\ new[t].val # NoValue /\ new[t].name = w
        <5> DEFINE sh == ts[w].shape
                   a == <<Read(ts[w]), params>>
        <5> HIDE DEF sh, a
        <5>1. sh \in Seq(Nat) /\ new[t] = Stored(w, sh, "scaled", a)
          BY <4>1, <4>2 DEF sh, a
        <5> DEFINE v == Term("scaled", bn.attr, a)
        <5>2. v # NoValue
          BY <1>5
        <5>3. new[t] = Constant(w, dtype, sh, v, dtype)
          BY <5>1
        <5> HIDE DEF v, dtype
        <5>5. dtype \in Dtypes
          BY <1>4
        <5>6. sh \in Seq(Nat)
          BY <5>1
        <5> DEFINE x == new[t]
        <5> HIDE DEF x
        <5>7. x = Constant(w, dtype, sh, v, dtype)
          BY <5>3 DEF x
        <5>4. IsStored(x, w, sh)
          BY <5>5, <5>6, <5>2, <5>7, StoredIsTensor
        <5> QED BY <5>4 DEF sh, x, IsStored
      <4> QED BY <3>2, <3>3, <4>3, <4>4, <2>4, <1>4
    <3>4. CASE t # w
      <4>1. new[t] = ts[t]
        BY <3>1, <3>2, <3>4, <1>6
      <4> HIDE DEF bo
      <4> QED BY <3>2, <4>1, <2>4, <1>4
    <3> QED BY <3>3, <3>4
  <2> QED BY <2>1, <2>2, <2>3, <2>4
<1>9. DOMAIN graph.tensors \subseteq DOMAIN new /\ DOMAIN ts \subseteq DOMAIN new
  BY <1>3 DEF Repainted
<1>10. ASSUME NEW t \in DOMAIN new, t \notin DOMAIN graph.tensors PROVE new[t].val # NoValue
  <2>1. t # bo
    BY <1>2, <1>10
  <2>2. CASE t \in DOMAIN ts
    <3>1. ts[t].val # NoValue
      BY <2>2, <1>10 DEF Repainted
    <3> QED BY <2>1, <2>2, <3>1, <1>8
  <2>3. CASE t \notin DOMAIN ts
    BY <2>3, <1>8
  <2> QED BY <2>2, <2>3
<1>11. ASSUME NEW t \in DOMAIN new, new[t].name # t
       PROVE  \E k \in done \cup {i} : t = graph.ops[PartnerOf(graph, k)].outs[1]
  <2>1. CASE t = bo
    BY <2>1, <1>1
  <2>2. CASE t # bo
    <3>1. t \in DOMAIN ts /\ ts[t].name # t
      BY <2>2, <1>11, <1>8
    <3>2. PICK k \in done : t = graph.ops[PartnerOf(graph, k)].outs[1]
      BY <3>1 DEF Repainted
    <3> QED BY <3>2
  <2> QED BY <2>1, <2>2
<1>12. ASSUME NEW t \in DOMAIN graph.tensors
       PROVE  new[t].val = NoValue <=> graph.tensors[t].val = NoValue
  <2>1. ts[t].val = NoValue <=> graph.tensors[t].val = NoValue
    BY DEF Repainted
  <2>2. t \in DOMAIN ts /\ t \in DOMAIN new
    BY <1>9 DEF Repainted
  <2>3. CASE t = bo
    <3>1. graph.tensors[t].val = NoValue
      BY <2>3, <1>2 DEF IsConstant
    <3> QED BY <3>1, <2>2, <2>3, <1>8
  <2>4. CASE t # bo
    BY <2>1, <2>2, <2>4, <1>8
  <2> QED BY <2>3, <2>4
<1>13. ASSUME NEW k \in done \cup {i}, Len(graph.ops[k].ins) < 3
       PROVE  NewBias(graph.ops[k]) \in DOMAIN new
  <2>1. CASE k \in done
    BY <2>1, <1>9, <1>13 DEF Repainted
  <2>2. CASE k = i
    BY <2>2, <1>2, <1>3, <1>13
  <2> QED BY <2>1, <2>2
<1>14. Repainted(graph, new, done \cup {i})
  BY <1>8, <1>9, <1>10, <1>11, <1>12, <1>13 DEF Repainted
<1> QED BY <1>14 DEF new

\* Something reads a constant that has another size than it declares.
ReadsMisfit(graph) ==
  \E op \in ToSet(graph.ops) : \E t \in ToSet(op.ins) :
    IsConstant(graph.tensors, t) /\ ~Readable(graph.tensors[t])

\* What absorption reads is read by the two operators it merges.
LEMMA AbsorbReads ==
  ASSUME NEW graph, Sound(graph), NEW i \in DOMAIN graph.ops, NEW j \in DOMAIN graph.ops,
         Absorbs(graph, i, j),
         NEW t \in ToSet(Params(graph.ops[j])) \cup ToSet(Tail(graph.ops[i].ins))
  PROVE  \E op \in ToSet(graph.ops) : t \in ToSet(op.ins)
<1> DEFINE a == graph.ops[i].ins
           b == graph.ops[j].ins
<1>1. graph.ops[i] \in Operations /\ graph.ops[j] \in Operations
  BY GraphShape DEF Sound
<1>2. /\ a \in Seq(TensorNames) /\ Len(a) \in Nat /\ DOMAIN a = 1 .. Len(a)
      /\ b \in Seq(TensorNames) /\ Len(b) \in Nat /\ DOMAIN b = 1 .. Len(b)
  BY <1>1, OperatorShape
<1>3. Len(b) >= 5
  BY DEF Absorbs
<1>4. a # <<>>
  <2>1. Len(a) \in {2, 3}
    BY AbsorbFacts
  <2> HIDE DEF a
  <2> QED BY <2>1
<1>5. graph.ops[i] \in ToSet(graph.ops) /\ graph.ops[j] \in ToSet(graph.ops)
  BY DEF ToSet
<1>6. Params(graph.ops[j]) = SubSeq(b, 2, 5)
  BY DEF Params
<1> HIDE DEF a, b
<1>7. ToSet(Tail(a)) \subseteq ToSet(a)
  <2>1. DOMAIN Tail(a) = 1 .. Len(a) - 1 /\ \A k \in 1 .. Len(a) - 1 : Tail(a)[k] = a[k + 1]
    BY <1>2, <1>4
  <2>2. \A k \in 1 .. Len(a) - 1 : k + 1 \in DOMAIN a
    BY <1>2
  <2> QED BY <2>1, <2>2 DEF ToSet
<1>8. ToSet(SubSeq(b, 2, 5)) \subseteq ToSet(b)
  <2>1. SubSeq(b, 2, 5) = [k \in 1 .. 4 |-> b[k + 1]]
    BY <1>2, <1>3
  <2>2. \A k \in 1 .. 4 : k + 1 \in DOMAIN b
    BY <1>2, <1>3
  <2> QED BY <2>1, <2>2 DEF ToSet
<1> QED BY <1>5, <1>6, <1>7, <1>8 DEF a, b

\* Absorption takes one operator after the other.
LEMMA AbsorbUnfolds ==
  ASSUME NEW graph, Sound(graph)
  PROVE  \E acc : /\ acc[0] = [ops |-> <<>>, tensors |-> graph.tensors]
                  /\ \A k \in 1 .. Len(graph.ops) : acc[k] = AbsorbOp(graph, acc[k - 1], k)
                  /\ Absorb(graph).raised => ReadsMisfit(graph)
                  /\ ~Absorb(graph).raised =>
                       Absorb(graph).g = [graph EXCEPT !.tensors = acc[Len(graph.ops)].tensors,
                                                       !.ops = acc[Len(graph.ops)].ops]
<1> DEFINE n == Len(graph.ops)
           Start == [ops |-> <<>>, tensors |-> graph.tensors]
           Is(m, f) == f = [k \in 0 .. m |-> IF k = 0 THEN Start ELSE AbsorbOp(graph, f[k - 1], k)]
           G == {m \in Nat : \E f : Is(m, f)}
           acc == CHOOSE f : Is(n, f)
           bad == \E t \in UNION {ToSet(Params(graph.ops[p[2]])) \cup ToSet(Tail(graph.ops[p[1]].ins)) :
                    p \in {q \in (DOMAIN graph.ops) \X (DOMAIN graph.ops) : Absorbs(graph, q[1], q[2])}} :
                      IsConstant(graph.tensors, t) /\ ~Readable(graph.tensors[t])
           last == [graph EXCEPT !.tensors = acc[n].tensors, !.ops = acc[n].ops]
<1>5. Absorb(graph) = IF bad THEN [g |-> graph, raised |-> TRUE] ELSE [g |-> last, raised |-> FALSE]
  BY DEF Absorb
<1>7. bad => ReadsMisfit(graph)
  <2> SUFFICES ASSUME NEW i \in DOMAIN graph.ops, NEW j \in DOMAIN graph.ops, Absorbs(graph, i, j),
                      NEW t \in ToSet(Params(graph.ops[j])) \cup ToSet(Tail(graph.ops[i].ins)),
                      IsConstant(graph.tensors, t), ~Readable(graph.tensors[t])
               PROVE  ReadsMisfit(graph)
    OBVIOUS
  <2>1. \E op \in ToSet(graph.ops) : t \in ToSet(op.ins)
    BY AbsorbReads
  <2> QED BY <2>1 DEF ReadsMisfit
<1>9. n \in Nat
  BY GraphShape DEF Sound
<1> HIDE DEF Start, last, bad
<1>8. /\ Absorb(graph).raised => ReadsMisfit(graph)
      /\ ~Absorb(graph).raised => Absorb(graph).g = last
  <2>1. CASE bad
    BY <1>5, <1>7, <2>1
  <2>2. CASE ~bad
    BY <1>5, <2>2
  <2> QED BY <2>1, <2>2
<1>1. 0 \in G
  <2> DEFINE f == [k \in 0 .. 0 |-> Start]
  <2>1. Is(0, f)
    OBVIOUS
  <2> QED BY <2>1
<1>2. ASSUME NEW m \in Nat, m \in G PROVE m + 1 \in G
  <2>1. PICK f : Is(m, f)
    BY <1>2
  <2> DEFINE e == [k \in 0 .. m + 1 |-> IF k = m + 1 THEN AbsorbOp(graph, f[m], m + 1) ELSE f[k]]
  <2>2. ASSUME NEW k \in 0 .. m + 1
        PROVE  e[k] = IF k = 0 THEN Start ELSE AbsorbOp(graph, e[k - 1], k)
    <3>1. CASE k = m + 1
      <4>1. k # 0 /\ k - 1 = m /\ m \in 0 .. m + 1 /\ m # m + 1
        BY <3>1
      <4> QED BY <3>1, <4>1
    <3>2. CASE k # m + 1
      <4>1. k \in 0 .. m
        BY <3>2
      <4>2. f[k] = IF k = 0 THEN Start ELSE AbsorbOp(graph, f[k - 1], k)
        BY <2>1, <4>1
      <4>3. k # 0 => k - 1 \in 0 .. m + 1 /\ k - 1 # m + 1
        BY <4>1
      <4> QED BY <3>2, <4>1, <4>2, <4>3
    <3> QED BY <3>1, <3>2
  <2> HIDE DEF Is
  <2>3. e = [k \in 0 .. m + 1 |-> e[k]]
    OBVIOUS
  <2> HIDE DEF e
  <2>4. Is(m + 1, e)
    BY <2>2, <2>3 DEF Is
  <2> QED BY <2>4
<1> HIDE DEF Is
<1>3. Nat \subseteq G
  <2> HIDE DEF G
  <2> QED BY <1>1, <1>2, NatInductive
<1>4. Is(n, acc)
  BY <1>3
<1>6. acc[0] = Start /\ \A k \in 1 .. n : acc[k] = AbsorbOp(graph, acc[k - 1], k)
  <2> HIDE DEF acc, n
  <2>1. \A k \in 0 .. n : acc[k] = IF k = 0 THEN Start ELSE AbsorbOp(graph, acc[k - 1], k)
    BY <1>4 DEF Is
  <2>2. n \in Nat
    BY DEF n
  <2> QED BY <2>1, <2>2
<1> HIDE DEF acc
<1> QED BY <1>6, <1>8 DEF Start, last

\* No tensor has another name than its key, or a name that absorption makes up.
Fresh(graph) ==
  /\ \A t \in DOMAIN graph.tensors : graph.tensors[t].name = t
  /\ \A op \in ToSet(graph.ops) : NewBias(op) \notin DOMAIN graph.tensors

\* What a sweep has done after k operators.
AbsorbedTo(graph, ops, ts, k) ==
  /\ \E h : Thinned(ops, AfterAbsorption(graph), (1 .. k) \ Consumed(graph), h)
  /\ Repainted(graph, ts, (1 .. k) \cap Absorbing(graph))

\* Absorption goes past any operator.
LEMMA AbsorbGoesOn ==
  ASSUME NEW graph, Sound(graph), Fresh(graph), NEW k \in DOMAIN graph.ops,
         NEW acc, acc \in [ops : {acc.ops}, tensors : {acc.tensors}],
         AbsorbedTo(graph, acc.ops, acc.tensors, k - 1)
  PROVE  LET new == AbsorbOp(graph, acc, k)
         IN  new \in [ops : {new.ops}, tensors : {new.tensors}] /\ AbsorbedTo(graph, new.ops, new.tensors, k)
<1> DEFINE new == AbsorbOp(graph, acc, k)
           keep == (1 .. k - 1) \ Consumed(graph)
           done == (1 .. k - 1) \cap Absorbing(graph)
           merged == AfterAbsorption(graph)
           partners == {j \in DOMAIN graph.ops : Absorbs(graph, k, j)}
           j == PartnerOf(graph, k)
<1>1. /\ k \in Nat /\ k - 1 \in Nat /\ DOMAIN graph.ops = 1 .. Len(graph.ops) /\ Len(graph.ops) \in Nat
  BY GraphShape DEF Sound
<1>2. keep \subseteq Nat /\ \A m \in keep : m < k
  BY <1>1
<1>3. PICK h : Thinned(acc.ops, merged, keep, h)
  BY DEF AbsorbedTo
<1>4. Repainted(graph, acc.tensors, done)
  BY DEF AbsorbedTo
<1>5. new = IF k \in Consumed(graph) THEN acc
            ELSE IF partners = {} THEN [acc EXCEPT !.ops = Append(@, graph.ops[k])]
            ELSE [ops |-> Append(acc.ops, Fused(graph.ops[k], graph.ops[j])),
                  tensors |-> Rewritten(acc.tensors, graph.ops[k], graph.ops[j])]
  BY DEF AbsorbOp, Consumed, PartnerOf
<1>6. k \in Absorbing(graph) <=> partners # {}
  BY DEF Absorbing
<1>7. \E f : Thinned(Append(acc.ops, merged[k]), merged, keep \cup {k}, f)
  <2> HIDE DEF merged, keep
  <2> QED BY <1>1, <1>2, <1>3, ThinGrows
<1>8. merged[k] = IF k \in Absorbing(graph) THEN Fused(graph.ops[k], graph.ops[j]) ELSE graph.ops[k]
  BY DEF AfterAbsorption
<1> HIDE DEF new, merged, partners
<1>9. CASE k \in Consumed(graph)
  <2>1. k \notin Absorbing(graph)
    <3>1. PICK i \in DOMAIN graph.ops : Absorbs(graph, i, k)
      BY <1>9 DEF Consumed
    <3> QED BY <3>1, AbsorbFacts
  <2>2. (1 .. k) \ Consumed(graph) = keep /\ (1 .. k) \cap Absorbing(graph) = done
    BY <1>1, <1>9, <2>1
  <2>3. new = acc
    BY <1>5, <1>9
  <2> HIDE DEF keep, done
  <2>4. AbsorbedTo(graph, acc.ops, acc.tensors, k)
    BY <2>2, <1>3, <1>4 DEF AbsorbedTo, merged
  <2> QED BY <2>3, <2>4 DEF new
<1>10. CASE k \notin Consumed(graph) /\ partners = {}
  <2>1. k \notin Absorbing(graph)
    BY <1>6, <1>10
  <2>2. (1 .. k) \ Consumed(graph) = keep \cup {k} /\ (1 .. k) \cap Absorbing(graph) = done
    BY <1>1, <1>10, <2>1
  <2> HIDE DEF keep, done
  <2>3. new = [ops |-> Append(acc.ops, merged[k]), tensors |-> acc.tensors]
    <3>1. new = [acc EXCEPT !.ops = Append(acc.ops, merged[k])]
      BY <1>5, <1>8, <1>10, <2>1
    <3> DEFINE a == acc.ops
               b == acc.tensors
               x == Append(acc.ops, merged[k])
    <3>2. acc \in [ops : {a}, tensors : {b}] /\ new = [acc EXCEPT !.ops = x]
      BY <3>1
    <3> HIDE DEF a, b, x
    <3>3. new = [ops |-> x, tensors |-> b]
      BY <3>2
    <3> QED BY <3>3 DEF x, b
  <2>4. new.ops = Append(acc.ops, merged[k]) /\ new.tensors = acc.tensors /\ new \in [ops : {new.ops}, tensors : {new.tensors}]
    BY <2>3
  <2>5. AbsorbedTo(graph, new.ops, new.tensors, k)
    BY <2>2, <2>4, <1>7, <1>4 DEF AbsorbedTo, merged
  <2> QED BY <2>4, <2>5 DEF new
<1>11. CASE k \notin Consumed(graph) /\ partners # {}
  <2>1. k \in Absorbing(graph)
    BY <1>6, <1>11
  <2>2. PICK i \in DOMAIN graph.ops : Absorbs(graph, k, i)
    BY <2>1 DEF Absorbing
  <2>3. i = j
    BY <2>2, AbsorbFacts
  <2>4. (1 .. k) \ Consumed(graph) = keep \cup {k} /\ (1 .. k) \cap Absorbing(graph) = done \cup {k}
    BY <1>1, <1>11, <2>1
  <2> HIDE DEF keep, done, j
  <2>5. new = [ops |-> Append(acc.ops, merged[k]), tensors |-> Rewritten(acc.tensors, graph.ops[k], graph.ops[j])]
    BY <1>5, <1>8, <1>11, <2>1
  <2>6. /\ new.ops = Append(acc.ops, merged[k])
        /\ new.tensors = Rewritten(acc.tensors, graph.ops[k], graph.ops[j])
        /\ new \in [ops : {new.ops}, tensors : {new.tensors}]
    BY <2>5
  <2>7. Repainted(graph, new.tensors, done \cup {k})
    <3>1. NewBias(graph.ops[k]) \notin DOMAIN graph.tensors
      BY GraphShape DEF Sound, Fresh
    <3> DEFINE ts == acc.tensors
    <3>2. new.tensors = Rewritten(ts, graph.ops[k], graph.ops[i]) /\ Repainted(graph, ts, done)
      BY <2>3, <2>6, <1>4
    <3> HIDE DEF ts
    <3>3. Repainted(graph, Rewritten(ts, graph.ops[k], graph.ops[i]), done \cup {k})
      BY <3>1, <3>2, <2>2, RepaintStep
    <3> QED BY <3>2, <3>3
  <2>8. AbsorbedTo(graph, new.ops, new.tensors, k)
    BY <2>4, <2>6, <2>7, <1>7 DEF AbsorbedTo, merged
  <2> QED BY <2>6, <2>8 DEF new
<1> QED BY <1>9, <1>10, <1>11

\* Absorption over the whole graph.
LEMMA AbsorbDone ==
  ASSUME NEW graph, Sound(graph), Fresh(graph)
  PROVE  /\ Absorb(graph).raised => ReadsMisfit(graph)
         /\ ~Absorb(graph).raised =>
              \E ops, ts, h : /\ Absorb(graph).g = [graph EXCEPT !.tensors = ts, !.ops = ops]
                              /\ Thinned(ops, AfterAbsorption(graph), (DOMAIN graph.ops) \ Consumed(graph), h)
                              /\ Repainted(graph, ts, Absorbing(graph))
<1> DEFINE n == Len(graph.ops)
<1>1. n \in Nat /\ DOMAIN graph.ops = 1 .. n
  BY GraphShape DEF Sound
<1>2. PICK acc : /\ acc[0] = [ops |-> <<>>, tensors |-> graph.tensors]
                 /\ \A k \in 1 .. n : acc[k] = AbsorbOp(graph, acc[k - 1], k)
                 /\ Absorb(graph).raised => ReadsMisfit(graph)
                 /\ ~Absorb(graph).raised =>
                       Absorb(graph).g = [graph EXCEPT !.tensors = acc[n].tensors, !.ops = acc[n].ops]
  BY <1>1, AbsorbUnfolds
<1> DEFINE G == {k \in Nat : k <= n => /\ acc[k] \in [ops : {acc[k].ops}, tensors : {acc[k].tensors}]
                                       /\ AbsorbedTo(graph, acc[k].ops, acc[k].tensors, k)}
<1>3. 0 \in G
  <2>1. \E h : Thinned(<<>>, AfterAbsorption(graph), {}, h)
    BY ThinEmpty
  <2>2. (1 .. 0) \ Consumed(graph) = {} /\ (1 .. 0) \cap Absorbing(graph) = {}
    OBVIOUS
  <2>3. /\ acc[0].ops = <<>> /\ acc[0].tensors = graph.tensors
        /\ acc[0] \in [ops : {acc[0].ops}, tensors : {acc[0].tensors}]
    BY <1>2
  <2>4. Repainted(graph, graph.tensors, {})
    <3>1. \A t \in DOMAIN graph.tensors : IsTensor(graph.tensors[t])
      BY GraphShape DEF Sound
    <3> QED BY <3>1 DEF Fresh, Repainted
  <2>5. AbsorbedTo(graph, acc[0].ops, acc[0].tensors, 0)
    BY <2>1, <2>2, <2>3, <2>4 DEF AbsorbedTo
  <2> QED BY <2>3, <2>5
<1>4. ASSUME NEW k \in Nat, k \in G PROVE k + 1 \in G
  <2> SUFFICES ASSUME k + 1 <= n
               PROVE  /\ acc[k + 1] \in [ops : {acc[k + 1].ops}, tensors : {acc[k + 1].tensors}]
                      /\ AbsorbedTo(graph, acc[k + 1].ops, acc[k + 1].tensors, k + 1)
    OBVIOUS
  <2>1. k <= n /\ k + 1 \in 1 .. n /\ (k + 1) - 1 = k
    BY <1>1
  <2>2. acc[k] \in [ops : {acc[k].ops}, tensors : {acc[k].tensors}] /\ AbsorbedTo(graph, acc[k].ops, acc[k].tensors, k)
    BY <1>4, <2>1
  <2>3. acc[k + 1] = AbsorbOp(graph, acc[k], k + 1)
    BY <1>2, <2>1
  <2>4. k + 1 \in DOMAIN graph.ops
    BY <2>1, <1>1
  <2> DEFINE a == acc[k]
             m == k + 1
  <2>5. /\ a \in [ops : {a.ops}, tensors : {a.tensors}] /\ AbsorbedTo(graph, a.ops, a.tensors, m - 1)
        /\ m \in DOMAIN graph.ops /\ acc[m] = AbsorbOp(graph, a, m)
    BY <2>1, <2>2, <2>3, <2>4
  <2> HIDE DEF a, m, n
  <2>6. /\ acc[m] \in [ops : {acc[m].ops}, tensors : {acc[m].tensors}]
        /\ AbsorbedTo(graph, acc[m].ops, acc[m].tensors, m)
    BY <2>5, AbsorbGoesOn
  <2> QED BY <2>6 DEF m
<1>5. n \in G
  <2> HIDE DEF G, n
  <2> QED BY <1>1, <1>3, <1>4, NatInductive
<1>6. AbsorbedTo(graph, acc[n].ops, acc[n].tensors, n)
  BY <1>1, <1>5
<1>7. (1 .. n) \cap Absorbing(graph) = Absorbing(graph)
  BY <1>1 DEF Absorbing
<1>8. PICK h : Thinned(acc[n].ops, AfterAbsorption(graph), (1 .. n) \ Consumed(graph), h)
  BY <1>6 DEF AbsorbedTo
<1>9. Repainted(graph, acc[n].tensors, Absorbing(graph))
  BY <1>6, <1>7 DEF AbsorbedTo
<1> HIDE DEF n
<1> QED BY <1>1, <1>2, <1>8, <1>9

\* The only place where t is read.
OnlyRead(graph, t, j, k) ==
  /\ j \in DOMAIN graph.ops /\ k \in DOMAIN graph.ops[j].ins /\ graph.ops[j].ins[k] = t
  /\ \A i \in DOMAIN graph.ops : \A l \in DOMAIN graph.ops[i].ins :
       graph.ops[i].ins[l] = t => i = j /\ l = k

\* Intervals are finite.
LEMMA FiniteDomains ==
  ASSUME NEW n \in Nat
  PROVE  IsFiniteSet(1 .. n)
<1>1. 1 \in Int /\ n \in Int
  OBVIOUS
<1> QED BY <1>1, FS_Interval

\* A count of one is one place that reads.
LEMMA OneConsumer ==
  ASSUME NEW graph, IsGraph(graph), NEW t
  PROVE  ConsumerCount(graph, t) = 1 <=> \E j, k : OnlyRead(graph, t, j, k)
<1> DEFINE S == {r \in Reads(graph) : graph.ops[r[1]].ins[r[2]] = t}
<1>1. \A i, k : <<i, k>> \in Reads(graph) <=> i \in DOMAIN graph.ops /\ k \in DOMAIN graph.ops[i].ins
  BY DEF Reads
<1>2. \A r \in Reads(graph) : r = <<r[1], r[2]>>
  BY DEF Reads
<1>3. IsFiniteSet(S)
  <2>1. DOMAIN graph.ops = 1 .. Len(graph.ops) /\ Len(graph.ops) \in Nat
    BY GraphShape
  <2> DEFINE n == Len(graph.ops)
             At(i) == {i} \X DOMAIN graph.ops[i].ins
             U == {At(i) : i \in 1 .. n}
  <2>2. IsFiniteSet(1 .. n)
    BY <2>1, FiniteDomains
  <2> DEFINE f == [i \in 1 .. n |-> At(i)]
  <2>3. IsFiniteSet(U)
    <3>1. f \in Surjection(1 .. n, U)
      BY DEF Surjection
    <3> HIDE DEF f, U
    <3> QED BY <2>2, <3>1, FS_Surjection
  <2>4. \A i \in 1 .. n : IsFiniteSet(At(i))
    <3> SUFFICES ASSUME NEW i \in 1 .. n PROVE IsFiniteSet(At(i))
      OBVIOUS
    <3>1. DOMAIN graph.ops[i].ins = 1 .. Len(graph.ops[i].ins) /\ Len(graph.ops[i].ins) \in Nat
      BY <2>1, GraphShape, OperatorShape
    <3>2. IsFiniteSet(DOMAIN graph.ops[i].ins) /\ IsFiniteSet({i})
      BY <3>1, FiniteDomains, FS_Singleton
    <3> QED BY <3>2, FS_Product
  <2>5. Reads(graph) = UNION U
    BY <2>1 DEF Reads
  <2>6. IsFiniteSet(UNION U)
    <3>1. \A V \in U : IsFiniteSet(V)
      BY <2>4
    <3> HIDE DEF U
    <3> QED BY <2>3, <3>1, FS_UNION
  <2> HIDE DEF U
  <2>7. S \subseteq UNION U
    BY <2>5
  <2> QED BY <2>6, <2>7, FS_Subset
<1>4. ASSUME Cardinality(S) = 1 PROVE \E j, k : OnlyRead(graph, t, j, k)
  <2>1. PICK r : S = {r}
    BY <1>3, <1>4, FS_Singleton
  <2>2. r \in Reads(graph) /\ graph.ops[r[1]].ins[r[2]] = t
    BY <2>1
  <2>3. r = <<r[1], r[2]>>
    BY <2>2, <1>2
  <2>4. r[1] \in DOMAIN graph.ops /\ r[2] \in DOMAIN graph.ops[r[1]].ins
    BY <2>2, <2>3, <1>1
  <2>5. ASSUME NEW i \in DOMAIN graph.ops, NEW l \in DOMAIN graph.ops[i].ins, graph.ops[i].ins[l] = t
        PROVE  i = r[1] /\ l = r[2]
    <3>1. <<i, l>> \in Reads(graph)
      BY <1>1
    <3>2. <<i, l>> \in S
      BY <3>1, <2>5
    <3>3. <<i, l>> = r
      BY <3>2, <2>1
    <3> QED BY <3>3
  <2>6. OnlyRead(graph, t, r[1], r[2])
    BY <2>2, <2>4, <2>5 DEF OnlyRead
  <2> QED BY <2>6
<1>5. ASSUME NEW j, NEW k, OnlyRead(graph, t, j, k) PROVE Cardinality(S) = 1
  <2>1. <<j, k>> \in Reads(graph) /\ graph.ops[j].ins[k] = t
    BY <1>1, <1>5 DEF OnlyRead
  <2>2. <<j, k>> \in S
    BY <2>1
  <2>3. \A r \in S : r = <<j, k>>
    <3> SUFFICES ASSUME NEW r \in S PROVE r = <<j, k>>
      OBVIOUS
    <3>1. r \in Reads(graph) /\ graph.ops[r[1]].ins[r[2]] = t /\ r = <<r[1], r[2]>>
      BY <1>2
    <3>2. r[1] \in DOMAIN graph.ops /\ r[2] \in DOMAIN graph.ops[r[1]].ins
      BY <3>1, <1>1
    <3>3. r[1] = j /\ r[2] = k
      BY <3>1, <3>2, <1>5 DEF OnlyRead
    <3> QED BY <3>1, <3>3
  <2> HIDE DEF S
  <2>4. S = {<<j, k>>}
    BY <2>2, <2>3
  <2> QED BY <2>4, FS_Singleton
<1> HIDE DEF S
<1> QED BY <1>4, <1>5 DEF ConsumerCount, S

\* A sequence of one.
LEMMA OneElement ==
  ASSUME NEW S, NEW x \in S
  PROVE  <<x>> \in Seq(S) /\ Len(<<x>>) = 1
OBVIOUS

\* The outputs of an operator with one output.
LEMMA SingletonOuts ==
  ASSUME NEW op \in Operations, DOMAIN op.outs = 1 .. 1
  PROVE  op.outs = <<op.outs[1]>> /\ Len(op.outs) = 1 /\ ToSet(op.outs) = {op.outs[1]}
<1>1. op.outs \in Seq(TensorNames) /\ Len(op.outs) \in Nat /\ DOMAIN op.outs = 1 .. Len(op.outs)
  BY OperatorShape
<1> DEFINE s == op.outs
<1>2. s \in Seq(TensorNames) /\ DOMAIN s = 1 .. 1 /\ Len(s) \in Nat /\ DOMAIN s = 1 .. Len(s)
  BY <1>1
<1> HIDE DEF s
<1>3. Len(s) = 1
  BY <1>2
<1>4. s[1] \in TensorNames
  <2>1. 1 \in 1 .. Len(s)
    BY <1>3
  <2> QED BY <1>2, <2>1, ElementOfSeq
<1>5. s = <<s[1]>>
  BY <1>2, <1>3, <1>4
<1>6. ToSet(s) = {s[1]}
  BY <1>2 DEF ToSet
<1> QED BY <1>3, <1>5, <1>6 DEF s

\* An operator that is not absorbed writes what it, or the one it absorbs, wrote.
LEMMA AbsorbedOperator ==
  ASSUME NEW graph, Sound(graph), NEW i \in DOMAIN graph.ops, i \notin Consumed(graph)
  PROVE  LET m == AfterAbsorption(graph)[i]
             w == IF i \in Absorbing(graph) THEN PartnerOf(graph, i) ELSE i
             old == graph.ops[i]
         IN  /\ m \in Operations /\ m.type = old.type /\ HasArity(m)
             /\ w \in DOMAIN graph.ops /\ i <= w /\ m.outs = graph.ops[w].outs
             /\ \A t \in ToSet(m.ins) :
                  \/ t \in ToSet(old.ins)
                  \/ i \in Absorbing(graph) /\ Len(old.ins) < 3 /\ t = NewBias(old)
             /\ Len(m.ins) \in {Len(old.ins), 3}
<1> DEFINE m == AfterAbsorption(graph)[i]
           w == IF i \in Absorbing(graph) THEN PartnerOf(graph, i) ELSE i
           old == graph.ops[i]
<1>1. m = IF i \in Absorbing(graph) THEN Fused(old, graph.ops[PartnerOf(graph, i)]) ELSE old
  BY DEF AfterAbsorption
<1>2. /\ old \in Operations /\ HasArity(old) /\ i \in Nat
      /\ \A k \in DOMAIN graph.ops : k \in Nat /\ graph.ops[k] \in Operations
  <2>1. DOMAIN graph.ops = 1 .. Len(graph.ops) /\ Len(graph.ops) \in Nat
    BY GraphShape DEF Sound
  <2> QED BY <2>1, SoundOperators, GraphShape DEF Sound
<1>3. CASE i \notin Absorbing(graph)
  <2>1. m = old /\ w = i
    BY <1>1, <1>3
  <2> HIDE DEF m, w, old
  <2>2. /\ m \in Operations /\ m.type = old.type /\ HasArity(m)
        /\ w \in DOMAIN graph.ops /\ i <= w /\ m.outs = graph.ops[w].outs
        /\ \A t \in ToSet(m.ins) : t \in ToSet(old.ins)
        /\ Len(m.ins) \in {Len(old.ins), 3}
    BY <2>1, <1>2 DEF old
  <2> QED BY <2>2 DEF old, m, w
<1>4. CASE i \in Absorbing(graph)
  <2>1. PICK j \in DOMAIN graph.ops : Absorbs(graph, i, j)
    BY <1>4 DEF Absorbing
  <2> DEFINE bn == graph.ops[j]
             ins == IF Len(old.ins) < 3 THEN Append(old.ins, NewBias(old)) ELSE old.ins
             outs == <<bn.outs[1]>>
  <2>2. /\ i < j /\ PartnerOf(graph, i) = j /\ old.type \in {"Conv", "Gemm"}
        /\ DOMAIN bn.outs = 1 .. 1 /\ DOMAIN old.outs = 1 .. 1 /\ Len(old.ins) \in {2, 3}
    BY <2>1, AbsorbFacts
  <2>3. w = j /\ i <= w /\ m = Fused(old, bn)
    BY <1>1, <1>2, <1>4, <2>2
  <2>4. bn \in Operations /\ bn.outs \in Seq(TensorNames) /\ bn.outs = outs /\ Len(outs) = 1
    <3>1. bn \in Operations
      BY <1>2
    <3> QED BY <3>1, <2>2, SingletonOuts, OperatorShape
  <2>5. old.ins \in Seq(TensorNames) /\ NewBias(old) \in TensorNames
    <3>1. old.outs \in Seq(TensorNames) /\ Len(old.outs) = 1 /\ old.ins \in Seq(TensorNames)
      BY <1>2, <2>2, SingletonOuts, OperatorShape
    <3>2. old.outs[1] \in TensorNames
      BY <3>1, ElementOfSeq
    <3>3. <<"absorbed">> \in Seq(Words)
      <4>1. "absorbed" \in Words
        BY DEF Words
      <4> QED BY <4>1, OneElement
    <3>4. <<"absorbed">> \o old.outs[1] \in TensorNames
      <4> DEFINE a == <<"absorbed">>
                 b == old.outs[1]
      <4>1. a \in Seq(Words) /\ b \in Seq(Words)
        BY <3>2, <3>3 DEF TensorNames
      <4> HIDE DEF a, b
      <4>2. a \o b \in Seq(Words)
        BY <4>1, ConcatProperties
      <4> QED BY <4>2 DEF a, b, TensorNames
    <3> QED BY <3>1, <3>4 DEF NewBias
  <2>6. /\ ins \in Seq(TensorNames) /\ Len(ins) \in {2, 3} /\ Len(ins) \in {Len(old.ins), 3}
        /\ \A t \in ToSet(ins) : t \in ToSet(old.ins) \/ (Len(old.ins) < 3 /\ t = NewBias(old))
    <3> DEFINE a == old.ins
               b == NewBias(old)
    <3>1. a \in Seq(TensorNames) /\ b \in TensorNames /\ Len(a) \in {2, 3}
      BY <2>2, <2>5
    <3>2. ins = IF Len(a) < 3 THEN Append(a, b) ELSE a
      OBVIOUS
    <3> HIDE DEF a, b, ins
    <3>3. CASE Len(a) < 3
      <4>1. /\ ins \in Seq(TensorNames) /\ Len(ins) = Len(a) + 1 /\ ins[Len(a) + 1] = b
            /\ \A k \in 1 .. Len(a) : ins[k] = a[k]
        BY <3>1, <3>2, <3>3, AppendProperties
      <4>2. Len(a) = 2 /\ Len(ins) = 3
        BY <4>1, <3>1, <3>3
      <4>3. DOMAIN ins = 1 .. 3 /\ DOMAIN a = 1 .. 2
        BY <4>1, <4>2, <3>1, LenProperties
      <4>4. ASSUME NEW t \in ToSet(ins) PROVE t \in ToSet(a) \/ t = b
        <5>1. PICK k \in 1 .. 3 : ins[k] = t
          BY <4>3 DEF ToSet
        <5>2. CASE k = 3
          BY <5>1, <5>2, <4>1, <4>2
        <5>3. CASE k # 3
          <6>1. k \in 1 .. 2
            BY <5>3
          <6>2. a[k] = t
            BY <6>1, <5>1, <4>1, <4>2
          <6> QED BY <6>1, <6>2, <4>3 DEF ToSet
        <5> QED BY <5>2, <5>3
      <4>5. /\ ins \in Seq(TensorNames) /\ Len(ins) \in {2, 3} /\ Len(ins) \in {Len(a), 3}
            /\ \A t \in ToSet(ins) : t \in ToSet(a) \/ (Len(a) < 3 /\ t = b)
        BY <4>1, <4>2, <4>4, <3>3
      <4> QED BY <4>5 DEF a, b
    <3>4. CASE ~(Len(a) < 3)
      <4>1. ins = a
        BY <3>2, <3>4
      <4>2. /\ ins \in Seq(TensorNames) /\ Len(ins) \in {2, 3} /\ Len(ins) \in {Len(a), 3}
            /\ \A t \in ToSet(ins) : t \in ToSet(a)
        BY <4>1, <3>1
      <4> QED BY <4>2 DEF a
    <3> QED BY <3>3, <3>4
  <2>7. m = [type |-> old.type, attr |-> old.attr, ins |-> ins, outs |-> outs]
    <3>1. m = [old EXCEPT !.outs = outs, !.ins = ins]
      BY <2>3 DEF Fused
    <3>2. old \in [type : Words, attr : Seq(STRING), ins : Seq(TensorNames), outs : Seq(TensorNames)]
      BY <1>2 DEF Operations
    <3> HIDE DEF m, old, ins, outs
    <3> QED BY <3>1, <3>2
  <2>8. m.type = old.type /\ m.ins = ins /\ m.outs = outs /\ m.attr = old.attr
    BY <2>7
  <2> HIDE DEF m, old, ins, outs, w, bn
  <2>9. m \in Operations
    <3>1. old.type \in Words /\ old.attr \in Seq(STRING)
      BY <1>2 DEF Operations
    <3>2. outs \in Seq(TensorNames)
      BY <2>4
    <3>3. ins \in Seq(TensorNames)
      BY <2>6
    <3> QED BY <3>1, <3>2, <3>3, <2>7 DEF Operations
  <2>10. HasArity(m)
    <3>1. outs # <<>>
      BY DEF outs
    <3>2. Arity["Conv"] = {2, 3} /\ Arity["Gemm"] = {2, 3}
      BY DEF Arity
    <3>3. Len(m.ins) \in Arity[m.type] /\ Len(m.outs) = 1
      BY <3>2, <2>2, <2>4, <2>6, <2>8
    <3>4. m.type \notin Evaluable /\ m.type # "Relu" /\ m.type # "Cast"
      BY <2>2, <2>8 DEF Evaluable
    <3> QED BY <3>1, <3>3, <3>4, <2>8 DEF HasArity
  <2>11. /\ m \in Operations /\ m.type = old.type /\ HasArity(m)
         /\ w \in DOMAIN graph.ops /\ i <= w /\ m.outs = graph.ops[w].outs
    BY <2>3, <2>4, <2>8, <2>9, <2>10 DEF bn
  <2>12. /\ \A t \in ToSet(m.ins) : t \in ToSet(old.ins) \/ (Len(old.ins) < 3 /\ t = NewBias(old))
         /\ Len(m.ins) \in {Len(old.ins), 3}
    BY <2>6, <2>8
  <2> QED BY <1>4, <2>11, <2>12 DEF old, w, m
<1> QED BY <1>3, <1>4

\* A tensor whose name is not its key leads from one product to one Relu.
Passing(graph, t) ==
  /\ t \in DOMAIN graph.tensors /\ ~IsConstant(graph.tensors, t)
  /\ t \notin graph.outputs /\ t \notin ToSet(graph.inputs)
  /\ \A i \in DOMAIN graph.ops :
       /\ t \in ToSet(graph.ops[i].outs) =>
            /\ graph.ops[i].type \in {"Conv", "Gemm"} /\ Len(graph.ops[i].outs) = 1
            /\ \E j \in DOMAIN graph.ops : t \in ToSet(graph.ops[j].ins)
       /\ t \in ToSet(graph.ops[i].ins) => graph.ops[i].type = "Relu"
  /\ \A i, j \in DOMAIN graph.ops :
       t \in ToSet(graph.ops[i].ins) /\ t \in ToSet(graph.ops[j].ins) => i = j

\* What compiles.
Healthy(graph) ==
  /\ Sound(graph) /\ Supplied(graph) /\ ~TooLarge(graph)
  /\ \A op \in ToSet(graph.ops) : op.type \in SupportedOps
  /\ \A t \in DOMAIN graph.tensors : graph.tensors[t].name # t => Passing(graph, t)

\* Where an absorbed BatchNorm's result goes.
LEMMA AbsorbsPlainly ==
  ASSUME NEW s, IsIngested(s), ~AbsorbsUnfused(s), NEW graph, Sound(graph), FoldPhase(s, graph),
         NEW i \in DOMAIN graph.ops, NEW j \in DOMAIN graph.ops, Absorbs(graph, i, j)
  PROVE  LET t == graph.ops[j].outs[1]
         IN  /\ t \notin graph.outputs /\ graph.ops[i].outs[1] \notin graph.outputs
             /\ t \notin ToSet(graph.inputs)
             /\ \A k \in DOMAIN graph.ops : t \in ToSet(graph.ops[k].ins) => graph.ops[k].type = "Relu"
             /\ \E m, l : OnlyRead(graph, t, m, l)
<1> DEFINE t == graph.ops[j].outs[1]
<1>1. /\ graph.ops[i].type \in {"Conv", "Gemm"} /\ graph.ops[j].type = "BatchNormalization"
      /\ graph.ops[i].outs[1] = graph.ops[j].ins[1]
  BY AbsorbFacts
<1>2. \A k \in DOMAIN graph.ops : \E a \in DOMAIN s.ops : s.ops[a] = graph.ops[k]
  <2>1. IsGraph(s)
    BY SourceSound DEF Sound
  <2>2. \A k \in DOMAIN graph.ops : graph.ops[k] \in ToSet(s.ops)
    BY GraphShape DEF Sound, FoldPhase
  <2> QED BY <2>1, <2>2, GraphShape
<1>3. PICK a \in DOMAIN s.ops : s.ops[a] = graph.ops[i]
  BY <1>2
<1>4. PICK b \in DOMAIN s.ops : s.ops[b] = graph.ops[j]
  BY <1>2
<1>5. /\ {t, graph.ops[i].outs[1]} \cap s.outputs = {}
      /\ ConsumerCount(s, t) = 1
      /\ \A k \in DOMAIN s.ops : t \in ToSet(s.ops[k].ins) => s.ops[k].type = "Relu"
  BY <1>1, <1>3, <1>4 DEF AbsorbsUnfused
<1>6. t \notin ToSet(graph.inputs)
  <2>1. t \in ToSet(graph.ops[j].outs)
    BY SoundOperators
  <2>2. graph.ops[j] \in ToSet(s.ops)
    BY GraphShape DEF Sound, FoldPhase
  <2> QED BY <2>1, <2>2 DEF IsIngested, FoldPhase
<1>7. \A k \in DOMAIN graph.ops : t \in ToSet(graph.ops[k].ins) => graph.ops[k].type = "Relu"
  BY <1>2, <1>5
<1>8. PICK c, l : OnlyRead(s, t, c, l)
  BY <1>5, SourceSound, OneConsumer DEF Sound
<1>9. c \in DOMAIN s.ops /\ s.ops[c] \in ToSet(s.ops) /\ s.ops[c].type = "Relu" /\ l \in DOMAIN s.ops[c].ins
      /\ s.ops[c].ins[l] = t
  <2>1. c \in DOMAIN s.ops /\ l \in DOMAIN s.ops[c].ins /\ s.ops[c].ins[l] = t
    BY <1>8 DEF OnlyRead
  <2>2. t \in ToSet(s.ops[c].ins)
    BY <2>1 DEF ToSet
  <2>3. s.ops[c] \in ToSet(s.ops)
    BY <2>1, SourceSound, GraphShape DEF Sound
  <2> QED BY <2>1, <2>2, <2>3, <1>5
<1>10. s.ops[c] \in ToSet(graph.ops)
  <2>1. s.ops[c].type \notin Evaluable
    BY <1>9 DEF Evaluable
  <2> QED BY <2>1, <1>9 DEF FoldPhase
<1>11. PICK m \in DOMAIN graph.ops : graph.ops[m] = s.ops[c]
  BY <1>10, GraphShape DEF Sound
<1>12. ASSUME NEW k \in DOMAIN graph.ops, NEW x \in DOMAIN graph.ops[k].ins, graph.ops[k].ins[x] = t
       PROVE  k = m /\ x = l
  <2>1. PICK d \in DOMAIN s.ops : s.ops[d] = graph.ops[k]
    BY <1>2
  <2>2. d = c /\ x = l
    BY <2>1, <1>8, <1>12 DEF OnlyRead
  <2>3. graph.ops[k] = graph.ops[m] /\ 1 \in DOMAIN graph.ops[k].outs
    BY <2>1, <2>2, <1>11, SoundOperators
  <2>4. k = m
    BY <2>3 DEF Sound, InOrder
  <2> QED BY <2>2, <2>4
<1>13. OnlyRead(graph, t, m, l)
  BY <1>9, <1>11, <1>12 DEF OnlyRead
<1> QED BY <1>5, <1>6, <1>7, <1>13 DEF FoldPhase

\* The list after absorption.
ListAfter(graph, ops, h) ==
  /\ ops \in Seq(Operations) /\ DOMAIN ops = 1 .. Len(ops) /\ Len(ops) \in Nat
  /\ \A p \in DOMAIN ops : /\ h[p] \in DOMAIN graph.ops /\ h[p] \notin Consumed(graph)
                           /\ ops[p] = AfterAbsorption(graph)[h[p]]
  /\ \A op \in ToSet(ops) :
       \E k \in (DOMAIN graph.ops) \ Consumed(graph) : op = AfterAbsorption(graph)[k]
  /\ \A k \in (DOMAIN graph.ops) \ Consumed(graph) : AfterAbsorption(graph)[k] \in ToSet(ops)

\* What absorption leaves, in order, each by what it was.
LEMMA AbsorbedList ==
  ASSUME NEW graph, Sound(graph), NEW ops, NEW h,
         Thinned(ops, AfterAbsorption(graph), (DOMAIN graph.ops) \ Consumed(graph), h)
  PROVE  ListAfter(graph, ops, h)
<1> DEFINE m == AfterAbsorption(graph)
           keep == (DOMAIN graph.ops) \ Consumed(graph)
<1>1. /\ DOMAIN ops = 1 .. Len(ops) /\ Len(ops) \in Nat /\ ops = [p \in 1 .. Len(ops) |-> ops[p]]
      /\ \A p \in DOMAIN ops : h[p] \in keep /\ ops[p] = m[h[p]]
      /\ \A k \in keep : \E p \in DOMAIN ops : h[p] = k
  BY DEF Thinned
<1>2. \A k \in keep : m[k] \in Operations
  BY AbsorbedOperator
<1> HIDE DEF m
<1>3. ops \in Seq(Operations)
  <2>1. \A p \in 1 .. Len(ops) : ops[p] \in Operations
    BY <1>1, <1>2
  <2>2. ops \in [1 .. Len(ops) -> Operations]
    BY <1>1, <2>1
  <2> QED BY <1>1, <2>2
<1>4. \A op \in ToSet(ops) : \E k \in keep : op = m[k]
  BY <1>1 DEF ToSet
<1>5. \A k \in keep : m[k] \in ToSet(ops)
  BY <1>1 DEF ToSet
<1> QED BY <1>1, <1>3, <1>4, <1>5 DEF m, ListAfter

\* Absorption leaves a sound graph.
LEMMA AbsorbedSound ==
  ASSUME NEW graph, Sound(graph), Fresh(graph), NEW ops, NEW ts, NEW h,
         Thinned(ops, AfterAbsorption(graph), (DOMAIN graph.ops) \ Consumed(graph), h),
         Repainted(graph, ts, Absorbing(graph))
  PROVE  Sound([graph EXCEPT !.tensors = ts, !.ops = ops])
<1> DEFINE new == [graph EXCEPT !.tensors = ts, !.ops = ops]
           m == AfterAbsorption(graph)
           keep == (DOMAIN graph.ops) \ Consumed(graph)
           Whose(i) == IF i \in Absorbing(graph) THEN PartnerOf(graph, i) ELSE i
<1>1. /\ ops \in Seq(Operations) /\ DOMAIN ops = 1 .. Len(ops) /\ Len(ops) \in Nat
      /\ \A p \in DOMAIN ops : h[p] \in keep /\ ops[p] = m[h[p]]
      /\ \A op \in ToSet(ops) : \E k \in keep : op = m[k]
  <2>1. ListAfter(graph, ops, h)
    BY AbsorbedList
  <2>2. \A p \in DOMAIN ops : h[p] \in keep /\ ops[p] = m[h[p]]
    BY <2>1 DEF ListAfter
  <2>3. \A op \in ToSet(ops) : \E k \in keep : op = m[k]
    BY <2>1 DEF ListAfter
  <2> QED BY <2>1, <2>2, <2>3 DEF ListAfter
<1>2. /\ new.ops = ops /\ new.tensors = ts /\ new.inputs = graph.inputs /\ new.outputs = graph.outputs
      /\ new \in [ops : Seq(Operations), tensors : {new.tensors},
                  inputs : Seq(TensorNames), outputs : SUBSET TensorNames]
  BY <1>1 DEF Sound, IsGraph
<1>3. \A k \in keep : /\ m[k] \in Operations /\ HasArity(m[k])
                      /\ Whose(k) \in DOMAIN graph.ops /\ k <= Whose(k) /\ m[k].outs = graph.ops[Whose(k)].outs
                      /\ \A t \in ToSet(m[k].ins) :
                           \/ t \in ToSet(graph.ops[k].ins)
                           \/ k \in Absorbing(graph) /\ Len(graph.ops[k].ins) < 3 /\ t = NewBias(graph.ops[k])
  BY AbsorbedOperator
<1>4. /\ DOMAIN graph.tensors \subseteq DOMAIN ts
      /\ \A t \in DOMAIN ts : IsTensor(ts[t])
      /\ \A t \in DOMAIN graph.tensors : ts[t].val = NoValue <=> graph.tensors[t].val = NoValue
      /\ \A i \in Absorbing(graph) : Len(graph.ops[i].ins) < 3 => NewBias(graph.ops[i]) \in DOMAIN ts
  BY DEF Repainted
<1> HIDE DEF new, m
<1>5. IsGraph(new)
  BY <1>2, <1>4 DEF IsGraph
<1>6. NamesKnown(new)
  <2> SUFFICES ASSUME NEW t \in ToSet(new.inputs) \cup new.outputs
                        \cup UNION {ToSet(op.ins) \cup ToSet(op.outs) : op \in ToSet(new.ops)}
               PROVE  t \in DOMAIN new.tensors
    BY DEF NamesKnown
  <2>1. CASE t \in ToSet(new.inputs) \cup new.outputs
    BY <2>1, <1>2, <1>4 DEF Sound, NamesKnown
  <2>2. CASE t \in UNION {ToSet(op.ins) \cup ToSet(op.outs) : op \in ToSet(new.ops)}
    <3>1. PICK k \in keep : t \in ToSet(m[k].ins) \cup ToSet(m[k].outs)
      BY <2>2, <1>1, <1>2
    <3>2. CASE t \in ToSet(m[k].outs)
      <4>1. t \in DOMAIN graph.tensors
        BY <3>2, <1>3, SoundOperators
      <4> QED BY <4>1, <1>2, <1>4
    <3>3. CASE t \in ToSet(graph.ops[k].ins)
      <4>1. t \in DOMAIN graph.tensors
        BY <3>3, SoundOperators
      <4> QED BY <4>1, <1>2, <1>4
    <3>4. CASE k \in Absorbing(graph) /\ Len(graph.ops[k].ins) < 3 /\ t = NewBias(graph.ops[k])
      BY <3>4, <1>2, <1>4
    <3> QED BY <3>1, <3>2, <3>3, <3>4, <1>3
  <2> QED BY <2>1, <2>2
<1>7. InOrder(new)
  <2> DEFINE n == Len(ops)
             w == [p \in 1 .. n |-> Whose(h[p])]
  <2>1. /\ n \in Nat /\ DOMAIN new.ops = 1 .. n /\ DOMAIN graph.ops \subseteq Int
        /\ \A p \in 1 .. n : h[p] \in keep /\ new.ops[p] = m[h[p]] /\ h[p] \in DOMAIN graph.ops
        /\ h \in [1 .. n -> DOMAIN graph.ops]
        /\ \A p, q \in 1 .. n : p < q => h[p] < h[q]
    <3>1. DOMAIN graph.ops = 1 .. Len(graph.ops) /\ Len(graph.ops) \in Nat
      BY GraphShape DEF Sound
    <3> QED BY <3>1, <1>1, <1>2 DEF Thinned
  <2>2. w \in [1 .. n -> DOMAIN graph.ops] /\ \A p \in 1 .. n : w[p] = Whose(h[p])
    BY <2>1, <1>3
  <2>3. ASSUME NEW p \in 1 .. n, NEW q \in 1 .. n, w[p] = w[q] PROVE p = q
    <3>1. h[p] \in keep /\ h[q] \in keep /\ Whose(h[p]) = Whose(h[q])
      BY <2>1, <2>2, <2>3
    <3>2. ASSUME NEW i \in keep, i \in Absorbing(graph) PROVE Whose(i) \in Consumed(graph) /\ Absorbs(graph, i, Whose(i))
      <4>1. PICK j \in DOMAIN graph.ops : Absorbs(graph, i, j)
        BY <3>2 DEF Absorbing
      <4>2. PartnerOf(graph, i) = j
        BY <4>1, AbsorbFacts
      <4> QED BY <4>1, <4>2, <3>2 DEF Consumed
    <3>3. h[p] = h[q]
      <4>1. CASE h[p] \in Absorbing(graph) /\ h[q] \in Absorbing(graph)
        <5>1. Absorbs(graph, h[p], Whose(h[p])) /\ Absorbs(graph, h[q], Whose(h[p])) /\ Whose(h[p]) \in DOMAIN graph.ops
          BY <4>1, <3>1, <3>2, <1>3
        <5> DEFINE a == h[p]
                   b == h[q]
                   c == Whose(h[p])
        <5>2. a \in DOMAIN graph.ops /\ b \in DOMAIN graph.ops /\ c \in DOMAIN graph.ops /\ Absorbs(graph, a, c) /\ Absorbs(graph, b, c)
          BY <5>1, <2>1
        <5> HIDE DEF a, b, c
        <5>3. b = a
          BY <5>2, AbsorbFacts
        <5> QED BY <5>3 DEF a, b
      <4>2. CASE h[p] \notin Absorbing(graph) /\ h[q] \notin Absorbing(graph)
        BY <4>2, <3>1
      <4>3. CASE h[p] \in Absorbing(graph) /\ h[q] \notin Absorbing(graph)
        <5>1. h[q] \in Consumed(graph)
          BY <4>3, <3>1, <3>2
        <5> QED BY <5>1, <3>1
      <4>4. CASE h[p] \notin Absorbing(graph) /\ h[q] \in Absorbing(graph)
        <5>1. h[p] \in Consumed(graph)
          BY <4>4, <3>1, <3>2
        <5> QED BY <5>1, <3>1
      <4> QED BY <4>1, <4>2, <4>3, <4>4
    <3>4. h[p] \in Int /\ h[q] \in Int /\ p \in Int /\ q \in Int
      BY <2>1
    <3>5. p < q => h[p] < h[q]
      BY <2>1
    <3>6. q < p => h[q] < h[p]
      BY <2>1
    <3> HIDE DEF n
    <3> QED BY <3>3, <3>4, <3>5, <3>6
  <2>4. \A p \in 1 .. n : /\ h[p] <= w[p]
                          /\ new.ops[p].outs = graph.ops[w[p]].outs
                          /\ \A t \in ToSet(new.ops[p].ins) :
                               \/ t \in ToSet(graph.ops[h[p]].ins)
                               \/ \A i \in DOMAIN graph.ops : t \notin ToSet(graph.ops[i].outs)
    <3> SUFFICES ASSUME NEW p \in 1 .. n
                 PROVE  /\ h[p] <= w[p]
                        /\ new.ops[p].outs = graph.ops[w[p]].outs
                        /\ \A t \in ToSet(new.ops[p].ins) :
                             \/ t \in ToSet(graph.ops[h[p]].ins)
                             \/ \A i \in DOMAIN graph.ops : t \notin ToSet(graph.ops[i].outs)
      OBVIOUS
    <3> DEFINE k == h[p]
    <3>1. k \in keep /\ new.ops[p] = m[k] /\ w[p] = Whose(k)
      BY <2>1, <2>2
    <3>2. k <= Whose(k) /\ m[k].outs = graph.ops[Whose(k)].outs
      BY <3>1, <1>3
    <3>3. \A t \in ToSet(m[k].ins) :
                           \/ t \in ToSet(graph.ops[k].ins)
                           \/ t = NewBias(graph.ops[k])
      BY <3>1, <1>3
    <3>4. \A i \in DOMAIN graph.ops : NewBias(graph.ops[k]) \notin ToSet(graph.ops[i].outs)
      <4>1. NewBias(graph.ops[k]) \notin DOMAIN graph.tensors
        BY <3>1, GraphShape DEF Sound, Fresh
      <4> QED BY <4>1, SoundOperators
    <3> HIDE DEF k, w, n
    <3>5. \A t \in ToSet(new.ops[p].ins) :
             \/ t \in ToSet(graph.ops[k].ins)
             \/ \A i \in DOMAIN graph.ops : t \notin ToSet(graph.ops[i].outs)
      BY <3>1, <3>3, <3>4
    <3> QED BY <3>1, <3>2, <3>5 DEF k
  <2> HIDE DEF n, w, keep, Whose
  <2> QED BY <2>1, <2>2, <2>3, <2>4, OrderKept DEF Sound
<1>8. ASSUME NEW op \in ToSet(new.ops)
      PROVE  HasArity(op) /\ \A t \in ToSet(op.outs) : ~IsConstant(new.tensors, t)
  <2>1. PICK k \in keep : op = m[k]
    BY <1>1, <1>2
  <2>2. ASSUME NEW t \in ToSet(op.outs) PROVE ~IsConstant(new.tensors, t)
    <3>1. t \in ToSet(graph.ops[Whose(k)].outs) /\ Whose(k) \in DOMAIN graph.ops
      BY <2>1, <1>3
    <3>2. t \in DOMAIN graph.tensors /\ ~IsConstant(graph.tensors, t)
      BY <3>1, SoundOperators
    <3> QED BY <3>2, <1>2, <1>4 DEF IsConstant
  <2> QED BY <2>1, <2>2, <1>3
<1>9. Sound(new)
  BY <1>5, <1>6, <1>7, <1>8 DEF Sound
<1> QED BY <1>9 DEF new

\* No name that absorption makes up is in use before it.
LEMMA FoldedFresh ==
  ASSUME NEW s, IsIngested(s), NEW graph, Sound(graph), FoldPhase(s, graph)
  PROVE  Fresh(graph)
<1>1. \A t \in DOMAIN graph.tensors : graph.tensors[t].name = t
  BY DEF FoldPhase
<1>2. ASSUME NEW op \in ToSet(graph.ops) PROVE NewBias(op) \notin DOMAIN graph.tensors
  <2>1. op \in ToSet(s.ops) /\ DOMAIN graph.tensors = DOMAIN s.tensors
    BY DEF FoldPhase
  <2> QED BY <2>1 DEF IsIngested
<1> QED BY <1>1, <1>2 DEF Fresh

\* The operator that writes a tensor is there, or the one that has absorbed it.
LEMMA WriterKept ==
  ASSUME NEW graph, Sound(graph), NEW ops, NEW h, ListAfter(graph, ops, h),
         NEW a \in DOMAIN graph.ops, a \notin Absorbing(graph), NEW t \in ToSet(graph.ops[a].outs)
  PROVE  \E op \in ToSet(ops) : t \in ToSet(op.outs)
<1> DEFINE m == AfterAbsorption(graph)
<1>1. ASSUME NEW i \in DOMAIN graph.ops, i \notin Consumed(graph), m[i].outs = graph.ops[a].outs
      PROVE  \E op \in ToSet(ops) : t \in ToSet(op.outs)
  <2>1. m[i] \in ToSet(ops)
    BY <1>1 DEF ListAfter
  <2> QED BY <1>1, <2>1
<1>2. CASE a \in Consumed(graph)
  <2>1. PICK i \in DOMAIN graph.ops : Absorbs(graph, i, a)
    BY <1>2 DEF Consumed
  <2>2. PartnerOf(graph, i) = a /\ i \notin Consumed(graph) /\ i \in Absorbing(graph)
    BY <2>1, AbsorbFacts DEF Absorbing
  <2>3. m[i].outs = graph.ops[a].outs
    BY <2>2, AbsorbedOperator
  <2> QED BY <2>2, <2>3, <1>1
<1>3. CASE a \notin Consumed(graph)
  <2>1. m[a].outs = graph.ops[a].outs
    BY <1>3, AbsorbedOperator
  <2> QED BY <2>1, <1>1, <1>3
<1> QED BY <1>2, <1>3

\* No result that an absorbed operator leaves behind is wanted.
LEMMA AbsorbedSupplied ==
  ASSUME NEW graph, Sound(graph), Fresh(graph), Supplied(graph), NEW ops, NEW ts, NEW h,
         ListAfter(graph, ops, h), Repainted(graph, ts, Absorbing(graph)),
         \A i, j \in DOMAIN graph.ops : Absorbs(graph, i, j) => graph.ops[i].outs[1] \notin graph.outputs,
         NEW new, new.ops = ops, new.tensors = ts, new.inputs = graph.inputs, new.outputs = graph.outputs
  PROVE  Supplied(new)
<1> DEFINE m == AfterAbsorption(graph)
<1>1. ASSUME NEW t, t \in graph.outputs \/ \E k \in DOMAIN graph.ops : k \notin Consumed(graph) /\ t \in ToSet(graph.ops[k].ins)
      PROVE  \/ t \in ToSet(new.inputs) \/ IsConstant(new.tensors, t)
             \/ \E op \in ToSet(new.ops) : t \in ToSet(op.outs)
  <2>1. t \in graph.outputs \cup UNION {ToSet(op.ins) : op \in ToSet(graph.ops)}
    BY <1>1, GraphShape DEF Sound
  <2>2. \/ t \in ToSet(graph.inputs) \/ IsConstant(graph.tensors, t)
        \/ \E op \in ToSet(graph.ops) : t \in ToSet(op.outs)
    BY <2>1 DEF Supplied
  <2>3. CASE IsConstant(graph.tensors, t)
    BY <2>3 DEF IsConstant, Repainted
  <2>4. CASE \E op \in ToSet(graph.ops) : t \in ToSet(op.outs)
    <3>1. PICK a \in DOMAIN graph.ops : t \in ToSet(graph.ops[a].outs)
      <4>1. PICK op \in ToSet(graph.ops) : t \in ToSet(op.outs)
        BY <2>4
      <4>2. \E k \in DOMAIN graph.ops : graph.ops[k] = op
        BY GraphShape DEF Sound
      <4> QED BY <4>1, <4>2
    <3>2. a \notin Absorbing(graph)
      <4> SUFFICES ASSUME a \in Absorbing(graph) PROVE FALSE
        OBVIOUS
      <4>1. PICK j \in DOMAIN graph.ops : Absorbs(graph, a, j)
        BY DEF Absorbing
      <4>2. DOMAIN graph.ops[a].outs = 1 .. 1
        BY <4>1, AbsorbFacts
      <4>3. t = graph.ops[a].outs[1]
        BY <4>2, <3>1 DEF ToSet
      <4>4. t \notin graph.outputs
        BY <4>1, <4>3
      <4>5. PICK k \in DOMAIN graph.ops : k \notin Consumed(graph) /\ t \in ToSet(graph.ops[k].ins)
        BY <4>4, <1>1
      <4>6. a < k
        <5>1. ToSet(graph.ops[a].outs) \cap ToSet(graph.ops[k].ins) # {}
          BY <3>1, <4>5
        <5> QED BY <5>1 DEF Sound, InOrder
      <4>7. a \in Int /\ k \in Int
        BY GraphShape DEF Sound
      <4>8. k > a /\ graph.ops[a].outs[1] \in ToSet(graph.ops[k].ins)
        BY <4>3, <4>5, <4>6, <4>7
      <4>9. k = j
        BY <4>1, <4>8, AbsorbFacts
      <4> QED BY <4>1, <4>5, <4>9 DEF Consumed
    <3> QED BY <3>1, <3>2, WriterKept
  <2> QED BY <2>2, <2>3, <2>4
<1>2. ASSUME NEW op \in ToSet(new.ops), NEW t \in ToSet(op.ins)
      PROVE  \/ t \in ToSet(new.inputs) \/ IsConstant(new.tensors, t)
             \/ \E o \in ToSet(new.ops) : t \in ToSet(o.outs)
  <2>1. PICK k \in DOMAIN graph.ops : k \notin Consumed(graph) /\ op = m[k]
    BY DEF ListAfter
  <2>2. \/ t \in ToSet(graph.ops[k].ins)
        \/ k \in Absorbing(graph) /\ Len(graph.ops[k].ins) < 3 /\ t = NewBias(graph.ops[k])
    BY <2>1, AbsorbedOperator
  <2>3. CASE k \in Absorbing(graph) /\ Len(graph.ops[k].ins) < 3 /\ t = NewBias(graph.ops[k])
    <3>1. t \in DOMAIN ts
      BY <2>3 DEF Repainted
    <3>2. t \notin DOMAIN graph.tensors
      BY <2>3, GraphShape DEF Fresh, Sound
    <3>3. ts[t].val # NoValue
      BY <3>1, <3>2 DEF Repainted
    <3> QED BY <3>1, <3>3 DEF IsConstant
  <2>4. CASE t \in ToSet(graph.ops[k].ins)
    BY <2>4, <2>1, <1>1
  <2> QED BY <2>2, <2>3, <2>4
<1>3. \A t \in new.outputs : \/ t \in ToSet(new.inputs) \/ IsConstant(new.tensors, t)
             \/ \E op \in ToSet(new.ops) : t \in ToSet(op.outs)
  BY <1>1
<1> QED BY <1>2, <1>3 DEF Supplied

\* A tensor that got another name leads to the Relu behind the BatchNorm.
LEMMA AbsorbedPassing ==
  ASSUME NEW s, IsIngested(s), ~AbsorbsUnfused(s), NEW graph, Sound(graph), FoldPhase(s, graph),
         NEW ops, NEW ts, NEW h,
         Thinned(ops, AfterAbsorption(graph), (DOMAIN graph.ops) \ Consumed(graph), h),
         Repainted(graph, ts, Absorbing(graph)),
         NEW new, new.ops = ops, new.tensors = ts, new.inputs = graph.inputs, new.outputs = graph.outputs,
         NEW t \in DOMAIN ts, ts[t].name # t
  PROVE  Passing(new, t)
<1> DEFINE m == AfterAbsorption(graph)
<1>1. PICK i \in DOMAIN graph.ops : i \in Absorbing(graph) /\ t = graph.ops[PartnerOf(graph, i)].outs[1]
  BY DEF Repainted, Absorbing
<1>2. PICK j \in DOMAIN graph.ops : Absorbs(graph, i, j)
  BY <1>1 DEF Absorbing
<1>3. t = graph.ops[j].outs[1] /\ graph.ops[j].type = "BatchNormalization" /\ j \in Consumed(graph)
      /\ PartnerOf(graph, i) = j
  BY <1>1, <1>2, AbsorbFacts DEF Consumed
<1>4. /\ t \notin graph.outputs
      /\ t \notin ToSet(graph.inputs)
      /\ \A k \in DOMAIN graph.ops : t \in ToSet(graph.ops[k].ins) => graph.ops[k].type = "Relu"
      /\ \E c, l : OnlyRead(graph, t, c, l)
  BY <1>2, <1>3, AbsorbsPlainly
<1>5. PICK c, l : OnlyRead(graph, t, c, l)
  BY <1>4
<1>6. t \in ToSet(graph.ops[j].outs) /\ t \in DOMAIN graph.tensors /\ ~IsConstant(graph.tensors, t)
  BY <1>3, SoundOperators
<1>7. ~IsConstant(ts, t)
  BY <1>6 DEF Repainted, IsConstant
<1>8. ListAfter(graph, ops, h)
  BY AbsorbedList
<1>9. \A p \in DOMAIN ops : h[p] \in DOMAIN graph.ops /\ h[p] \notin Consumed(graph) /\ ops[p] = m[h[p]]
  BY <1>8 DEF ListAfter
<1>10. \A k \in DOMAIN graph.ops : Absorbs(graph, k, j) => k = i
  BY <1>2, AbsorbFacts
<1>11. ASSUME NEW k \in DOMAIN graph.ops, k \notin Consumed(graph), t \in ToSet(m[k].ins)
       PROVE  k = c /\ m[k].type = "Relu"
  <2>1. t \in ToSet(graph.ops[k].ins)
    <3>1. \/ t \in ToSet(graph.ops[k].ins) \/ t = NewBias(graph.ops[k])
      BY <1>11, AbsorbedOperator
    <3>2. NewBias(graph.ops[k]) \notin DOMAIN graph.tensors
      BY FoldedFresh, GraphShape DEF Fresh, Sound
    <3> QED BY <3>1, <3>2, <1>6
  <2>2. graph.ops[k].type = "Relu" /\ m[k].type = graph.ops[k].type
    BY <2>1, <1>4, <1>11, AbsorbedOperator
  <2>3. PICK x \in DOMAIN graph.ops[k].ins : graph.ops[k].ins[x] = t
    BY <2>1 DEF ToSet
  <2> QED BY <2>2, <2>3, <1>5 DEF OnlyRead
<1>12. ASSUME NEW k \in DOMAIN graph.ops, k \notin Consumed(graph), t \in ToSet(m[k].outs)
       PROVE  m[k].type \in {"Conv", "Gemm"} /\ Len(m[k].outs) = 1
  <2> DEFINE w == IF k \in Absorbing(graph) THEN PartnerOf(graph, k) ELSE k
  <2>1. w \in DOMAIN graph.ops /\ m[k].outs = graph.ops[w].outs /\ m[k].type = graph.ops[k].type
    BY <1>12, AbsorbedOperator
  <2>2. w = j
    <3>1. PICK x \in DOMAIN graph.ops[w].outs : graph.ops[w].outs[x] = t
      BY <1>12, <2>1 DEF ToSet
    <3>2. 1 \in DOMAIN graph.ops[j].outs
      BY SoundOperators
    <3> HIDE DEF w
    <3> QED BY <3>1, <3>2, <1>3, <2>1 DEF Sound, InOrder
  <2>3. k \in Absorbing(graph)
    BY <2>2, <1>3, <1>12
  <2>4. Absorbs(graph, k, j)
    <3>1. PICK a \in DOMAIN graph.ops : Absorbs(graph, k, a)
      BY <2>3 DEF Absorbing
    <3>2. a = j
      BY <3>1, <2>2, <2>3, AbsorbFacts
    <3> QED BY <3>1, <3>2
  <2>5. graph.ops[k].type \in {"Conv", "Gemm"} /\ DOMAIN graph.ops[j].outs = 1 .. 1
        /\ graph.ops[j] \in Operations
    BY <2>4, AbsorbFacts, GraphShape DEF Sound
  <2>6. Len(graph.ops[j].outs) = 1
    BY <2>5, SingletonOuts
  <2> QED BY <2>1, <2>2, <2>5, <2>6
<1>13. c \in DOMAIN graph.ops /\ t \in ToSet(graph.ops[c].ins) /\ graph.ops[c].type = "Relu"
  <2>1. c \in DOMAIN graph.ops /\ l \in DOMAIN graph.ops[c].ins /\ graph.ops[c].ins[l] = t
    BY <1>5 DEF OnlyRead
  <2>2. t \in ToSet(graph.ops[c].ins)
    BY <2>1 DEF ToSet
  <2> QED BY <2>1, <2>2, <1>4
<1>14. c \notin Consumed(graph) /\ c \notin Absorbing(graph)
  <2>1. c \notin Consumed(graph)
    <3> SUFFICES ASSUME c \in Consumed(graph) PROVE FALSE
      OBVIOUS
    <3>1. PICK a \in DOMAIN graph.ops : Absorbs(graph, a, c)
      BY DEF Consumed
    <3>2. graph.ops[c].type = "BatchNormalization"
      BY <3>1, <1>13, AbsorbFacts
    <3> QED BY <3>2, <1>13
  <2>2. c \notin Absorbing(graph)
    <3> SUFFICES ASSUME c \in Absorbing(graph) PROVE FALSE
      OBVIOUS
    <3>1. PICK a \in DOMAIN graph.ops : Absorbs(graph, c, a)
      BY DEF Absorbing
    <3>2. graph.ops[c].type \in {"Conv", "Gemm"}
      BY <3>1, <1>13, AbsorbFacts
    <3> QED BY <3>2, <1>13
  <2> QED BY <2>1, <2>2
<1>15. \E q \in DOMAIN ops : t \in ToSet(ops[q].ins)
  <2>1. m[c] = graph.ops[c]
    BY <1>13, <1>14 DEF AfterAbsorption
  <2>2. m[c] \in ToSet(ops)
    BY <1>8, <1>13, <1>14 DEF ListAfter
  <2>3. PICK q \in DOMAIN ops : ops[q] = m[c]
    BY <2>2 DEF ToSet
  <2> QED BY <2>1, <2>3, <1>13
<1>16. \A p, q \in DOMAIN ops : h[p] = h[q] => p = q
  <2> SUFFICES ASSUME NEW p \in DOMAIN ops, NEW q \in DOMAIN ops, h[p] = h[q] PROVE p = q
    OBVIOUS
  <2>1. p \in Int /\ q \in Int /\ h[p] \in Int /\ h[q] \in Int
    <3>1. DOMAIN graph.ops = 1 .. Len(graph.ops) /\ Len(graph.ops) \in Nat
      BY GraphShape DEF Sound
    <3> QED BY <3>1, <1>9 DEF Thinned
  <2>2. /\ p < q => h[p] < h[q]
        /\ q < p => h[q] < h[p]
    BY DEF Thinned
  <2> QED BY <2>1, <2>2
<1>17. \A p \in DOMAIN ops :
         /\ t \in ToSet(ops[p].outs) =>
              /\ ops[p].type \in {"Conv", "Gemm"} /\ Len(ops[p].outs) = 1
              /\ \E q \in DOMAIN ops : t \in ToSet(ops[q].ins)
         /\ t \in ToSet(ops[p].ins) => ops[p].type = "Relu"
  BY <1>9, <1>11, <1>12, <1>15
<1>18. \A p, q \in DOMAIN ops : t \in ToSet(ops[p].ins) /\ t \in ToSet(ops[q].ins) => p = q
  BY <1>9, <1>11, <1>16
<1> QED BY <1>4, <1>7, <1>17, <1>18 DEF Passing

\* Absorption of a graph without excuse leaves one the generator takes in the end.
LEMMA AbsorbedGraph ==
  ASSUME NEW s, IsIngested(s), ~Excused(s), NEW graph, Sound(graph), FoldPhase(s, graph), Settled(graph)
  PROVE  ~Absorb(graph).raised /\ Healthy(Absorb(graph).g)
<1>1. Fresh(graph) /\ ~AbsorbsUnfused(s) /\ ~Unsupported(s) /\ ~TooLarge(s) /\ FoldsPlainly(s)
  BY FoldedFresh DEF Excused, FoldsPlainly
<1>2. ~Absorb(graph).raised
  <2>1. ~ReadsMisfit(graph)
    <3> SUFFICES ASSUME NEW op \in ToSet(graph.ops), NEW t \in ToSet(op.ins), IsConstant(graph.tensors, t)
                 PROVE  Readable(graph.tensors[t])
      BY DEF ReadsMisfit
    <3>1. op \in ToSet(s.ops) /\ Explained(s, graph.tensors, t)
      BY DEF FoldPhase
    <3>2. t \notin Mislaid(s)
      BY <3>1, <1>1 DEF FoldsPlainly, ReadsMislaid
    <3>3. graph.tensors[t].as = graph.tensors[t].dtype
      BY <3>1, <3>2 DEF Explained
    <3> QED BY <3>3 DEF Readable
  <2> QED BY <2>1, <1>1, AbsorbDone
<1>3. PICK ops, ts, h : /\ Absorb(graph).g = [graph EXCEPT !.tensors = ts, !.ops = ops]
                        /\ Thinned(ops, AfterAbsorption(graph), (DOMAIN graph.ops) \ Consumed(graph), h)
                        /\ Repainted(graph, ts, Absorbing(graph))
  BY <1>1, <1>2, AbsorbDone
<1> DEFINE new == [graph EXCEPT !.tensors = ts, !.ops = ops]
           m == AfterAbsorption(graph)
<1>4. Sound(new)
  BY <1>1, <1>3, AbsorbedSound
<1>5. new.ops = ops /\ new.tensors = ts /\ new.inputs = graph.inputs /\ new.outputs = graph.outputs
  BY DEF Sound, IsGraph
<1>6. ListAfter(graph, ops, h)
  BY <1>3, AbsorbedList
<1> HIDE DEF new
<1>7. /\ \A op \in ToSet(graph.ops) : op.type \in SupportedOps
      /\ Supplied(graph) /\ ~TooLarge(graph)
  BY <1>1, FoldedGraph
<1>8. Supplied(new)
  <2>1. \A i, j \in DOMAIN graph.ops : Absorbs(graph, i, j) => graph.ops[i].outs[1] \notin graph.outputs
    BY <1>1, AbsorbsPlainly
  <2> QED BY <2>1, <1>1, <1>3, <1>5, <1>6, <1>7, AbsorbedSupplied
<1>9. ASSUME NEW op \in ToSet(new.ops)
      PROVE  op.type \in SupportedOps /\ Len(op.ins) <= MaxInputs /\ Len(op.outs) <= MaxOutputs
  <2>1. PICK k \in DOMAIN graph.ops : k \notin Consumed(graph) /\ op = m[k]
    BY <1>5, <1>6 DEF ListAfter
  <2> DEFINE w == IF k \in Absorbing(graph) THEN PartnerOf(graph, k) ELSE k
  <2>2. /\ m[k].type = graph.ops[k].type /\ w \in DOMAIN graph.ops /\ m[k].outs = graph.ops[w].outs
        /\ Len(m[k].ins) \in {Len(graph.ops[k].ins), 3}
    BY <2>1, AbsorbedOperator
  <2>3. /\ ~(Len(graph.ops[k].ins) > MaxInputs) /\ ~(Len(graph.ops[w].outs) > MaxOutputs)
        /\ graph.ops[k].type \in SupportedOps
    BY <1>7, <2>2, GraphShape DEF TooLarge, Sound
  <2>4. /\ Len(graph.ops[k].ins) \in Nat /\ Len(graph.ops[w].outs) \in Nat
        /\ MaxInputs \in Nat /\ MaxInputs >= 3 /\ MaxOutputs \in Nat
    <3>1. graph.ops[k] \in Operations /\ graph.ops[w] \in Operations
      BY <2>2, GraphShape DEF Sound
    <3> QED BY <3>1, OperatorShape, LimitsAssumption
  <2>5. Len(op.ins) \in {Len(graph.ops[k].ins), 3} /\ op.outs = graph.ops[w].outs /\ op.type = graph.ops[k].type
    BY <2>1, <2>2
  <2> DEFINE a == Len(graph.ops[k].ins)
             b == Len(graph.ops[w].outs)
             d == Len(op.ins)
             e == Len(op.outs)
  <2>6. /\ a \in Nat /\ b \in Nat /\ MaxInputs \in Nat /\ MaxInputs >= 3 /\ MaxOutputs \in Nat
        /\ ~(a > MaxInputs) /\ ~(b > MaxOutputs) /\ d \in {a, 3} /\ e = b
    BY <2>3, <2>4, <2>5
  <2> HIDE DEF a, b, d, e, w
  <2>7. d <= MaxInputs /\ e <= MaxOutputs
    BY <2>6
  <2> QED BY <2>3, <2>5, <2>7 DEF d, e
<1>10. ~TooLarge(new)
  <2>1. \A op \in ToSet(new.ops) : Len(op.ins) \in Nat /\ Len(op.outs) \in Nat
    BY <1>4, GraphShape, OperatorShape DEF Sound
  <2>2. MaxInputs \in Nat /\ MaxOutputs \in Nat
    BY LimitsAssumption
  <2>3. \A op \in ToSet(new.ops) : ~(Len(op.ins) > MaxInputs) /\ ~(Len(op.outs) > MaxOutputs)
    <3> SUFFICES ASSUME NEW op \in ToSet(new.ops)
                 PROVE  ~(Len(op.ins) > MaxInputs) /\ ~(Len(op.outs) > MaxOutputs)
      OBVIOUS
    <3> DEFINE d == Len(op.ins)
               e == Len(op.outs)
    <3>1. d \in Nat /\ e \in Nat /\ d <= MaxInputs /\ e <= MaxOutputs
      BY <2>1, <1>9
    <3> HIDE DEF d, e
    <3>2. ~(d > MaxInputs) /\ ~(e > MaxOutputs)
      BY <3>1, <2>2
    <3> QED BY <3>2 DEF d, e
  <2>4. \A t \in DOMAIN new.tensors : ~(Len(new.tensors[t].shape) > MaxRank)
    <3> SUFFICES ASSUME NEW t \in DOMAIN ts PROVE ~(Len(ts[t].shape) > MaxRank)
      BY <1>5
    <3>1. PICK u \in DOMAIN graph.tensors : ts[t].shape = graph.tensors[u].shape
      BY <1>3 DEF Repainted
    <3> QED BY <3>1, <1>7 DEF TooLarge
  <2> QED BY <2>3, <2>4 DEF TooLarge
<1>11. \A t \in DOMAIN new.tensors : new.tensors[t].name # t => Passing(new, t)
  BY <1>1, <1>3, <1>5, AbsorbedPassing
<1>12. Healthy(new)
  BY <1>4, <1>8, <1>9, <1>10, <1>11 DEF Healthy
<1> QED BY <1>2, <1>3, <1>12 DEF new

-----------------------------------------------------------------------------
(* Fusion. *)

\* A sweep of fusion takes one operator after the other.
LEMMA FuseUnfolds ==
  ASSUME NEW graph, Len(graph.ops) \in Nat
  PROVE  \E acc : /\ acc[0] = [ops |-> <<>>, taken |-> {}]
                  /\ \A k \in 1 .. Len(graph.ops) : acc[k] = FuseOp(graph, acc[k - 1], k)
                  /\ FuseSweep(graph) = acc[Len(graph.ops)]
<1> DEFINE n == Len(graph.ops)
           Start == [ops |-> <<>>, taken |-> {}]
           Is(m, f) == f = [k \in 0 .. m |-> IF k = 0 THEN Start ELSE FuseOp(graph, f[k - 1], k)]
           G == {m \in Nat : \E f : Is(m, f)}
           acc == CHOOSE f : Is(n, f)
<1> HIDE DEF Start
<1>1. 0 \in G
  <2> DEFINE f == [k \in 0 .. 0 |-> Start]
  <2>1. Is(0, f)
    OBVIOUS
  <2> QED BY <2>1
<1>2. ASSUME NEW m \in Nat, m \in G PROVE m + 1 \in G
  <2>1. PICK f : Is(m, f)
    BY <1>2
  <2> DEFINE e == [k \in 0 .. m + 1 |-> IF k = m + 1 THEN FuseOp(graph, f[m], m + 1) ELSE f[k]]
  <2>2. ASSUME NEW k \in 0 .. m + 1
        PROVE  e[k] = IF k = 0 THEN Start ELSE FuseOp(graph, e[k - 1], k)
    <3>1. CASE k = m + 1
      <4>1. k # 0 /\ k - 1 = m /\ m \in 0 .. m + 1 /\ m # m + 1
        BY <3>1
      <4> QED BY <3>1, <4>1
    <3>2. CASE k # m + 1
      <4>1. k \in 0 .. m
        BY <3>2
      <4>2. f[k] = IF k = 0 THEN Start ELSE FuseOp(graph, f[k - 1], k)
        BY <2>1, <4>1
      <4>3. k # 0 => k - 1 \in 0 .. m + 1 /\ k - 1 # m + 1
        BY <4>1
      <4> QED BY <3>2, <4>1, <4>2, <4>3
    <3> QED BY <3>1, <3>2
  <2> HIDE DEF Is
  <2>3. e = [k \in 0 .. m + 1 |-> e[k]]
    OBVIOUS
  <2> HIDE DEF e
  <2>4. Is(m + 1, e)
    BY <2>2, <2>3 DEF Is
  <2> QED BY <2>4
<1> HIDE DEF Is
<1>3. Nat \subseteq G
  <2> HIDE DEF G
  <2> QED BY <1>1, <1>2, NatInductive
<1>4. Is(n, acc)
  BY <1>3
<1>5. FuseSweep(graph) = acc[n]
  BY DEF FuseSweep, acc, Is, n, Start
<1>6. acc[0] = Start /\ \A k \in 1 .. n : acc[k] = FuseOp(graph, acc[k - 1], k)
  <2> HIDE DEF acc, n
  <2>1. \A k \in 0 .. n : acc[k] = IF k = 0 THEN Start ELSE FuseOp(graph, acc[k - 1], k)
    BY <1>4 DEF Is
  <2>2. n \in Nat
    BY DEF n
  <2> QED BY <2>1, <2>2
<1> HIDE DEF acc
<1> QED BY <1>5, <1>6 DEF Start

\* Intervals are equal if their ends are.
LEMMA SameInterval ==
  ASSUME NEW a \in Nat, NEW b \in Nat, 1 .. a = 1 .. b
  PROVE  a = b
<1>1. a > 0 => a \in 1 .. b
  OBVIOUS
<1>2. b > 0 => b \in 1 .. a
  OBVIOUS
<1> QED BY <1>1, <1>2

\* The length of a sequence is the end of its domain.
LEMMA LengthIs ==
  ASSUME NEW S, NEW s \in Seq(S), NEW n \in Nat, DOMAIN s = 1 .. n
  PROVE  Len(s) = n
<1>1. Len(s) \in Nat /\ DOMAIN s = 1 .. Len(s)
  OBVIOUS
<1> DEFINE m == Len(s)
<1>2. m \in Nat /\ 1 .. m = 1 .. n
  BY <1>1
<1> HIDE DEF m
<1>3. m = n
  BY <1>2, SameInterval
<1> QED BY <1>3 DEF m

\* A sequence of one element, of two, and three of a kind.
LEMMA SingleOf ==
  ASSUME NEW S, NEW s \in Seq(S), Len(s) = 1, NEW x, s[1] = x
  PROVE  s = <<x>>
<1>1. x \in S
  BY ElementOfSeq
<1> QED BY <1>1
\* One of two is left.
LEMMA RemoveTwo ==
  ASSUME NEW S, NEW s \in Seq(S), Len(s) = 2
  PROVE  RemoveAt(s, 1) = <<s[2]>> /\ RemoveAt(s, 2) = <<s[1]>>
<1>1. \A i \in 1 .. 2 : s[i] \in S
  BY ElementOfSeq
<1>2. SubSeq(s, 1, 1 - 1) = <<>> /\ SubSeq(s, 2 + 1, Len(s)) = <<>>
  BY SubSeqEmpty
<1>3. SubSeq(s, 1, 2 - 1) = <<s[1]>>
  <2> DEFINE u == SubSeq(s, 1, 2 - 1)
  <2>1. u \in Seq(S) /\ Len(u) = 1 /\ u[1] = s[1]
    BY <1>1
  <2> HIDE DEF u
  <2>2. u = <<s[1]>>
    BY <2>1, SingleOf
  <2> QED BY <2>2 DEF u
<1>4. SubSeq(s, 1 + 1, Len(s)) = <<s[2]>>
  <2> DEFINE u == SubSeq(s, 1 + 1, Len(s))
  <2>1. u \in Seq(S) /\ Len(u) = 1 /\ u[1] = s[2]
    BY <1>1
  <2> HIDE DEF u
  <2>2. u = <<s[2]>>
    BY <2>1, SingleOf
  <2> QED BY <2>2 DEF u
<1>5. <<s[1]>> \in Seq(S) /\ <<s[2]>> \in Seq(S)
  BY <1>1
<1>6. RemoveAt(s, 1) = <<>> \o <<s[2]>>
  BY <1>2, <1>4 DEF RemoveAt
<1>7. RemoveAt(s, 2) = <<s[1]>> \o <<>>
  BY <1>2, <1>3 DEF RemoveAt
<1> QED BY <1>5, <1>6, <1>7, ConcatEmptySeq
\* Two and one are three.
LEMMA AddOne ==
  ASSUME NEW S, NEW s \in Seq(S), Len(s) = 2, NEW x \in S
  PROVE  s \o <<x>> = <<s[1], s[2], x>>
<1>1. \A i \in 1 .. 2 : s[i] \in S
  BY ElementOfSeq
<1> DEFINE u == s \o <<x>>
           v == <<s[1], s[2], x>>
           e == <<x>>
<1>0. e \in Seq(S) /\ Len(e) = 1 /\ e[1] = x
  OBVIOUS
<1>2. v \in Seq(S) /\ Len(v) = 3 /\ v[1] = s[1] /\ v[2] = s[2] /\ v[3] = x
  BY <1>1
<1> HIDE DEF e
<1>3. /\ s \o e \in Seq(S) /\ Len(s \o e) = 3
      /\ \A i \in 1 .. 3 : (s \o e)[i] = IF i <= 2 THEN s[i] ELSE e[i - 2]
  <2>1. e \in Seq(S) /\ Len(e) = 1
    BY <1>0
  <2>2. /\ s \o e \in Seq(S) /\ Len(s \o e) = Len(s) + Len(e)
        /\ \A i \in 1 .. Len(s) + Len(e) : (s \o e)[i] = IF i <= Len(s) THEN s[i] ELSE e[i - Len(s)]
    BY <2>1, ConcatProperties
  <2>3. Len(s) + Len(e) = 3 /\ Len(s) = 2
    BY <2>1
  <2> QED BY <2>2, <2>3
<1> HIDE DEF v
<1>4. \A i \in 1 .. 3 : (s \o e)[i] = v[i]
  BY <1>0, <1>2, <1>3
<1>5. s \o e = v
  BY <1>2, <1>3, <1>4, SeqEqual
<1> QED BY <1>5 DEF e, v

\* The pairs that fuse.
LEMMA Rules ==
  ASSUME NEW producer, NEW consumer, HasRule(producer, consumer)
  PROVE  \/ producer \in {"Conv", "Gemm", "Add"} /\ consumer = "Relu"
         \/ producer = "MatMul" /\ consumer = "Add"
BY DEF HasRule, FusedType

\* How many operands those that are fused have.
LEMMA Operands ==
  ASSUME NEW op \in Operations, HasArity(op)
  PROVE  /\ op.type \in {"Conv", "Gemm", "Add", "MatMul", "Relu"} => DOMAIN op.outs = 1 .. 1
         /\ op.type = "Relu" => DOMAIN op.ins = 1 .. 1
         /\ op.type \in {"Add", "MatMul"} => DOMAIN op.ins = 1 .. 2
         /\ op.type \in {"Conv", "Gemm"} => DOMAIN op.ins \in {1 .. 2, 1 .. 3}
<1>1. /\ DOMAIN op.ins = 1 .. Len(op.ins) /\ DOMAIN op.outs = 1 .. Len(op.outs)
  BY OperatorShape
<1>2. /\ {"Conv", "Gemm", "Add", "MatMul", "Relu"} \subseteq DOMAIN Arity
      /\ Arity["Conv"] = {2, 3} /\ Arity["Gemm"] = {2, 3} /\ Arity["MatMul"] = {2} /\ Arity["Add"] = {2}
      /\ Arity["Relu"] = {1}
  BY DEF Arity
<1>3. op.type \in DOMAIN Arity => Len(op.ins) \in Arity[op.type] /\ Len(op.outs) = 1
  BY DEF HasArity
<1> DEFINE a == Len(op.ins)
           b == Len(op.outs)
<1>4. /\ op.type \in {"Conv", "Gemm", "Add", "MatMul", "Relu"} => b = 1
      /\ op.type = "Relu" => a = 1
      /\ op.type \in {"Add", "MatMul"} => a = 2
      /\ op.type \in {"Conv", "Gemm"} => a \in {2, 3}
  <2> HIDE DEF a, b
  <2>1. op.type \in DOMAIN Arity => a \in Arity[op.type] /\ b = 1
    BY <1>3 DEF a, b
  <2>2. op.type \in {"Conv", "Gemm", "Add", "MatMul", "Relu"} => b = 1
    BY <2>1, <1>2
  <2>3. op.type = "Relu" => a = 1
    BY <2>1, <1>2
  <2>4. op.type \in {"Add", "MatMul"} => a = 2
    BY <2>1, <1>2
  <2>5. op.type \in {"Conv", "Gemm"} => a \in {2, 3}
    BY <2>1, <1>2
  <2> QED BY <2>2, <2>3, <2>4, <2>5
<1>5. DOMAIN op.ins = 1 .. a /\ DOMAIN op.outs = 1 .. b
  BY <1>1
<1> HIDE DEF a, b
<1> QED BY <1>4, <1>5

\* The consumer that an operator fuses with.
MateOf(graph, i) == CHOOSE j \in {j \in DOMAIN graph.ops : Fuses(graph, i, j)} : TRUE

\* Two operators that can be fused: each is the other's only partner.
LEMMA FuseFacts ==
  ASSUME NEW graph, Sound(graph), NEW i \in DOMAIN graph.ops, NEW j \in DOMAIN graph.ops,
         Fuses(graph, i, j)
  PROVE  LET t == graph.ops[i].outs[1]
         IN  /\ i \in Nat /\ j \in Nat /\ i < j
             /\ DOMAIN graph.ops[i].outs = 1 .. 1 /\ DOMAIN graph.ops[j].outs = 1 .. 1
             /\ HasRule(graph.ops[i].type, graph.ops[j].type)
             /\ t \notin graph.outputs
             /\ \E k : OnlyRead(graph, t, j, k)
             /\ graph.ops[i].type = "MatMul" =>
                  \A u \in ToSet(graph.ops[j].ins) \ {t} : IsConstant(graph.tensors, u)
             /\ MateOf(graph, i) = j
             /\ \A k \in DOMAIN graph.ops : Fuses(graph, k, j) => k = i
<1> DEFINE t == graph.ops[i].outs[1]
<1>1. /\ ConsumerCount(graph, t) = 1 /\ t \notin graph.outputs /\ j > i /\ t \in ToSet(graph.ops[j].ins)
      /\ HasRule(graph.ops[i].type, graph.ops[j].type)
      /\ graph.ops[i].type = "MatMul" => IsBiasAdd(graph, graph.ops[j], t)
  BY DEF Fuses
<1>2. i \in Nat /\ j \in Nat /\ i < j
  <2>1. DOMAIN graph.ops = 1 .. Len(graph.ops) /\ Len(graph.ops) \in Nat
    BY GraphShape DEF Sound
  <2> QED BY <2>1, <1>1
<1>3. \A k \in DOMAIN graph.ops : graph.ops[k] \in Operations /\ HasArity(graph.ops[k])
  BY GraphShape, SoundOperators DEF Sound
<1>4. DOMAIN graph.ops[i].outs = 1 .. 1 /\ DOMAIN graph.ops[j].outs = 1 .. 1
  <2>1. graph.ops[i].type \in {"Conv", "Gemm", "Add", "MatMul"} /\ graph.ops[j].type \in {"Relu", "Add"}
    BY <1>1, Rules
  <2>2. DOMAIN graph.ops[i].outs = 1 .. 1
    BY <2>1, <1>3, Operands
  <2>3. DOMAIN graph.ops[j].outs = 1 .. 1
    BY <2>1, <1>3, Operands
  <2> QED BY <2>2, <2>3
<1>5. PICK l, k : OnlyRead(graph, t, l, k)
  BY <1>1, OneConsumer DEF Sound
<1>6. \A m \in DOMAIN graph.ops : t \in ToSet(graph.ops[m].ins) => m = l
  BY <1>5 DEF OnlyRead, ToSet
<1>7. l = j
  BY <1>1, <1>6
<1>8. MateOf(graph, i) = j
  <2>1. \A m \in DOMAIN graph.ops : Fuses(graph, i, m) => m = j
    BY <1>6, <1>7 DEF Fuses
  <2> QED BY <2>1 DEF MateOf
<1>9. graph.ops[i].type = "MatMul" => \A u \in ToSet(graph.ops[j].ins) \ {t} : IsConstant(graph.tensors, u)
  BY <1>1 DEF IsBiasAdd
<1>10. ASSUME NEW k2 \in DOMAIN graph.ops, Fuses(graph, k2, j) PROVE k2 = i
  <2> DEFINE u == graph.ops[k2].outs[1]
  <2>1. u \in ToSet(graph.ops[j].ins) /\ HasRule(graph.ops[k2].type, graph.ops[j].type)
    BY <1>10 DEF Fuses
  <2>2. 1 \in DOMAIN graph.ops[k2].outs /\ 1 \in DOMAIN graph.ops[i].outs /\ ~IsConstant(graph.tensors, u)
    BY SoundOperators
  <2>3. u = t
    <3>1. CASE graph.ops[j].type = "Relu"
      <4>1. DOMAIN graph.ops[j].ins = 1 .. 1
        BY <3>1, <1>3, Operands
      <4> QED BY <4>1, <2>1, <1>1 DEF ToSet
    <3>2. CASE graph.ops[j].type # "Relu"
      <4>1. graph.ops[i].type = "MatMul"
        BY <3>2, <1>1, Rules
      <4> QED BY <4>1, <1>9, <2>1, <2>2
    <3> QED BY <3>1, <3>2
  <2> QED BY <2>2, <2>3 DEF Sound, InOrder
<1> QED BY <1>1, <1>2, <1>4, <1>5, <1>7, <1>8, <1>9, <1>10

\* What the two become: the product or sum with the Relu behind it, or the product
\* with its addend.
FusedWithRelu(op, consumer, new) ==
  /\ op.type \in {"Conv", "Gemm", "Add"} /\ consumer.type = "Relu"
  /\ new = [type |-> FusedType[op.type]["Relu"], attr |-> op.attr, ins |-> op.ins, outs |-> consumer.outs]

\* A MatMul and the Add that takes its output and one more operand.
FusedWithAddend(op, consumer, addend, new) ==
  /\ op.type = "MatMul" /\ consumer.type = "Add"
  /\ consumer.ins \in {<<op.outs[1], addend>>, <<addend, op.outs[1]>>}
  /\ new = [type |-> "MatMul_Add", attr |-> op.attr, ins |-> <<op.ins[1], op.ins[2], addend>>,
            outs |-> consumer.outs]

\* What a fused operator looks like.
LEMMA FusedShape ==
  ASSUME NEW graph, Sound(graph), NEW i \in DOMAIN graph.ops, NEW j \in DOMAIN graph.ops,
         Fuses(graph, i, j)
  PROVE  LET op == graph.ops[i]
             consumer == graph.ops[j]
             new == FusedOp(op, consumer)
         IN  \/ FusedWithRelu(op, consumer, new)
             \/ \E addend \in ToSet(consumer.ins) :
                  FusedWithAddend(op, consumer, addend, new) /\ IsConstant(graph.tensors, addend)
<1> DEFINE op == graph.ops[i]
           consumer == graph.ops[j]
           t == op.outs[1]
           x == CHOOSE k \in DOMAIN consumer.ins : consumer.ins[k] = t
           rest == RemoveAt(consumer.ins, x)
<1>1. PICK k : OnlyRead(graph, t, j, k)
  BY FuseFacts
<1>2. x \in DOMAIN consumer.ins /\ consumer.ins[x] = t /\ x = k
  BY <1>1 DEF OnlyRead
<1>3. \A m \in DOMAIN consumer.ins : consumer.ins[m] = t => m = x
  BY <1>1, <1>2 DEF OnlyRead
<1>4. HasRule(op.type, consumer.type)
  BY FuseFacts
<1>5. FusedOp(op, consumer) =
        [type |-> FusedType[op.type][consumer.type], attr |-> op.attr, ins |-> op.ins \o rest, outs |-> consumer.outs]
  BY DEF FusedOp
<1>6. /\ op \in Operations /\ HasArity(op) /\ consumer \in Operations /\ HasArity(consumer)
      /\ op.ins \in Seq(TensorNames) /\ consumer.ins \in Seq(TensorNames)
      /\ DOMAIN op.ins = 1 .. Len(op.ins) /\ DOMAIN consumer.ins = 1 .. Len(consumer.ins)
      /\ Len(op.ins) \in Nat /\ Len(consumer.ins) \in Nat
  BY SoundOperators, GraphShape, OperatorShape DEF Sound
<1>7. CASE consumer.type = "Relu"
  <2>1. op.type \in {"Conv", "Gemm", "Add"}
    BY <1>4, <1>7, Rules
  <2>2. DOMAIN consumer.ins = 1 .. 1
    BY <1>6, <1>7, Operands
  <2> DEFINE c == consumer.ins
             o == op.ins
  <2>3. c \in Seq(TensorNames) /\ Len(c) = 1 /\ x = 1 /\ o \in Seq(TensorNames)
    <3>1. Len(c) = 1
      BY <1>6, <2>2, LengthIs
    <3>2. x = 1
      <4> HIDE DEF x
      <4> QED BY <1>2, <2>2
    <3> QED BY <3>1, <3>2, <1>6
  <2> HIDE DEF c, o, x
  <2>4. RemoveAt(c, x) = <<>>
    BY <2>3 DEF RemoveAt
  <2>5. o \o RemoveAt(c, x) = o
    BY <2>3, <2>4
  <2>6. FusedOp(op, consumer) =
        [type |-> FusedType[op.type]["Relu"], attr |-> op.attr, ins |-> op.ins, outs |-> consumer.outs]
    BY <2>5, <1>5, <1>7 DEF c, o
  <2> QED BY <2>1, <2>6, <1>7 DEF FusedWithRelu
<1>8. CASE consumer.type # "Relu"
  <2>1. op.type = "MatMul" /\ consumer.type = "Add"
    BY <1>4, <1>8, Rules
  <2>2. DOMAIN consumer.ins = 1 .. 2 /\ DOMAIN op.ins = 1 .. 2
    BY <2>1, <1>6, Operands
  <2> DEFINE c == consumer.ins
             o == op.ins
             addend == c[3 - x]
  <2>3. c \in Seq(TensorNames) /\ Len(c) = 2 /\ o \in Seq(TensorNames) /\ Len(o) = 2
    BY <1>6, <2>2, LengthIs
  <2>4. x \in {1, 2} /\ c[x] = t /\ \A m \in {1, 2} : c[m] = t => m = x
    <3> HIDE DEF x
    <3>1. 1 .. 2 = {1, 2}
      OBVIOUS
    <3> QED BY <3>1, <1>2, <1>3, <2>2
  <2> HIDE DEF c, o, x
  <2>5. 3 - x \in {1, 2} /\ 3 - x # x
    BY <2>4
  <2>6. RemoveAt(c, x) = <<addend>>
    <3>1. CASE x = 1
      BY <3>1, <2>3, RemoveTwo
    <3>2. CASE x = 2
      BY <3>2, <2>3, RemoveTwo
    <3> QED BY <3>1, <3>2, <2>4
  <2>7. c[1] \in TensorNames /\ c[2] \in TensorNames
    <3>1. 1 \in 1 .. Len(c) /\ 2 \in 1 .. Len(c)
      BY <2>3
    <3> QED BY <3>1, <2>3, ElementOfSeq
  <2>8. addend \in TensorNames
    BY <2>5, <2>7
  <2>9. o \o <<addend>> = <<o[1], o[2], addend>>
    <3> HIDE DEF addend
    <3> QED BY <2>3, <2>8, AddOne
  <2>10. c = <<c[1], c[2]>>
    BY <2>3, <2>7
  <2>11. c \in {<<t, addend>>, <<addend, t>>}
    <3>1. CASE x = 1
      BY <3>1, <2>4, <2>10
    <3>2. CASE x = 2
      BY <3>2, <2>4, <2>10
    <3> QED BY <3>1, <3>2, <2>4
  <2>12. addend \in ToSet(consumer.ins) /\ addend # t
    <3>1. addend # t
      BY <2>4, <2>5
    <3>2. c[3 - x] \in ToSet(c)
      <4>1. 3 - x \in DOMAIN c
        BY <2>5, <2>2 DEF c
      <4> QED BY <4>1 DEF ToSet
    <3> QED BY <3>1, <3>2 DEF c
  <2>13. IsConstant(graph.tensors, addend)
    <3>1. \A u \in ToSet(consumer.ins) \ {t} : IsConstant(graph.tensors, u)
      BY <2>1, FuseFacts
    <3> HIDE DEF addend, consumer, t
    <3> QED BY <2>12, <3>1
  <2> HIDE DEF addend
  <2>14. FusedType["MatMul"]["Add"] = "MatMul_Add"
    BY DEF FusedType
  <2>15. FusedOp(op, consumer) =
        [type |-> "MatMul_Add", attr |-> op.attr, ins |-> <<op.ins[1], op.ins[2], addend>>, outs |-> consumer.outs]
    BY <2>1, <2>6, <2>9, <2>14, <1>5 DEF c, o
  <2> QED BY <2>1, <2>11, <2>12, <2>13, <2>15 DEF FusedWithAddend, c
<1> QED BY <1>7, <1>8

\* What each operator becomes, and which are gone, if those in takers take their mates.
Merged(graph, takers) ==
  [i \in DOMAIN graph.ops |->
     IF i \in takers THEN FusedOp(graph.ops[i], graph.ops[MateOf(graph, i)]) ELSE graph.ops[i]]

\* The consumers that are gone.
Mates(graph, takers) == {MateOf(graph, i) : i \in takers}

\* What a sweep has done after k operators.
FusedTo(graph, acc, k, takers) ==
  /\ acc \in [ops : {acc.ops}, taken : {Mates(graph, takers)}]
  /\ takers \subseteq 1 .. k
  /\ \A i \in takers : /\ MateOf(graph, i) \in DOMAIN graph.ops /\ Fuses(graph, i, MateOf(graph, i))
                       /\ i \notin Mates(graph, takers)
  /\ \A i \in (1 .. k) \ (takers \cup Mates(graph, takers)) : \A j \in DOMAIN graph.ops : ~Fuses(graph, i, j)
  /\ \E h : Thinned(acc.ops, Merged(graph, takers), (1 .. k) \ Mates(graph, takers), h)

\* A list is as well thinned out of another that agrees with it.
LEMMA ThinOther ==
  ASSUME NEW list, NEW all, NEW keep, NEW h, Thinned(list, all, keep, h),
         NEW other, \A k \in keep : other[k] = all[k]
  PROVE  Thinned(list, other, keep, h)
<1>1. \A p \in 1 .. Len(list) : h[p] \in keep
  BY DEF Thinned
<1>2. \A p \in 1 .. Len(list) : list[p] = other[h[p]]
  BY <1>1 DEF Thinned
<1> QED BY <1>2 DEF Thinned

\* The sweep of fusion goes past any operator.
LEMMA FuseGoesOn ==
  ASSUME NEW graph, Sound(graph), NEW k \in DOMAIN graph.ops, NEW acc, NEW takers,
         FusedTo(graph, acc, k - 1, takers)
  PROVE  \E more : FusedTo(graph, FuseOp(graph, acc, k), k, more)
<1> DEFINE T == Mates(graph, takers)
           partners == {j \in (DOMAIN graph.ops) \ T : Fuses(graph, k, j)}
           mate == CHOOSE j \in partners : TRUE
           new == FuseOp(graph, acc, k)
<1>1. /\ DOMAIN graph.ops = 1 .. Len(graph.ops) /\ Len(graph.ops) \in Nat /\ k \in Nat /\ k \in 1 .. Len(graph.ops)
      /\ 1 .. k = (1 .. k - 1) \cup {k} /\ k \notin 1 .. k - 1 /\ \A x \in 1 .. k - 1 : x < k /\ x \in Nat
  <2>1. DOMAIN graph.ops = 1 .. Len(graph.ops) /\ Len(graph.ops) \in Nat
    BY GraphShape DEF Sound
  <2> QED BY <2>1
<1>2. /\ acc \in [ops : {acc.ops}, taken : {T}] /\ acc.taken = T
      /\ takers \subseteq 1 .. k - 1
      /\ \A i \in takers : /\ MateOf(graph, i) \in DOMAIN graph.ops /\ Fuses(graph, i, MateOf(graph, i))
                           /\ i \notin T
      /\ \A i \in (1 .. k - 1) \ (takers \cup T) : \A j \in DOMAIN graph.ops : ~Fuses(graph, i, j)
      /\ \E h : Thinned(acc.ops, Merged(graph, takers), (1 .. k - 1) \ T, h)
  BY DEF FusedTo
<1>3. new = IF k \in T THEN acc
            ELSE IF partners = {} THEN [acc EXCEPT !.ops = Append(@, graph.ops[k])]
            ELSE [ops |-> Append(acc.ops, FusedOp(graph.ops[k], graph.ops[mate])), taken |-> T \cup {mate}]
  BY <1>2 DEF FuseOp
<1>4. PICK h : Thinned(acc.ops, Merged(graph, takers), (1 .. k - 1) \ T, h)
  BY <1>2
<1>5. k \notin takers
  BY <1>1, <1>2
<1> HIDE DEF new, mate
<1>6. CASE k \in T
  <2>1. new = acc
    BY <1>3, <1>6
  <2>2. (1 .. k) \ T = (1 .. k - 1) \ T
    BY <1>1, <1>6
  <2>3. takers \subseteq 1 .. k
    BY <1>1, <1>2
  <2>4. \A i \in (1 .. k) \ (takers \cup T) : \A j \in DOMAIN graph.ops : ~Fuses(graph, i, j)
    BY <1>1, <1>2, <1>6
  <2>5. FusedTo(graph, acc, k, takers)
    BY <1>2, <1>4, <2>2, <2>3, <2>4 DEF FusedTo
  <2> QED BY <2>1, <2>5 DEF new
<1>7. CASE k \notin T /\ partners = {}
  <2>1. new = [ops |-> Append(acc.ops, graph.ops[k]), taken |-> T]
    BY <1>2, <1>3, <1>7
  <2>2. new \in [ops : {new.ops}, taken : {T}] /\ new.ops = Append(acc.ops, graph.ops[k])
    BY <2>1
  <2>3. \A j \in DOMAIN graph.ops : ~Fuses(graph, k, j)
    <3> SUFFICES ASSUME NEW j \in DOMAIN graph.ops, Fuses(graph, k, j) PROVE FALSE
      OBVIOUS
    <3>1. j \in T
      BY <1>7
    <3>2. PICK i \in takers : j = MateOf(graph, i)
      BY <3>1 DEF Mates
    <3>3. Fuses(graph, i, j) /\ i \in DOMAIN graph.ops
      BY <3>2, <1>1, <1>2
    <3>4. i = k
      BY <3>3, FuseFacts
    <3> QED BY <3>4, <1>5
  <2>4. Merged(graph, takers)[k] = graph.ops[k]
    BY <1>5 DEF Merged
  <2>5. \E f : Thinned(new.ops, Merged(graph, takers), (1 .. k) \ T, f)
    <3> DEFINE keep == (1 .. k - 1) \ T
    <3>1. keep \subseteq Nat /\ \A j \in keep : j < k
      BY <1>1
    <3>2. keep \cup {k} = (1 .. k) \ T
      BY <1>1, <1>7
    <3>3. Thinned(acc.ops, Merged(graph, takers), keep, h)
      BY <1>4
    <3>4. k \in Nat
      BY <1>1
    <3> DEFINE m == Merged(graph, takers)
    <3> HIDE DEF keep, m
    <3>5. \E f : Thinned(Append(acc.ops, m[k]), m, keep \cup {k}, f)
      BY <3>1, <3>3, <3>4, ThinGrows DEF m
    <3> QED BY <3>2, <3>5, <2>2, <2>4 DEF m
  <2>6. takers \subseteq 1 .. k
    BY <1>1, <1>2
  <2>7. \A i \in (1 .. k) \ (takers \cup T) : \A j \in DOMAIN graph.ops : ~Fuses(graph, i, j)
    BY <1>1, <1>2, <2>3
  <2>8. FusedTo(graph, new, k, takers)
    BY <1>2, <2>2, <2>5, <2>6, <2>7 DEF FusedTo
  <2> QED BY <2>8 DEF new
<1>8. CASE k \notin T /\ partners # {}
  <2> DEFINE more == takers \cup {k}
             new2 == [ops |-> Append(acc.ops, FusedOp(graph.ops[k], graph.ops[mate])), taken |-> T \cup {mate}]
  <2>1. mate \in DOMAIN graph.ops /\ mate \notin T /\ Fuses(graph, k, mate)
    BY <1>8 DEF mate
  <2>2. MateOf(graph, k) = mate /\ k < mate /\ mate \in Nat
    BY <2>1, FuseFacts
  <2>3. new = new2
    BY <1>3, <1>8
  <2>4. Mates(graph, more) = T \cup {mate}
    BY <2>2 DEF Mates
  <2>5. new.ops = Append(acc.ops, FusedOp(graph.ops[k], graph.ops[mate])) /\ new \in [ops : {new.ops}, taken : {Mates(graph, more)}]
    BY <2>3, <2>4
  <2>6. \A i \in more : /\ MateOf(graph, i) \in DOMAIN graph.ops /\ Fuses(graph, i, MateOf(graph, i))
                        /\ i \notin Mates(graph, more)
    <3>1. \A i \in more : MateOf(graph, i) \in DOMAIN graph.ops /\ Fuses(graph, i, MateOf(graph, i))
      BY <1>2, <2>1, <2>2
    <3>2. \A i \in more : i \notin T
      BY <1>2, <1>8
    <3>3. \A i \in more : i # mate
      <4>1. \A i \in more : i \in Nat /\ i <= k
        BY <1>1, <1>2
      <4> HIDE DEF more
      <4> QED BY <4>1, <2>2, <1>1
    <3> QED BY <3>1, <3>2, <3>3, <2>4
  <2>7. (1 .. k) \ (T \cup {mate}) = ((1 .. k - 1) \ T) \cup {k}
    <3>1. mate \notin 1 .. k
      BY <2>2, <1>1
    <3> QED BY <3>1, <1>1, <1>8
  <2>8. \E f : Thinned(new.ops, Merged(graph, more), (1 .. k) \ Mates(graph, more), f)
    <3> DEFINE keep == (1 .. k - 1) \ T
               m == Merged(graph, more)
    <3>1. keep \subseteq Nat /\ \A j \in keep : j < k
      BY <1>1
    <3>2. keep \cup {k} = (1 .. k) \ Mates(graph, more)
      BY <2>4, <2>7
    <3>3. \A j \in keep : m[j] = Merged(graph, takers)[j]
      <4>1. \A j \in keep : j \in DOMAIN graph.ops /\ j # k
        BY <1>1
      <4> QED BY <4>1 DEF Merged
    <3>4. m[k] = FusedOp(graph.ops[k], graph.ops[mate])
      BY <2>2 DEF Merged
    <3>5. Thinned(acc.ops, m, keep, h)
      <4> DEFINE m0 == Merged(graph, takers)
      <4>1. Thinned(acc.ops, m0, keep, h) /\ \A j \in keep : m[j] = m0[j]
        BY <1>4, <3>3
      <4> HIDE DEF keep, m, m0
      <4> QED BY <4>1, ThinOther
    <3>6. k \in Nat
      BY <1>1
    <3> HIDE DEF keep, m
    <3>7. \E f : Thinned(Append(acc.ops, m[k]), m, keep \cup {k}, f)
      BY <3>1, <3>5, <3>6, ThinGrows
    <3> QED BY <3>2, <3>4, <3>7, <2>5 DEF m
  <2>9. more \subseteq 1 .. k
    BY <1>1, <1>2
  <2>10. \A i \in (1 .. k) \ (more \cup Mates(graph, more)) : \A j \in DOMAIN graph.ops : ~Fuses(graph, i, j)
    BY <1>1, <1>2, <2>4
  <2> HIDE DEF more
  <2>11. FusedTo(graph, new, k, more)
    BY <2>5, <2>6, <2>8, <2>9, <2>10 DEF FusedTo
  <2> QED BY <2>11 DEF new
<1> QED BY <1>6, <1>7, <1>8

\* A sweep of fusion over the whole graph.
LEMMA FuseDone ==
  ASSUME NEW graph, Sound(graph)
  PROVE  \E takers : FusedTo(graph, FuseSweep(graph), Len(graph.ops), takers)
<1> DEFINE n == Len(graph.ops)
<1>1. n \in Nat /\ DOMAIN graph.ops = 1 .. n
  BY GraphShape DEF Sound
<1>2. PICK acc : /\ acc[0] = [ops |-> <<>>, taken |-> {}]
                 /\ \A k \in 1 .. n : acc[k] = FuseOp(graph, acc[k - 1], k)
                 /\ FuseSweep(graph) = acc[n]
  BY <1>1, FuseUnfolds
<1> DEFINE G == {k \in Nat : k <= n => \E takers : FusedTo(graph, acc[k], k, takers)}
<1> HIDE DEF n
<1>3. 0 \in G
  <2> DEFINE none == {}
             rest == (1 .. 0) \ Mates(graph, none)
  <2>1. Mates(graph, none) = {} /\ 1 .. 0 = {} /\ rest = {}
    BY DEF Mates
  <2>2. \E h : Thinned(<<>>, Merged(graph, none), {}, h)
    BY ThinEmpty
  <2>3. acc[0] \in [ops : {acc[0].ops}, taken : {{}}] /\ acc[0].ops = <<>>
    BY <1>2
  <2> HIDE DEF none
  <2>4. FusedTo(graph, acc[0], 0, none)
    <3>1. acc[0] \in [ops : {acc[0].ops}, taken : {Mates(graph, none)}]
      BY <2>1, <2>3
    <3>2. none \subseteq 1 .. 0 /\ \A i \in none : FALSE
      BY DEF none
    <3>3. \E h : Thinned(acc[0].ops, Merged(graph, none), (1 .. 0) \ Mates(graph, none), h)
      BY <2>1, <2>2, <2>3
    <3> QED BY <3>1, <3>2, <3>3, <2>1 DEF FusedTo
  <2> QED BY <2>4
<1>4. ASSUME NEW k \in Nat, k \in G PROVE k + 1 \in G
  <2> SUFFICES ASSUME k + 1 <= n PROVE \E takers : FusedTo(graph, acc[k + 1], k + 1, takers)
    OBVIOUS
  <2>1. k <= n /\ k + 1 \in 1 .. n /\ (k + 1) - 1 = k /\ k + 1 \in DOMAIN graph.ops
    BY <1>1
  <2>2. PICK takers : FusedTo(graph, acc[k], k, takers)
    BY <1>4, <2>1
  <2>3. acc[k + 1] = FuseOp(graph, acc[k], k + 1)
    BY <1>2, <2>1
  <2> DEFINE l == k + 1
  <2>4. FusedTo(graph, acc[k], l - 1, takers) /\ l \in DOMAIN graph.ops /\ acc[l] = FuseOp(graph, acc[k], l)
    BY <2>1, <2>2, <2>3
  <2> HIDE DEF l
  <2>5. \E more : FusedTo(graph, acc[l], l, more)
    BY <2>4, FuseGoesOn
  <2> QED BY <2>5 DEF l
<1>5. Nat \subseteq G
  <2> HIDE DEF G
  <2> QED BY <1>3, <1>4, NatInductive
<1>6. n \in G /\ n <= n
  BY <1>1, <1>5
<1>7. \E takers : FusedTo(graph, acc[n], n, takers)
  BY <1>6
<1> QED BY <1>2, <1>7 DEF n

\* An operator that is not taken writes what it, or its mate, wrote.
WriterOf(graph, takers, i) == IF i \in takers THEN MateOf(graph, i) ELSE i

\* What an operator becomes, by the operator whose outputs it takes.
Becomes(graph, takers, i, w, m) ==
  /\ m \in Operations /\ HasArity(m)
  /\ w \in DOMAIN graph.ops /\ i <= w /\ m.outs = graph.ops[w].outs
  /\ \A t \in ToSet(m.ins) :
       \/ t \in ToSet(graph.ops[i].ins)
       \/ IsConstant(graph.tensors, t) /\ t \in ToSet(graph.ops[w].ins)
  /\ Len(m.ins) \in {Len(graph.ops[i].ins), 3}
  /\ graph.ops[i].type \in SupportedOps => m.type \in SupportedOps
  /\ i \notin takers => w = i /\ m = graph.ops[i]
  /\ i \in takers => /\ Fuses(graph, i, w)
                     /\ graph.ops[i].type # "Relu" /\ graph.ops[w].type \in {"Relu", "Add"}

\* Every operator becomes what Becomes says.
LEMMA FusedOperator ==
  ASSUME NEW graph, Sound(graph), NEW acc, NEW takers, FusedTo(graph, acc, Len(graph.ops), takers),
         NEW i \in DOMAIN graph.ops
  PROVE  Becomes(graph, takers, i, WriterOf(graph, takers, i), Merged(graph, takers)[i])
<1> DEFINE m == Merged(graph, takers)[i]
           w == WriterOf(graph, takers, i)
           old == graph.ops[i]
<1>1. old \in Operations /\ HasArity(old) /\ i \in Nat
  <2>1. DOMAIN graph.ops = 1 .. Len(graph.ops) /\ Len(graph.ops) \in Nat
    BY GraphShape DEF Sound
  <2> QED BY <2>1, SoundOperators, GraphShape DEF Sound
<1>2. CASE i \notin takers
  <2>1. m = old /\ w = i
    BY <1>2 DEF Merged, WriterOf
  <2> HIDE DEF m, w
  <2>2. m \in Operations /\ HasArity(m)
    BY <2>1, <1>1
  <2>3. w \in DOMAIN graph.ops /\ i <= w /\ m.outs = graph.ops[w].outs
    BY <2>1, <1>1
  <2> QED BY <2>1, <2>2, <2>3, <1>2 DEF Becomes, m, w
<1>3. CASE i \in takers
  <2> DEFINE j == MateOf(graph, i)
  <2>1. j \in DOMAIN graph.ops /\ Fuses(graph, i, j) /\ w = j
    BY <1>3 DEF FusedTo, WriterOf
  <2>2. m = FusedOp(old, graph.ops[j])
    BY <1>3 DEF Merged
  <2> HIDE DEF m, w, j
  <2>3. i < j /\ HasRule(old.type, graph.ops[j].type) /\ i \in Nat /\ j \in Nat
    BY <2>1, FuseFacts
  <2>4. old.type \in {"Conv", "Gemm", "Add", "MatMul"} /\ graph.ops[j].type \in {"Relu", "Add"}
    BY <2>3, Rules
  <2>5. graph.ops[j] \in Operations /\ HasArity(graph.ops[j])
    BY <2>1, SoundOperators, GraphShape DEF Sound
  <2>6. /\ old.attr \in Seq(STRING) /\ old.ins \in Seq(TensorNames) /\ graph.ops[j].outs \in Seq(TensorNames)
        /\ graph.ops[j].ins \in Seq(TensorNames) /\ graph.ops[j].outs # <<>>
    BY <2>5, <1>1, OperatorShape DEF HasArity
  <2>7. /\ {"Conv_Relu", "Gemm_Relu", "Add_Relu", "MatMul_Add"} \subseteq SupportedOps
        /\ {"Conv_Relu", "Gemm_Relu", "Add_Relu", "MatMul_Add"} \cap Evaluable = {}
        /\ {"Conv_Relu", "Gemm_Relu", "Add_Relu", "MatMul_Add"} \cap DOMAIN Arity = {}
        /\ {"Conv_Relu", "Gemm_Relu", "Add_Relu", "MatMul_Add"} \subseteq Words
    <3>1. {"Conv_Relu", "Gemm_Relu", "Add_Relu", "MatMul_Add"} \subseteq SupportedOps
      BY DEF SupportedOps
    <3>2. {"Conv_Relu", "Gemm_Relu", "Add_Relu", "MatMul_Add"} \cap Evaluable = {}
      BY DEF Evaluable
    <3>3. {"Conv_Relu", "Gemm_Relu", "Add_Relu", "MatMul_Add"} \cap DOMAIN Arity = {}
      BY DEF Arity
    <3>4. {"Conv_Relu", "Gemm_Relu", "Add_Relu", "MatMul_Add"} \subseteq Words
      BY DEF Words
    <3> QED BY <3>1, <3>2, <3>3, <3>4
  <2>8. ASSUME NEW ty \in {"Conv_Relu", "Gemm_Relu", "Add_Relu", "MatMul_Add"}, NEW ins \in Seq(TensorNames),
               m = [type |-> ty, attr |-> old.attr, ins |-> ins, outs |-> graph.ops[j].outs]
        PROVE  m \in Operations /\ HasArity(m) /\ m.outs = graph.ops[j].outs /\ m.ins = ins
               /\ m.type \in SupportedOps
    <3>1. m.type = ty /\ m.outs = graph.ops[j].outs /\ m.ins = ins
      BY <2>8
    <3>2. m \in Operations
      BY <2>6, <2>7, <2>8 DEF Operations
    <3>3. ty # "Relu" /\ ty # "Cast"
      BY <2>7
    <3>4. HasArity(m)
      BY <3>1, <3>3, <2>6, <2>7 DEF HasArity
    <3> QED BY <3>1, <3>2, <3>4, <2>7
  <2>9. /\ m \in Operations /\ HasArity(m) /\ m.outs = graph.ops[j].outs /\ m.type \in SupportedOps
        /\ \A t \in ToSet(m.ins) :
             t \in ToSet(old.ins) \/ (IsConstant(graph.tensors, t) /\ t \in ToSet(graph.ops[j].ins))
        /\ Len(m.ins) \in {Len(old.ins), 3}
    <3>1. CASE FusedWithRelu(old, graph.ops[j], m)
      <4>1. FusedType[old.type]["Relu"] \in {"Conv_Relu", "Gemm_Relu", "Add_Relu"}
        <5>1. /\ FusedType["Conv"]["Relu"] = "Conv_Relu" /\ FusedType["Gemm"]["Relu"] = "Gemm_Relu"
              /\ FusedType["Add"]["Relu"] = "Add_Relu"
          BY DEF FusedType
        <5> QED BY <5>1, <3>1 DEF FusedWithRelu
      <4>2. m \in Operations /\ HasArity(m) /\ m.outs = graph.ops[j].outs /\ m.ins = old.ins /\ m.type \in SupportedOps
        BY <4>1, <2>6, <2>8, <3>1 DEF FusedWithRelu
      <4>3. ToSet(m.ins) = ToSet(old.ins) /\ Len(m.ins) = Len(old.ins)
        BY <4>2
      <4>4. \A t \in ToSet(m.ins) : t \in ToSet(old.ins)
        BY <4>3
      <4>5. Len(m.ins) \in {Len(old.ins), 3}
        BY <4>3
      <4> QED BY <4>2, <4>4, <4>5
    <3>2. ASSUME NEW addend \in ToSet(graph.ops[j].ins), IsConstant(graph.tensors, addend),
                 FusedWithAddend(old, graph.ops[j], addend, m)
          PROVE  <2>9
      <4> DEFINE ins == <<old.ins[1], old.ins[2], addend>>
      <4>1. DOMAIN old.ins = 1 .. 2
        BY <3>2, <1>1, Operands DEF FusedWithAddend
      <4>2. Len(old.ins) = 2
        BY <4>1, <2>6, LengthIs
      <4>3. old.ins[1] \in TensorNames /\ old.ins[2] \in TensorNames
        <5>1. 1 \in 1 .. Len(old.ins) /\ 2 \in 1 .. Len(old.ins)
          BY <4>2
        <5> QED BY <5>1, <2>6, ElementOfSeq
      <4>4. addend \in TensorNames
        <5>1. PICK x \in DOMAIN graph.ops[j].ins : addend = graph.ops[j].ins[x]
          BY DEF ToSet
        <5>2. x \in 1 .. Len(graph.ops[j].ins)
          BY <5>1, <2>6
        <5> QED BY <5>1, <5>2, <2>6, ElementOfSeq
      <4>5. old.ins[1] \in ToSet(old.ins) /\ old.ins[2] \in ToSet(old.ins)
        BY <4>1 DEF ToSet
      <4>6. ins \in Seq(TensorNames) /\ Len(ins) = 3 /\ ToSet(ins) = {old.ins[1], old.ins[2], addend}
        <5> DEFINE a == old.ins[1]
                   b == old.ins[2]
        <5>1. a \in TensorNames /\ b \in TensorNames
          BY <4>3
        <5> HIDE DEF a, b
        <5>2. <<a, b, addend>> \in Seq(TensorNames) /\ Len(<<a, b, addend>>) = 3
          BY <5>1, <4>4
        <5>3. ToSet(<<a, b, addend>>) = {a, b, addend}
          <6>1. DOMAIN <<a, b, addend>> = {1, 2, 3}
            OBVIOUS
          <6> QED BY <6>1 DEF ToSet
        <5> QED BY <5>2, <5>3 DEF a, b
      <4>7. m = [type |-> "MatMul_Add", attr |-> old.attr, ins |-> ins, outs |-> graph.ops[j].outs]
        BY <3>2 DEF FusedWithAddend
      <4> HIDE DEF ins
      <4>8. m \in Operations /\ HasArity(m) /\ m.outs = graph.ops[j].outs /\ m.ins = ins /\ m.type \in SupportedOps
        BY <4>6, <4>7, <2>8
      <4>9. ToSet(m.ins) = {old.ins[1], old.ins[2], addend} /\ Len(m.ins) = 3
        BY <4>6, <4>8
      <4>10. \A t \in ToSet(m.ins) :
               t \in ToSet(old.ins) \/ (IsConstant(graph.tensors, t) /\ t \in ToSet(graph.ops[j].ins))
        <5> SUFFICES ASSUME NEW t \in ToSet(m.ins)
                     PROVE  t \in ToSet(old.ins) \/ (IsConstant(graph.tensors, t) /\ t \in ToSet(graph.ops[j].ins))
          OBVIOUS
        <5>1. t \in {old.ins[1], old.ins[2], addend}
          BY <4>9
        <5>2. CASE t = addend
          BY <5>2, <3>2
        <5> QED BY <5>1, <5>2, <4>5
      <4> QED BY <4>8, <4>9, <4>10
    <3> QED BY <3>1, <3>2, <2>1, <2>2, FusedShape
  <2>10. old.type # "Relu"
    BY <2>4
  <2>11. i <= j
    BY <2>3
  <2> QED BY <1>3, <2>1, <2>4, <2>9, <2>10, <2>11 DEF Becomes, m, w
<1> QED BY <1>2, <1>3

\* The list after a sweep of fusion.
FusedList(graph, takers, ops, h) ==
  /\ ops \in Seq(Operations) /\ DOMAIN ops = 1 .. Len(ops) /\ Len(ops) \in Nat
  /\ \A p \in DOMAIN ops : /\ h[p] \in DOMAIN graph.ops /\ h[p] \notin Mates(graph, takers)
                           /\ ops[p] = Merged(graph, takers)[h[p]]
  /\ \A p, q \in DOMAIN ops : h[p] = h[q] => p = q
  /\ \A p, q \in DOMAIN ops : p < q => h[p] < h[q]
  /\ \A op \in ToSet(ops) :
       \E k \in DOMAIN graph.ops : k \notin Mates(graph, takers) /\ op = Merged(graph, takers)[k]
  /\ \A k \in DOMAIN graph.ops :
       k \notin Mates(graph, takers) =>
         Merged(graph, takers)[k] \in ToSet(ops) /\ \E p \in DOMAIN ops : h[p] = k

\* What a sweep of fusion leaves, in order, each by what it was.
LEMMA FusedListHolds ==
  ASSUME NEW graph, Sound(graph), NEW acc, NEW takers, FusedTo(graph, acc, Len(graph.ops), takers)
  PROVE  \E h : FusedList(graph, takers, acc.ops, h)
<1> DEFINE m == Merged(graph, takers)
           T == Mates(graph, takers)
           n == Len(graph.ops)
           ops == acc.ops
           keep == (1 .. n) \ T
<1>1. n \in Nat /\ DOMAIN graph.ops = 1 .. n
  BY GraphShape DEF Sound
<1>2. PICK h : Thinned(ops, m, keep, h)
  BY DEF FusedTo
<1>3. /\ DOMAIN ops = 1 .. Len(ops) /\ Len(ops) \in Nat /\ ops = [p \in 1 .. Len(ops) |-> ops[p]]
      /\ \A p \in DOMAIN ops : h[p] \in keep /\ ops[p] = m[h[p]]
      /\ \A k \in keep : \E p \in DOMAIN ops : h[p] = k
      /\ \A p, q \in DOMAIN ops : p < q => h[p] < h[q]
  <2> HIDE DEF ops, m, keep
  <2> QED BY <1>2 DEF Thinned
<1>4. \A k \in DOMAIN graph.ops : m[k] \in Operations
  BY FusedOperator DEF Becomes
<1>5. \A k \in keep : k \in DOMAIN graph.ops /\ k \notin T /\ k \in Nat
  BY <1>1
<1>6. \A k \in DOMAIN graph.ops : k \notin T => k \in keep
  BY <1>1
<1> HIDE DEF m, T, n, keep, ops
<1>7. ops \in Seq(Operations)
  <2>1. \A p \in 1 .. Len(ops) : ops[p] \in Operations
    BY <1>3, <1>4, <1>5
  <2>2. ops \in [1 .. Len(ops) -> Operations]
    BY <1>3, <2>1
  <2> QED BY <1>3, <2>2
<1>8. \A p, q \in DOMAIN ops : h[p] = h[q] => p = q
  <2> SUFFICES ASSUME NEW p \in DOMAIN ops, NEW q \in DOMAIN ops, h[p] = h[q] PROVE p = q
    OBVIOUS
  <2>1. p \in Nat /\ q \in Nat /\ h[p] \in Nat /\ h[q] \in Nat
    BY <1>3, <1>5
  <2>2. /\ p < q => h[p] < h[q]
        /\ q < p => h[q] < h[p]
    BY <1>3
  <2> QED BY <2>1, <2>2
<1>9. \A op \in ToSet(ops) : \E k \in DOMAIN graph.ops : k \notin T /\ op = m[k]
  <2> SUFFICES ASSUME NEW op \in ToSet(ops) PROVE \E k \in DOMAIN graph.ops : k \notin T /\ op = m[k]
    OBVIOUS
  <2>1. PICK p \in DOMAIN ops : op = ops[p]
    BY DEF ToSet
  <2> QED BY <2>1, <1>3, <1>5
<1>10. \A k \in DOMAIN graph.ops : k \notin T => m[k] \in ToSet(ops) /\ \E p \in DOMAIN ops : h[p] = k
  <2> SUFFICES ASSUME NEW k \in DOMAIN graph.ops, k \notin T
               PROVE  m[k] \in ToSet(ops) /\ \E p \in DOMAIN ops : h[p] = k
    OBVIOUS
  <2>1. PICK p \in DOMAIN ops : h[p] = k
    BY <1>3, <1>6
  <2>2. ops[p] = m[k]
    BY <2>1, <1>3
  <2> QED BY <2>1, <2>2 DEF ToSet
<1>11. \A p \in DOMAIN ops : h[p] \in DOMAIN graph.ops /\ h[p] \notin T /\ ops[p] = m[h[p]]
  BY <1>3, <1>5
<1>12. FusedList(graph, takers, ops, h)
  BY <1>3, <1>7, <1>8, <1>9, <1>10, <1>11 DEF FusedList, m, T
<1> QED BY <1>12 DEF ops

\* Fusion leaves a sound graph.
LEMMA FusedSound ==
  ASSUME NEW graph, Sound(graph), NEW acc, NEW takers, FusedTo(graph, acc, Len(graph.ops), takers)
  PROVE  Sound([graph EXCEPT !.ops = acc.ops])
<1> DEFINE new == [graph EXCEPT !.ops = acc.ops]
           ops == acc.ops
           m == Merged(graph, takers)
           Whose(i) == WriterOf(graph, takers, i)
           n == Len(ops)
<1>1. PICK h : FusedList(graph, takers, ops, h)
  BY FusedListHolds
<1>2. /\ ops \in Seq(Operations) /\ DOMAIN ops = 1 .. n /\ n \in Nat
      /\ \A p \in DOMAIN ops : /\ h[p] \in DOMAIN graph.ops /\ h[p] \notin Mates(graph, takers)
                               /\ ops[p] = m[h[p]]
      /\ \A p, q \in DOMAIN ops : h[p] = h[q] => p = q
      /\ \A p, q \in DOMAIN ops : p < q => h[p] < h[q]
  BY <1>1 DEF FusedList
<1>3. \A op \in ToSet(ops) : \E k \in DOMAIN graph.ops : op = m[k]
  BY <1>1 DEF FusedList
<1>4. /\ new.ops = ops /\ new.tensors = graph.tensors /\ new.inputs = graph.inputs /\ new.outputs = graph.outputs
      /\ new \in [ops : Seq(Operations), tensors : {new.tensors},
                  inputs : Seq(TensorNames), outputs : SUBSET TensorNames]
  <2> HIDE DEF ops
  <2>1. ops \in Seq(Operations)
    BY <1>2
  <2> QED BY <2>1 DEF Sound, IsGraph, ops
<1>12. \A k \in DOMAIN graph.ops : Becomes(graph, takers, k, Whose(k), m[k])
  BY FusedOperator
<1>5. \A k \in DOMAIN graph.ops :
        /\ m[k] \in Operations /\ HasArity(m[k])
        /\ Whose(k) \in DOMAIN graph.ops /\ k <= Whose(k) /\ m[k].outs = graph.ops[Whose(k)].outs
        /\ \A t \in ToSet(m[k].ins) : t \in ToSet(graph.ops[k].ins) \/ IsConstant(graph.tensors, t)
        /\ k \in takers => Fuses(graph, k, Whose(k))
  <2> HIDE DEF m, Whose, new, ops
  <2> QED BY <1>12 DEF Becomes
<1> HIDE DEF new, m, ops, Whose
<1>6. IsGraph(new)
  BY <1>4 DEF IsGraph, Sound
<1>7. \A k \in DOMAIN graph.ops :
        /\ \A t \in ToSet(m[k].outs) : t \in DOMAIN graph.tensors /\ ~IsConstant(graph.tensors, t)
        /\ \A t \in ToSet(m[k].ins) : t \in DOMAIN graph.tensors
  <2> SUFFICES ASSUME NEW k \in DOMAIN graph.ops
               PROVE /\ \A t \in ToSet(m[k].outs) : t \in DOMAIN graph.tensors /\ ~IsConstant(graph.tensors, t)
                     /\ \A t \in ToSet(m[k].ins) : t \in DOMAIN graph.tensors
    OBVIOUS
  <2>1. Whose(k) \in DOMAIN graph.ops /\ m[k].outs = graph.ops[Whose(k)].outs
    BY <1>5
  <2>2. \A t \in ToSet(m[k].outs) : t \in DOMAIN graph.tensors /\ ~IsConstant(graph.tensors, t)
    BY <2>1, SoundOperators
  <2>3. \A t \in ToSet(m[k].ins) : t \in DOMAIN graph.tensors
    <3> SUFFICES ASSUME NEW t \in ToSet(m[k].ins) PROVE t \in DOMAIN graph.tensors
      OBVIOUS
    <3>4. Becomes(graph, takers, k, Whose(k), m[k])
      BY <1>12
    <3>1. t \in ToSet(graph.ops[k].ins) \/ IsConstant(graph.tensors, t)
      BY <3>4 DEF Becomes
    <3>2. CASE t \in ToSet(graph.ops[k].ins)
      BY <3>2, SoundOperators
    <3>3. CASE IsConstant(graph.tensors, t)
      BY <3>3 DEF IsConstant
    <3> QED BY <3>1, <3>2, <3>3
  <2> QED BY <2>2, <2>3
<1>8. NamesKnown(new)
  <2> SUFFICES ASSUME NEW t \in ToSet(new.inputs) \cup new.outputs
                        \cup UNION {ToSet(op.ins) \cup ToSet(op.outs) : op \in ToSet(new.ops)}
               PROVE  t \in DOMAIN new.tensors
    BY DEF NamesKnown
  <2>1. CASE t \in ToSet(new.inputs) \cup new.outputs
    BY <2>1, <1>4 DEF Sound, NamesKnown
  <2>2. CASE t \in UNION {ToSet(op.ins) \cup ToSet(op.outs) : op \in ToSet(new.ops)}
    <3>1. PICK op \in ToSet(new.ops) : t \in ToSet(op.ins) \cup ToSet(op.outs)
      BY <2>2
    <3>2. PICK k \in DOMAIN graph.ops : op = m[k]
      BY <3>1, <1>3, <1>4
    <3> QED BY <3>1, <3>2, <1>4, <1>7
  <2> QED BY <2>1, <2>2
<1>9. InOrder(new)
  <2> DEFINE w == [p \in 1 .. n |-> Whose(h[p])]
             f == [p \in 1 .. n |-> h[p]]
  <2>1. /\ n \in Nat /\ DOMAIN new.ops = 1 .. n /\ DOMAIN graph.ops \subseteq Int
        /\ f \in [1 .. n -> DOMAIN graph.ops] /\ \A p \in 1 .. n : f[p] = h[p]
        /\ \A p, q \in 1 .. n : p < q => f[p] < f[q]
    <3>1. DOMAIN graph.ops = 1 .. Len(graph.ops) /\ Len(graph.ops) \in Nat
      BY GraphShape DEF Sound
    <3>2. DOMAIN graph.ops \subseteq Int
      BY <3>1
    <3>3. \A p \in 1 .. n : h[p] \in DOMAIN graph.ops
      BY <1>2
    <3> HIDE DEF n
    <3> QED BY <3>2, <3>3, <1>2, <1>4
  <2>2. w \in [1 .. n -> DOMAIN graph.ops] /\ \A p \in 1 .. n : w[p] = Whose(h[p])
    <3>1. \A p \in 1 .. n : Whose(h[p]) \in DOMAIN graph.ops
      BY <1>2, <1>5
    <3> HIDE DEF n
    <3> QED BY <3>1
  <2>3. ASSUME NEW p \in 1 .. n, NEW q \in 1 .. n, w[p] = w[q] PROVE p = q
    <3> DEFINE a == h[p]
               b == h[q]
    <3>1. /\ a \in DOMAIN graph.ops /\ b \in DOMAIN graph.ops /\ Whose(a) = Whose(b)
          /\ a \notin Mates(graph, takers) /\ b \notin Mates(graph, takers)
          /\ a = b => p = q
      BY <1>2, <2>2, <2>3
    <3> HIDE DEF a, b
    <3>2. CASE a \in takers /\ b \in takers
      <4> DEFINE j == Whose(a)
      <4>3. Becomes(graph, takers, a, Whose(a), m[a]) /\ Becomes(graph, takers, b, Whose(b), m[b])
        BY <3>1, <1>12
      <4>1. j \in DOMAIN graph.ops /\ Fuses(graph, a, j) /\ Fuses(graph, b, j)
        BY <4>3, <3>1, <3>2 DEF Becomes
      <4> HIDE DEF j
      <4>2. a = b
        BY <3>1, <4>1, FuseFacts
      <4> QED BY <4>2, <3>1
    <3>3. CASE a \in takers /\ b \notin takers
      BY <3>1, <3>3 DEF Mates, Whose, WriterOf
    <3>4. CASE a \notin takers /\ b \in takers
      BY <3>1, <3>4 DEF Mates, Whose, WriterOf
    <3>5. CASE a \notin takers /\ b \notin takers
      BY <3>1, <3>5 DEF Whose, WriterOf
    <3> QED BY <3>2, <3>3, <3>4, <3>5
  <2>4. ASSUME NEW p \in 1 .. n
        PROVE  /\ f[p] <= w[p]
               /\ new.ops[p].outs = graph.ops[w[p]].outs
               /\ \A t \in ToSet(new.ops[p].ins) :
                    \/ t \in ToSet(graph.ops[f[p]].ins)
                    \/ \A i \in DOMAIN graph.ops : t \notin ToSet(graph.ops[i].outs)
    <3> DEFINE k == h[p]
    <3>1. k \in DOMAIN graph.ops /\ new.ops[p] = m[k] /\ w[p] = Whose(k) /\ f[p] = k
      BY <1>2, <1>4, <2>1, <2>2
    <3> HIDE DEF k
    <3>2. k <= Whose(k) /\ m[k].outs = graph.ops[Whose(k)].outs
      BY <3>1, <1>5
    <3>6. Becomes(graph, takers, k, Whose(k), m[k])
      BY <3>1, <1>12
    <3>3. \A t \in ToSet(m[k].ins) : t \in ToSet(graph.ops[k].ins) \/ IsConstant(graph.tensors, t)
      BY <3>6 DEF Becomes
    <3>4. \A i \in DOMAIN graph.ops : \A t \in ToSet(graph.ops[i].outs) : ~IsConstant(graph.tensors, t)
      BY SoundOperators
    <3> HIDE DEF w, n, f
    <3>5. \A t \in ToSet(new.ops[p].ins) :
             \/ t \in ToSet(graph.ops[k].ins)
             \/ \A i \in DOMAIN graph.ops : t \notin ToSet(graph.ops[i].outs)
      BY <3>1, <3>3, <3>4
    <3> QED BY <3>1, <3>2, <3>5
  <2> HIDE DEF n, w, f
  <2> QED BY <2>1, <2>2, <2>3, <2>4, OrderKept DEF Sound
<1>10. \A op \in ToSet(new.ops) : HasArity(op) /\ \A t \in ToSet(op.outs) : ~IsConstant(new.tensors, t)
  BY <1>3, <1>4, <1>5, <1>7
<1>11. Sound(new)
  BY <1>6, <1>8, <1>9, <1>10 DEF Sound
<1> QED BY <1>11 DEF new

\* Fusion leaves everything supplied.
LEMMA FusedSupplied ==
  ASSUME NEW graph, Sound(graph), Supplied(graph), NEW acc, NEW takers,
         FusedTo(graph, acc, Len(graph.ops), takers), NEW h, FusedList(graph, takers, acc.ops, h),
         NEW new, new.ops = acc.ops, new.tensors = graph.tensors, new.inputs = graph.inputs, new.outputs = graph.outputs
  PROVE  Supplied(new)
<1> DEFINE m == Merged(graph, takers)
           T == Mates(graph, takers)
<1>0. \A k \in DOMAIN graph.ops : Becomes(graph, takers, k, WriterOf(graph, takers, k), Merged(graph, takers)[k])
  BY FusedOperator
<1>1. \A k \in DOMAIN graph.ops : k \notin T => m[k] \in ToSet(new.ops)
  BY DEF FusedList
<1>2. \A i \in takers : /\ i \in DOMAIN graph.ops /\ MateOf(graph, i) \in DOMAIN graph.ops
                        /\ Fuses(graph, i, MateOf(graph, i)) /\ i \notin T
  <2>1. DOMAIN graph.ops = 1 .. Len(graph.ops)
    BY GraphShape DEF Sound
  <2> QED BY <2>1 DEF FusedTo
<1>3. ASSUME NEW a \in DOMAIN graph.ops, a \notin takers, NEW t \in ToSet(graph.ops[a].outs)
      PROVE  \E op \in ToSet(new.ops) : t \in ToSet(op.outs)
  <2>1. CASE a \in T
    <3>1. PICK i \in takers : a = MateOf(graph, i)
      BY <2>1 DEF Mates
    <3>2. m[i].outs = graph.ops[a].outs /\ i \in DOMAIN graph.ops /\ i \notin T
      BY <3>1, <1>2, <1>0 DEF Becomes, WriterOf
    <3> QED BY <3>2, <1>1
  <2>2. CASE a \notin T
    <3>1. m[a].outs = graph.ops[a].outs
      BY <1>3, <1>0 DEF Becomes, WriterOf
    <3> QED BY <3>1, <2>2, <1>1
  <2> QED BY <2>1, <2>2
<1>4. ASSUME NEW t, t \in graph.outputs \/ \E k \in DOMAIN graph.ops : k \notin T /\ t \in ToSet(graph.ops[k].ins)
      PROVE  \/ t \in ToSet(new.inputs) \/ IsConstant(new.tensors, t)
             \/ \E op \in ToSet(new.ops) : t \in ToSet(op.outs)
  <2>1. t \in graph.outputs \cup UNION {ToSet(op.ins) : op \in ToSet(graph.ops)}
    BY <1>4, GraphShape DEF Sound
  <2>2. \/ t \in ToSet(graph.inputs) \/ IsConstant(graph.tensors, t)
        \/ \E op \in ToSet(graph.ops) : t \in ToSet(op.outs)
    BY <2>1 DEF Supplied
  <2>3. ASSUME NEW op \in ToSet(graph.ops), t \in ToSet(op.outs)
        PROVE  \E o \in ToSet(new.ops) : t \in ToSet(o.outs)
    <3>1. PICK a \in DOMAIN graph.ops : graph.ops[a] = op
      BY GraphShape DEF Sound
    <3>2. a \notin takers
      <4> SUFFICES ASSUME a \in takers PROVE FALSE
        OBVIOUS
      <4> DEFINE j == MateOf(graph, a)
      <4>1. j \in DOMAIN graph.ops /\ Fuses(graph, a, j) /\ j \in T
        BY <1>2 DEF Mates
      <4> HIDE DEF j, T
      <4>2. DOMAIN graph.ops[a].outs = 1 .. 1 /\ graph.ops[a].outs[1] \notin graph.outputs
            /\ \E k : OnlyRead(graph, graph.ops[a].outs[1], j, k)
        BY <3>1, <4>1, FuseFacts
      <4>3. t = graph.ops[a].outs[1]
        BY <4>2, <3>1, <2>3 DEF ToSet
      <4>4. PICK k \in DOMAIN graph.ops : k \notin T /\ t \in ToSet(graph.ops[k].ins)
        BY <4>2, <4>3, <1>4
      <4>5. k = j
        BY <4>2, <4>3, <4>4 DEF OnlyRead, ToSet
      <4> QED BY <4>1, <4>4, <4>5
    <3> QED BY <3>1, <3>2, <2>3, <1>3
  <2> QED BY <2>2, <2>3
<1>5. ASSUME NEW op \in ToSet(new.ops), NEW t \in ToSet(op.ins)
      PROVE  \/ t \in ToSet(new.inputs) \/ IsConstant(new.tensors, t)
             \/ \E o \in ToSet(new.ops) : t \in ToSet(o.outs)
  <2>1. PICK k \in DOMAIN graph.ops : k \notin T /\ op = m[k]
    BY DEF FusedList
  <2>2. t \in ToSet(graph.ops[k].ins) \/ IsConstant(graph.tensors, t)
    BY <2>1, <1>0 DEF Becomes, WriterOf
  <2>3. CASE t \in ToSet(graph.ops[k].ins)
    BY <2>3, <2>1, <1>4
  <2>4. CASE IsConstant(graph.tensors, t)
    BY <2>4
  <2> QED BY <2>2, <2>3, <2>4
<1>6. \A t \in new.outputs : \/ t \in ToSet(new.inputs) \/ IsConstant(new.tensors, t)
             \/ \E op \in ToSet(new.ops) : t \in ToSet(op.outs)
  BY <1>4
<1> QED BY <1>5, <1>6 DEF Supplied

\* What only a Relu or the caller reads stays so under fusion.
LEMMA FusedPassing ==
  ASSUME NEW graph, Sound(graph), NEW acc, NEW takers,
         FusedTo(graph, acc, Len(graph.ops), takers), NEW h, FusedList(graph, takers, acc.ops, h),
         NEW new, new.ops = acc.ops, new.tensors = graph.tensors, new.inputs = graph.inputs, new.outputs = graph.outputs
  PROVE  \A t : Passing(graph, t) => Passing(new, t)
<1> SUFFICES ASSUME NEW t, Passing(graph, t) PROVE Passing(new, t)
  OBVIOUS
<1> DEFINE m == Merged(graph, takers)
           T == Mates(graph, takers)
           ops == acc.ops
<1>0. \A k \in DOMAIN graph.ops : Becomes(graph, takers, k, WriterOf(graph, takers, k), Merged(graph, takers)[k])
  BY FusedOperator
<1>1. /\ \A p \in DOMAIN ops : h[p] \in DOMAIN graph.ops /\ h[p] \notin T /\ ops[p] = m[h[p]]
      /\ \A p, q \in DOMAIN ops : h[p] = h[q] => p = q
      /\ \A k \in DOMAIN graph.ops : k \notin T => m[k] \in ToSet(ops)
  BY DEF FusedList
<1>2. /\ t \in DOMAIN graph.tensors /\ ~IsConstant(graph.tensors, t)
      /\ t \notin graph.outputs /\ t \notin ToSet(graph.inputs)
      /\ \A i \in DOMAIN graph.ops :
           /\ t \in ToSet(graph.ops[i].outs) =>
                /\ graph.ops[i].type \in {"Conv", "Gemm"} /\ Len(graph.ops[i].outs) = 1
                /\ \E j \in DOMAIN graph.ops : t \in ToSet(graph.ops[j].ins)
           /\ t \in ToSet(graph.ops[i].ins) => graph.ops[i].type = "Relu"
      /\ \A i, j \in DOMAIN graph.ops :
           t \in ToSet(graph.ops[i].ins) /\ t \in ToSet(graph.ops[j].ins) => i = j
  BY DEF Passing
<1>3. ASSUME NEW k \in DOMAIN graph.ops, t \in ToSet(m[k].ins)
      PROVE  t \in ToSet(graph.ops[k].ins) /\ m[k].type = "Relu"
  <2>1. t \in ToSet(graph.ops[k].ins)
    BY <1>2, <1>3, <1>0 DEF Becomes, WriterOf
  <2>2. graph.ops[k].type = "Relu"
    BY <2>1, <1>2
  <2>3. k \notin takers
    BY <2>2, <1>0 DEF Becomes, WriterOf
  <2>4. m[k] = graph.ops[k]
    BY <2>3, <1>0 DEF Becomes, WriterOf
  <2> QED BY <2>1, <2>2, <2>4
<1>4. ASSUME NEW k \in DOMAIN graph.ops, t \in ToSet(m[k].outs)
      PROVE  /\ m[k].type \in {"Conv", "Gemm"} /\ Len(m[k].outs) = 1
             /\ \E q \in DOMAIN ops : t \in ToSet(ops[q].ins)
  <2> DEFINE w == WriterOf(graph, takers, k)
  <2>1. /\ w \in DOMAIN graph.ops /\ m[k].outs = graph.ops[w].outs
        /\ k \in takers => graph.ops[w].type \in {"Relu", "Add"}
        /\ k \notin takers => m[k] = graph.ops[k]
    BY <1>0 DEF Becomes, WriterOf
  <2>2. w \in DOMAIN graph.ops /\ t \in ToSet(graph.ops[w].outs)
    BY <2>1, <1>4
  <2>3. graph.ops[w].type \in {"Conv", "Gemm"} /\ Len(graph.ops[w].outs) = 1
        /\ \E j \in DOMAIN graph.ops : t \in ToSet(graph.ops[j].ins)
    <3> HIDE DEF w
    <3> QED BY <2>2, <1>2
  <2>4. k \notin takers
    <3> HIDE DEF w
    <3> QED BY <2>1, <2>3
  <2>5. w = k /\ m[k] = graph.ops[k]
    BY <2>1, <2>4 DEF WriterOf
  <2>6. PICK j \in DOMAIN graph.ops : t \in ToSet(graph.ops[j].ins)
    BY <2>3
  <2>7. graph.ops[j].type = "Relu"
    BY <2>6, <1>2
  <2>8. j \notin T
    <3> SUFFICES ASSUME j \in T PROVE FALSE
      OBVIOUS
    <3>1. PICK i \in takers : j = MateOf(graph, i)
      BY DEF Mates
    <3>2. i \in DOMAIN graph.ops /\ Fuses(graph, i, j)
      <4>1. DOMAIN graph.ops = 1 .. Len(graph.ops)
        BY GraphShape DEF Sound
      <4> QED BY <3>1, <4>1 DEF FusedTo
    <3>3. graph.ops[i].outs[1] \in ToSet(graph.ops[j].ins)
      BY <3>2 DEF Fuses
    <3>4. DOMAIN graph.ops[j].ins = 1 .. 1
      <4>1. graph.ops[j] \in Operations /\ HasArity(graph.ops[j])
        BY SoundOperators, GraphShape DEF Sound
      <4> QED BY <4>1, <2>7, Operands
    <3>5. graph.ops[i].outs[1] = t
      BY <3>3, <3>4, <2>6 DEF ToSet
    <3>6. 1 \in DOMAIN graph.ops[i].outs
      BY <3>2, SoundOperators
    <3>7. PICK x \in DOMAIN graph.ops[k].outs : graph.ops[k].outs[x] = t
      BY <2>2, <2>5 DEF ToSet
    <3>8. i = k
      BY <3>2, <3>5, <3>6, <3>7 DEF Sound, InOrder
    <3> QED BY <3>1, <3>8, <2>4
  <2>9. j \notin takers
    BY <2>7, <1>0 DEF Becomes, WriterOf
  <2>10. m[j] = graph.ops[j]
    BY <2>9, <1>0 DEF Becomes, WriterOf
  <2>11. m[j] \in ToSet(ops)
    BY <2>8, <1>1
  <2>12. \E q \in DOMAIN ops : ops[q] = m[j]
    BY <2>11 DEF ToSet
  <2>13. \E q \in DOMAIN ops : t \in ToSet(ops[q].ins)
    BY <2>12, <2>10, <2>6
  <2>14. m[k].type \in {"Conv", "Gemm"} /\ Len(m[k].outs) = 1
    <3>1. graph.ops[k].type \in {"Conv", "Gemm"} /\ Len(graph.ops[k].outs) = 1
      BY <2>3, <2>5
    <3> QED BY <3>1, <2>5
  <2> QED BY <2>13, <2>14
<1> HIDE DEF m, T
<1>5. \A p \in DOMAIN ops :
         /\ t \in ToSet(ops[p].outs) =>
              /\ ops[p].type \in {"Conv", "Gemm"} /\ Len(ops[p].outs) = 1
              /\ \E q \in DOMAIN ops : t \in ToSet(ops[q].ins)
         /\ t \in ToSet(ops[p].ins) => ops[p].type = "Relu"
  BY <1>1, <1>3, <1>4
<1>6. \A p, q \in DOMAIN ops : t \in ToSet(ops[p].ins) /\ t \in ToSet(ops[q].ins) => p = q
  <2> SUFFICES ASSUME NEW p \in DOMAIN ops, NEW q \in DOMAIN ops,
                      t \in ToSet(ops[p].ins), t \in ToSet(ops[q].ins)
               PROVE  p = q
    OBVIOUS
  <2>1. t \in ToSet(graph.ops[h[p]].ins) /\ t \in ToSet(graph.ops[h[q]].ins)
    BY <1>1, <1>3
  <2>2. h[p] = h[q]
    BY <2>1, <1>1, <1>2
  <2> QED BY <2>2, <1>1
<1> QED BY <1>2, <1>5, <1>6 DEF Passing

-----------------------------------------------------------------------------
(* Names, pruning and the generator. *)

\* Every tensor that is named is stored under its own name.
ProperlyNamed(graph) ==
  \A t \in Named(graph.ops, graph.inputs, graph.outputs) : graph.tensors[t].name = t

\* A tensor under another name is shared by two operators that can be fused.
LEMMA PassingFuses ==
  ASSUME NEW graph, Sound(graph), NEW t, Passing(graph, t),
         NEW i \in DOMAIN graph.ops, t \in ToSet(graph.ops[i].outs)
  PROVE  \E j \in DOMAIN graph.ops : Fuses(graph, i, j)
<1>1. /\ t \notin graph.outputs
      /\ graph.ops[i].type \in {"Conv", "Gemm"} /\ Len(graph.ops[i].outs) = 1
      /\ \E j \in DOMAIN graph.ops : t \in ToSet(graph.ops[j].ins)
      /\ \A k \in DOMAIN graph.ops : t \in ToSet(graph.ops[k].ins) => graph.ops[k].type = "Relu"
      /\ \A k, l \in DOMAIN graph.ops :
           t \in ToSet(graph.ops[k].ins) /\ t \in ToSet(graph.ops[l].ins) => k = l
  BY DEF Passing
<1>2. PICK j \in DOMAIN graph.ops : t \in ToSet(graph.ops[j].ins)
  BY <1>1
<1>3. graph.ops[j].type = "Relu"
  BY <1>1, <1>2
<1>4. /\ graph.ops[j] \in Operations /\ HasArity(graph.ops[j])
      /\ graph.ops[i] \in Operations /\ HasArity(graph.ops[i])
  BY SoundOperators, GraphShape DEF Sound
<1>5. DOMAIN graph.ops[j].ins = 1 .. 1 /\ DOMAIN graph.ops[i].outs = 1 .. 1
  <2>1. DOMAIN graph.ops[j].ins = 1 .. 1
    BY <1>3, <1>4, Operands
  <2>2. DOMAIN graph.ops[i].outs = 1 .. 1
    BY <1>1, <1>4, Operands
  <2> QED BY <2>1, <2>2
<1>6. graph.ops[i].outs[1] = t /\ graph.ops[j].ins[1] = t
  BY <1>2, <1>5 DEF ToSet
<1>7. OnlyRead(graph, t, j, 1)
  <2>1. ASSUME NEW k \in DOMAIN graph.ops, NEW l \in DOMAIN graph.ops[k].ins, graph.ops[k].ins[l] = t
        PROVE  k = j /\ l = 1
    <3>1. t \in ToSet(graph.ops[k].ins)
      BY <2>1 DEF ToSet
    <3>2. k = j
      BY <3>1, <1>1, <1>2
    <3>3. l \in 1 .. 1
      BY <3>2, <1>5
    <3> QED BY <3>2, <3>3
  <2> QED BY <2>1, <1>5, <1>6 DEF OnlyRead
<1>8. ConsumerCount(graph, t) = 1
  BY <1>7, OneConsumer DEF Sound
<1>9. i < j
  <2>1. ToSet(graph.ops[i].outs) \cap ToSet(graph.ops[j].ins) # {}
    BY <1>2
  <2> QED BY <2>1 DEF Sound, InOrder
<1>10. j > i
  <2>1. i \in Int /\ j \in Int
    BY GraphShape DEF Sound
  <2> QED BY <2>1, <1>9
<1>11. HasRule(graph.ops[i].type, "Relu")
  <2>1. HasRule("Conv", "Relu") /\ HasRule("Gemm", "Relu")
    BY DEF HasRule, FusedType
  <2> QED BY <2>1, <1>1
<1>12. graph.ops[i].type # "MatMul"
  BY <1>1
<1>13. Fuses(graph, i, j)
  BY <1>1, <1>2, <1>3, <1>6, <1>8, <1>10, <1>11, <1>12 DEF Fuses
<1> QED BY <1>13

\* One sweep of fusion.
LEMMA FusedGraph ==
  ASSUME NEW graph, Sound(graph), NEW r, r = FuseSweep(graph),
         NEW new, new = [graph EXCEPT !.ops = r.ops]
  PROVE  /\ Sound(new)
         /\ Healthy(graph) => Healthy(new)
         /\ Healthy(graph) /\ r.taken = {} => ProperlyNamed(new)
<1>1. PICK takers : FusedTo(graph, r, Len(graph.ops), takers)
  BY FuseDone
<1>2. Sound(new)
  BY <1>1, FusedSound
<1>3. new.ops = r.ops /\ new.tensors = graph.tensors /\ new.inputs = graph.inputs /\ new.outputs = graph.outputs
  BY DEF Sound, IsGraph
<1>4. PICK h : FusedList(graph, takers, r.ops, h)
  BY <1>1, FusedListHolds
<1>5. \A k \in DOMAIN graph.ops : Becomes(graph, takers, k, WriterOf(graph, takers, k), Merged(graph, takers)[k])
  BY <1>1, FusedOperator
<1>6. ASSUME Healthy(graph) PROVE Healthy(new)
  <2>1. /\ Supplied(graph) /\ ~TooLarge(graph)
        /\ \A op \in ToSet(graph.ops) : op.type \in SupportedOps
        /\ \A t \in DOMAIN graph.tensors : graph.tensors[t].name # t => Passing(graph, t)
    BY <1>6 DEF Healthy
  <2>2. Supplied(new)
    BY <2>1, <1>1, <1>3, <1>4, FusedSupplied
  <2>3. ASSUME NEW op \in ToSet(new.ops)
        PROVE  op.type \in SupportedOps /\ ~(Len(op.ins) > MaxInputs) /\ ~(Len(op.outs) > MaxOutputs)
    <3>1. PICK k \in DOMAIN graph.ops : op = Merged(graph, takers)[k]
      BY <1>3, <1>4 DEF FusedList
    <3> DEFINE w == WriterOf(graph, takers, k)
    <3>2. Becomes(graph, takers, k, w, op)
      BY <3>1, <1>5
    <3> HIDE DEF w
    <3>3. /\ w \in DOMAIN graph.ops /\ op.outs = graph.ops[w].outs
          /\ Len(op.ins) \in {Len(graph.ops[k].ins), 3}
          /\ graph.ops[k].type \in SupportedOps => op.type \in SupportedOps
      BY <3>2 DEF Becomes
    <3>4. /\ ~(Len(graph.ops[k].ins) > MaxInputs) /\ ~(Len(graph.ops[w].outs) > MaxOutputs)
          /\ graph.ops[k].type \in SupportedOps
      BY <2>1, <3>3, GraphShape DEF TooLarge, Sound
    <3>5. ~(3 > MaxInputs)
      BY LimitsAssumption
    <3> QED BY <3>3, <3>4, <3>5
  <2>4. ~TooLarge(new)
    BY <2>1, <2>3, <1>3 DEF TooLarge
  <2>6. \A t : Passing(graph, t) => Passing(new, t)
    BY <1>1, <1>3, <1>4, FusedPassing
  <2>5. \A t \in DOMAIN new.tensors : new.tensors[t].name # t => Passing(new, t)
    <3> SUFFICES ASSUME NEW t \in DOMAIN new.tensors, new.tensors[t].name # t PROVE Passing(new, t)
      OBVIOUS
    <3>1. Passing(graph, t)
      BY <2>1, <1>3
    <3> QED BY <3>1, <2>6
  <2> QED BY <2>2, <2>3, <2>4, <2>5, <1>2 DEF Healthy
<1>7. ASSUME Healthy(graph), r.taken = {} PROVE ProperlyNamed(new)
  <2>1. /\ Supplied(graph)
        /\ \A t \in DOMAIN graph.tensors : graph.tensors[t].name # t => Passing(graph, t)
    BY <1>7 DEF Healthy
  <2>2. takers = {} /\ Mates(graph, takers) = {}
    <3>1. Mates(graph, takers) = {}
      BY <1>1, <1>7 DEF FusedTo
    <3> QED BY <3>1 DEF Mates
  <2>3. \A i, j \in DOMAIN graph.ops : ~Fuses(graph, i, j)
    <3>1. DOMAIN graph.ops = 1 .. Len(graph.ops)
      BY GraphShape DEF Sound
    <3> QED BY <3>1, <2>2, <1>1 DEF FusedTo
  <2>4. \A op \in ToSet(new.ops) : \E k \in DOMAIN graph.ops : op = graph.ops[k]
    <3> SUFFICES ASSUME NEW op \in ToSet(new.ops) PROVE \E k \in DOMAIN graph.ops : op = graph.ops[k]
      OBVIOUS
    <3>1. PICK k \in DOMAIN graph.ops : op = Merged(graph, takers)[k]
      BY <1>3, <1>4 DEF FusedList
    <3>2. Merged(graph, takers)[k] = graph.ops[k]
      BY <2>2 DEF Merged
    <3> QED BY <3>1, <3>2
  <2> SUFFICES ASSUME NEW t \in Named(new.ops, new.inputs, new.outputs), new.tensors[t].name # t
               PROVE  FALSE
    BY DEF ProperlyNamed
  <2>5. t \in DOMAIN graph.tensors
    <3>1. NamesKnown(new)
      BY <1>2 DEF Sound
    <3> QED BY <3>1, <1>3 DEF NamesKnown, Named
  <2>6. Passing(graph, t)
    BY <2>1, <2>5, <1>3
  <2>7. t \notin graph.outputs /\ t \notin ToSet(graph.inputs) /\ ~IsConstant(graph.tensors, t)
    BY <2>6 DEF Passing
  <2>8. PICK k \in DOMAIN graph.ops : t \in ToSet(graph.ops[k].ins) \cup ToSet(graph.ops[k].outs)
    <3>1. t \in UNION {ToSet(op.ins) \cup ToSet(op.outs) : op \in ToSet(new.ops)}
      BY <2>7, <1>3 DEF Named
    <3>2. PICK op \in ToSet(new.ops) : t \in ToSet(op.ins) \cup ToSet(op.outs)
      BY <3>1
    <3> QED BY <3>2, <2>4
  <2>9. \E i \in DOMAIN graph.ops : t \in ToSet(graph.ops[i].outs)
    <3>1. CASE t \in ToSet(graph.ops[k].outs)
      BY <3>1
    <3>2. CASE t \in ToSet(graph.ops[k].ins)
      <4>1. t \in graph.outputs \cup UNION {ToSet(op.ins) : op \in ToSet(graph.ops)}
        BY <3>2, GraphShape DEF Sound
      <4>2. PICK op \in ToSet(graph.ops) : t \in ToSet(op.outs)
        BY <4>1, <2>1, <2>7 DEF Supplied
      <4>3. \E i \in DOMAIN graph.ops : graph.ops[i] = op
        BY GraphShape DEF Sound
      <4> QED BY <4>2, <4>3
    <3> QED BY <3>1, <3>2, <2>8
  <2> QED BY <2>3, <2>6, <2>9, PassingFuses
<1> QED BY <1>2, <1>6, <1>7

\* Without aliases pruning keeps what is named.
LEMMA KeptWithoutAliases ==
  ASSUME NEW tables, NEW names
  PROVE  Kept(tables, names, <<>>) = (DOMAIN tables) \cap names
<1> DEFINE none == <<>>
           c == Cardinality(DOMAIN none)
           Is(f) == f = [n \in 0 .. c |->
                           IF n = 0 THEN names ELSE f[n - 1] \cup {none[t] : t \in f[n - 1] \cap DOMAIN none}]
           Chain == CHOOSE f : Is(f)
<1>1. c = 0
  <2>1. DOMAIN none = {}
    OBVIOUS
  <2> QED BY <2>1, FS_EmptySet
<1>2. Kept(tables, names, none) = (DOMAIN tables) \cap Chain[c]
  BY DEF Kept
<1> HIDE DEF none, c
<1>3. \E f : Is(f)
  <2> DEFINE f == [n \in 0 .. c |-> names]
  <2>1. \A n \in 0 .. c : n = 0
    BY <1>1
  <2>2. Is(f)
    BY <2>1
  <2> QED BY <2>2
<1>4. Is(Chain)
  BY <1>3
<1> HIDE DEF Chain
<1>5. Chain[c] = names
  BY <1>1, <1>4
<1> QED BY <1>2, <1>5 DEF none

\* What validation and the generator accept.
Accepted(graph) == NamesKnown(graph) /\ InOrder(graph) /\ ~Refused(graph) /\ ~SlotMissing(graph)

\* Pruning leaves a sound graph, and one the generator accepts.
LEMMA PrunedGraph ==
  ASSUME NEW graph, Sound(graph), NEW kept, kept = Kept(graph.tensors, Named(graph.ops, graph.inputs, graph.outputs), <<>>),
         NEW new, new = [graph EXCEPT !.tensors = [t \in kept |-> graph.tensors[t]]]
  PROVE  Sound(new) /\ (Healthy(graph) /\ ProperlyNamed(graph) => Accepted(new))
<1> DEFINE named == Named(graph.ops, graph.inputs, graph.outputs)
<1>1. named \subseteq DOMAIN graph.tensors
  BY DEF Named, NamesKnown, Sound
<1>2. kept = named
  <2>1. kept = (DOMAIN graph.tensors) \cap named
    BY KeptWithoutAliases
  <2> QED BY <1>1, <2>1
<1>3. /\ new.ops = graph.ops /\ new.inputs = graph.inputs /\ new.outputs = graph.outputs
      /\ new.tensors = [t \in kept |-> graph.tensors[t]]
      /\ new \in [ops : Seq(Operations), tensors : {new.tensors}, inputs : Seq(TensorNames), outputs : SUBSET TensorNames]
  BY DEF Sound, IsGraph
<1>4. DOMAIN new.tensors = named /\ \A t \in named : new.tensors[t] = graph.tensors[t]
  BY <1>2, <1>3
<1>5. IsGraph(new)
  BY <1>1, <1>3, <1>4 DEF IsGraph, Sound
<1>6. NamesKnown(new)
  BY <1>3, <1>4 DEF NamesKnown, Named
<1>7. InOrder(new)
  <2>1. InOrder(graph) /\ new.ops = graph.ops
    BY <1>3 DEF Sound
  <2> QED BY <2>1 DEF InOrder
<1>8. \A t \in named : IsConstant(new.tensors, t) <=> IsConstant(graph.tensors, t)
  BY <1>1, <1>4 DEF IsConstant
<1> HIDE DEF named
<1>9. \A op \in ToSet(new.ops) : \A t \in ToSet(op.outs) : t \in named
  BY <1>3 DEF Named, named
<1>10. Sound(new)
  BY <1>3, <1>5, <1>6, <1>7, <1>8, <1>9 DEF Sound
<1>11. ASSUME Healthy(graph), ProperlyNamed(graph) PROVE Accepted(new)
  <2>1. Supplied(graph) /\ ~TooLarge(graph) /\ \A op \in ToSet(graph.ops) : op.type \in SupportedOps
    BY <1>11 DEF Healthy
  <2>2. ASSUME NEW t \in ActivationKeys(new) PROVE t \in Allocated(new) /\ new.tensors[t].name = t
    <3>1. t \in named /\ ~IsConstant(new.tensors, t) /\ ~IsConstant(graph.tensors, t)
      BY <1>4, <1>8 DEF ActivationKeys
    <3>2. new.tensors[t].name = t
      BY <3>1, <1>4, <1>11 DEF ProperlyNamed, named
    <3>3. t \in ToSet(graph.inputs) \/ \E op \in ToSet(graph.ops) : t \in ToSet(op.outs)
      <4>1. CASE t \in ToSet(graph.inputs) \/ \E op \in ToSet(graph.ops) : t \in ToSet(op.outs)
        BY <4>1
      <4>2. CASE t \in graph.outputs \cup UNION {ToSet(op.ins) : op \in ToSet(graph.ops)}
        BY <4>2, <3>1, <2>1 DEF Supplied
      <4> QED BY <4>1, <4>2, <3>1 DEF named, Named
    <3>4. t \in ToSet(new.inputs) \cup UNION {ToSet(op.outs) : op \in ToSet(new.ops)}
      BY <3>3, <1>3
    <3> QED BY <3>1, <3>2, <3>4 DEF Allocated
  <2>3. ~TooLarge(new)
    BY <2>1, <1>1, <1>3, <1>4 DEF TooLarge
  <2>4. ~Refused(new)
    BY <2>1, <2>2, <2>3, <1>3 DEF Refused
  <2>5. ~SlotMissing(new)
    BY <2>2 DEF SlotMissing
  <2> QED BY <2>4, <2>5, <1>6, <1>7 DEF Accepted
<1> QED BY <1>10, <1>11

-----------------------------------------------------------------------------
(* The passes one after the other. *)

\* What holds of the graph after each pass.
PassInv ==
  /\ source \in SourceGraphs
  /\ stage \in {"ingested", "folded", "absorbed", "fused", "pruned", "valid", "emitted", "raised"}
  /\ stage \notin {"emitted", "raised"} => Sound(g)
  /\ stage \in {"ingested", "folded"} => FoldPhase(source, g)
  /\ stage = "folded" => Settled(g)
  /\ ~Excused(source) =>
       /\ stage \in {"absorbed", "fused"} => Healthy(g)
       /\ stage = "fused" => ProperlyNamed(g)
       /\ stage \in {"pruned", "valid"} => Accepted(g)
       /\ stage # "raised"

\* It holds of what ingestion leaves,
LEMMA PassInvInit ==
  ASSUME Init
  PROVE  PassInv
<1>1. IsIngested(source) /\ g = source /\ stage = "ingested" /\ source \in SourceGraphs
  BY SourceAssumption DEF Init
<1>2. Sound(source) /\ FoldPhase(source, source)
  BY <1>1, SourceSound
<1> QED BY <1>1, <1>2 DEF PassInv

\* after a sweep of folding,
LEMMA FoldInv ==
  ASSUME PassInv, Fold
  PROVE  PassInv'
<1> DEFINE r == FoldSweep(g)
           new == [g EXCEPT !.ops = r.ops, !.tensors = r.tensors]
<1>1. /\ source \in SourceGraphs /\ IsIngested(source) /\ stage = "ingested" /\ source' = source
      /\ Sound(g) /\ FoldPhase(source, g)
  BY SourceAssumption DEF PassInv, Fold
<1>2. /\ r.raised => ~FoldsPlainly(source)
      /\ ~r.raised =>
           /\ Sound(new) /\ FoldPhase(source, new)
           /\ ~r.changed => Settled(new)
  BY <1>1, FoldFacts DEF Settled
<1>3. CASE r.raised
  <2>1. g' = g /\ stage' = "raised"
    BY <1>3 DEF Fold, Raise
  <2>2. Excused(source)
    BY <1>2, <1>3 DEF Excused, FoldsPlainly
  <2> QED BY <1>1, <2>1, <2>2 DEF PassInv
<1>4. CASE ~r.raised
  <2>1. g' = new /\ stage' = IF r.changed THEN "ingested" ELSE "folded"
    BY <1>4 DEF Fold
  <2> HIDE DEF r, new
  <2>2. CASE r.changed
    BY <1>1, <1>2, <1>4, <2>1, <2>2 DEF PassInv
  <2>3. CASE ~r.changed
    BY <1>1, <1>2, <1>4, <2>1, <2>3 DEF PassInv
  <2> QED BY <2>2, <2>3
<1> QED BY <1>3, <1>4

\* after absorption,
LEMMA AbsorbInv ==
  ASSUME PassInv, AbsorbBatchNorms
  PROVE  PassInv'
<1> DEFINE r == Absorb(g)
<1>1. /\ source \in SourceGraphs /\ IsIngested(source) /\ stage = "folded" /\ source' = source
      /\ Sound(g) /\ FoldPhase(source, g) /\ Settled(g)
  BY SourceAssumption DEF PassInv, AbsorbBatchNorms
<1>2. ~Excused(source) => ~r.raised /\ Healthy(r.g)
  BY <1>1, AbsorbedGraph DEF Excused
<1>3. ~r.raised => Sound(r.g)
  <2> SUFFICES ASSUME ~r.raised PROVE Sound(r.g)
    OBVIOUS
  <2>1. Fresh(g)
    BY <1>1, FoldedFresh
  <2>2. PICK ops, ts, h : /\ r.g = [g EXCEPT !.tensors = ts, !.ops = ops]
                          /\ Thinned(ops, AfterAbsorption(g), (DOMAIN g.ops) \ Consumed(g), h)
                          /\ Repainted(g, ts, Absorbing(g))
    BY <1>1, <2>1, AbsorbDone
  <2> HIDE DEF r
  <2>3. Sound([g EXCEPT !.tensors = ts, !.ops = ops])
    BY <2>1, <2>2, <1>1, AbsorbedSound
  <2> QED BY <2>2, <2>3
<1>4. CASE r.raised
  <2>1. g' = g /\ stage' = "raised"
    BY <1>4 DEF AbsorbBatchNorms, Raise
  <2> HIDE DEF r
  <2> QED BY <1>1, <1>2, <1>4, <2>1 DEF PassInv
<1>5. CASE ~r.raised
  <2>1. g' = r.g /\ stage' = "absorbed"
    BY <1>5 DEF AbsorbBatchNorms
  <2> HIDE DEF r
  <2> QED BY <1>1, <1>2, <1>3, <1>5, <2>1 DEF PassInv
<1> QED BY <1>4, <1>5

\* after a sweep of fusion,
LEMMA FuseInv ==
  ASSUME PassInv, Fuse
  PROVE  PassInv'
<1> DEFINE r == FuseSweep(g)
           new == [g EXCEPT !.ops = r.ops]
<1>1. /\ source \in SourceGraphs /\ stage = "absorbed" /\ source' = source /\ Sound(g)
      /\ ~Excused(source) => Healthy(g)
  BY DEF PassInv, Fuse
<1>2. g' = new /\ stage' = IF r.taken # {} THEN "absorbed" ELSE "fused"
  BY DEF Fuse
<1>3. /\ Sound(new)
      /\ Healthy(g) => Healthy(new)
      /\ Healthy(g) /\ r.taken = {} => ProperlyNamed(new)
  BY <1>1, FusedGraph
<1> HIDE DEF r, new
<1>4. CASE r.taken # {}
  BY <1>1, <1>2, <1>3, <1>4 DEF PassInv
<1>5. CASE r.taken = {}
  BY <1>1, <1>2, <1>3, <1>5 DEF PassInv
<1> QED BY <1>4, <1>5

\* after pruning,
LEMMA PruneInv ==
  ASSUME PassInv, PruneTensors
  PROVE  PassInv'
<1> DEFINE kept == Kept(g.tensors, Named(g.ops, g.inputs, g.outputs), <<>>)
           new == [g EXCEPT !.tensors = [t \in kept |-> g.tensors[t]]]
<1>1. /\ source \in SourceGraphs /\ stage = "fused" /\ source' = source /\ Sound(g)
      /\ ~Excused(source) => Healthy(g) /\ ProperlyNamed(g)
  BY DEF PassInv, PruneTensors
<1>2. g' = new /\ stage' = "pruned"
  BY DEF PruneTensors
<1>3. Sound(new) /\ (Healthy(g) /\ ProperlyNamed(g) => Accepted(new))
  BY <1>1, PrunedGraph
<1> HIDE DEF new
<1> QED BY <1>1, <1>2, <1>3 DEF PassInv

\* after the second validation,
LEMMA ValidateInv ==
  ASSUME PassInv, Validate
  PROVE  PassInv'
<1>1. /\ source \in SourceGraphs /\ stage = "pruned" /\ source' = source /\ Sound(g) /\ g' = g
      /\ ~Excused(source) => Accepted(g)
      /\ stage' \in {"valid", "raised"}
  BY DEF PassInv, Validate
<1>2. Accepted(g) => stage' = "valid"
  BY DEF Accepted, Validate
<1> QED BY <1>1, <1>2 DEF PassInv

\* and after emission.
LEMMA EmitInv ==
  ASSUME PassInv, Emit
  PROVE  PassInv'
<1>1. /\ source \in SourceGraphs /\ stage = "valid" /\ source' = source
      /\ ~Excused(source) => Accepted(g)
      /\ stage' \in {"emitted", "raised"}
  BY DEF PassInv, Emit, Raise
<1>2. Accepted(g) => stage' = "emitted"
  BY DEF Accepted, Emit
<1> QED BY <1>1, <1>2 DEF PassInv

\* The passes keep PassInv (main.py:38-75), whatever the source graphs.
THEOREM PassesInvariant == Spec => []PassInv
<1>1. Init => PassInv
  BY PassInvInit
<1>2. PassInv /\ [Next]_vars => PassInv'
  <2> SUFFICES ASSUME PassInv, [Next]_vars PROVE PassInv'
    OBVIOUS
  <2>1. CASE Fold
    BY <2>1, FoldInv
  <2>2. CASE AbsorbBatchNorms
    BY <2>2, AbsorbInv
  <2>3. CASE Fuse
    BY <2>3, FuseInv
  <2>4. CASE PruneTensors
    BY <2>4, PruneInv
  <2>5. CASE Validate
    BY <2>5, ValidateInv
  <2>6. CASE Emit
    BY <2>6, EmitInv
  <2>7. CASE UNCHANGED vars
    BY <2>7 DEF vars, PassInv
  <2> QED BY <2>1, <2>2, <2>3, <2>4, <2>5, <2>6, <2>7 DEF Next
<1> QED BY <1>1, <1>2, PTL DEF Spec

\* A source graph is refused only for a reason that RefusesOnlyWhatItMust names
\* (main.py:38-75), whatever the source graphs.
THEOREM Refusals == Spec => []RefusesOnlyWhatItMust
<1>1. PassInv => RefusesOnlyWhatItMust
  BY DEF PassInv, RefusesOnlyWhatItMust, Excused
<1> QED BY <1>1, PassesInvariant, PTL

-----------------------------------------------------------------------------
(* Folding keeps the function. *)

\* What stays in new of the values V.
Carried(new, V) ==
  [t \in DOMAIN new.tensors |-> IF Written(new, t) THEN V[t] ELSE Held(new, t)]

\* A pass keeps what the caller sees if the operators it leaves compute what they
\* computed, from what it leaves.
LEMMA CarriedOver ==
  ASSUME NEW graph, Sound(graph), NEW new, Sound(new), new.outputs = graph.outputs,
         \A k \in DOMAIN new.ops : \A t \in ToSet(new.ops[k].outs) :
           Values(graph)[t] = Compute(new.ops[k], Carried(new, Values(graph))),
         \A t \in graph.outputs : Written(new, t) \/ Held(new, t) = Values(graph)[t]
  PROVE  Outputs(new) = Outputs(graph)
<1> DEFINE V == Values(graph)
           W == Carried(new, V)
<1>1. \A t \in DOMAIN new.tensors : W[t] = IF Written(new, t) THEN V[t] ELSE Held(new, t)
  BY DEF Carried
<1>2. \A t \in graph.outputs : t \in DOMAIN new.tensors
  BY DEF Sound, NamesKnown
<1>3. \A k \in DOMAIN new.ops : \A t \in ToSet(new.ops[k].outs) : t \in DOMAIN new.tensors /\ Written(new, t)
  BY SoundOperators DEF Written
<1>6. \A k \in DOMAIN new.ops : \A t \in ToSet(new.ops[k].outs) : V[t] = Compute(new.ops[k], W)
  OBVIOUS
<1>7. \A t \in graph.outputs : Written(new, t) \/ Held(new, t) = V[t]
  OBVIOUS
<1> HIDE DEF V, W
<1>4. Means(new, W)
  <2>1. \A t \in DOMAIN new.tensors : ~Written(new, t) => W[t] = Held(new, t)
    BY <1>1
  <2>2. \A k \in DOMAIN new.ops : \A t \in ToSet(new.ops[k].outs) : W[t] = Compute(new.ops[k], W)
    BY <1>1, <1>3, <1>6
  <2> QED BY <2>1, <2>2 DEF Means
<1>5. \A t \in graph.outputs : W[t] = V[t]
  BY <1>1, <1>2, <1>7
<1> QED BY <1>4, <1>5, SameOutputs DEF V

\* What is folded into a tensor is what its operator computes.
LEMMA FoldMeans ==
  ASSUME NEW graph, Sound(graph), NEW ts, NEW gone, gone \subseteq DOMAIN graph.ops,
         FoldsTo(graph, ts, gone),
         \A t \in DOMAIN ts : ts[t].as = ts[t].dtype /\ OpOf(ts[t].val) # "otherwise"
  PROVE  \A t : IsConstant(ts, t) => Values(graph)[t] = Read(ts[t])
<1> DEFINE V == Values(graph)
           n == Len(graph.ops)
           G == {m \in Nat : \A j \in gone : j <= m => V[graph.ops[j].outs[1]] = Read(ts[graph.ops[j].outs[1]])}
<1>1. n \in Nat /\ DOMAIN graph.ops = 1 .. n /\ DOMAIN ts = DOMAIN graph.tensors
  BY GraphShape DEF Sound, FoldsTo
<1>2. Means(graph, V)
  BY ValuesMean
<1>3. \A t : IsConstant(graph.tensors, t) => ts[t] = graph.tensors[t]
  BY FoldTensors
<1>4. \A t : IsConstant(ts, t) =>
              IsConstant(graph.tensors, t) \/ \E j \in gone : graph.ops[j].outs[1] = t
  BY FoldTensors
<1>5. \A t : IsConstant(graph.tensors, t) => V[t] = Read(ts[t])
  BY <1>3, ConstantMeans
<1> HIDE DEF V, n
<1>6. 0 \in G
  BY <1>1
<1>7. ASSUME NEW m \in Nat, m \in G PROVE m + 1 \in G
  <2> SUFFICES ASSUME NEW j \in gone, j <= m + 1
               PROVE  V[graph.ops[j].outs[1]] = Read(ts[graph.ops[j].outs[1]])
    OBVIOUS
  <2> DEFINE op == graph.ops[j]
             t == op.outs[1]
             a == [x \in DOMAIN op.ins |-> V[op.ins[x]]]
             b == [x \in DOMAIN op.ins |-> Read(ts[op.ins[x]])]
  <2>1. j \in DOMAIN graph.ops /\ j \in Nat
    BY <1>1
  <2>2. /\ \A x \in DOMAIN op.ins : IsConstant(ts, op.ins[x])
        /\ ts[t].val = Result(op.type, op.attr, b)
    <3> DEFINE operands == [x \in DOMAIN op.ins |-> ts[op.ins[x]]]
               as == ArrayType(op, operands)
               val == ArrayValue(op, operands)
               dtype == graph.tensors[t].dtype
               shape == ArrayShape(op, operands, graph.tensors[t].shape)
               made == Made(graph, ts, op)
               result == ResultOf(op, operands)
    <3>1. \A x \in DOMAIN op.ins : IsConstant(ts, op.ins[x])
      BY DEF FoldsTo
    <3>2. ts[t] = made /\ t \in DOMAIN ts
      BY <1>1, <2>1, SoundOperators DEF FoldsTo
    <3>3. made = Constant(t, dtype, shape, val, as)
      BY DEF Made
    <3>4. [k \in DOMAIN operands |-> Read(operands[k])] = b
      OBVIOUS
    <3>5. result = Result(op.type, op.attr, [k \in DOMAIN operands |-> Read(operands[k])])
      BY DEF ResultOf
    <3>6. val = IF Deviates(op, result) THEN Term("otherwise", <<>>, <<result>>) ELSE result
      BY DEF ArrayValue
    <3> HIDE DEF as, val, dtype, shape, op, t, b, made, operands, result
    <3>7. ts[t].val = val
      BY <3>2, <3>3 DEF Constant
    <3>8. OpOf(val) # "otherwise"
      BY <3>2, <3>7
    <3>9. OpOf(Term("otherwise", <<>>, <<result>>)) = "otherwise"
      BY DEF OpOf, Term
    <3>10. val = Result(op.type, op.attr, b)
      BY <3>4, <3>5, <3>6, <3>8, <3>9
    <3> QED BY <3>1, <3>7, <3>10
  <2>3. ASSUME NEW x \in DOMAIN op.ins PROVE V[op.ins[x]] = Read(ts[op.ins[x]])
    <3> DEFINE u == op.ins[x]
    <3>1. IsConstant(ts, u) /\ u \in ToSet(op.ins)
      BY <2>2 DEF ToSet
    <3> HIDE DEF u, op
    <3>2. CASE IsConstant(graph.tensors, u)
      BY <3>2, <1>5 DEF u
    <3>3. ASSUME NEW l \in gone, graph.ops[l].outs[1] = u PROVE V[u] = Read(ts[u])
      <4>1. l \in DOMAIN graph.ops /\ graph.ops[l].outs[1] \in ToSet(graph.ops[l].outs) /\ l \in Nat
        BY SoundOperators, <1>1
      <4>2. ToSet(graph.ops[l].outs) \cap ToSet(graph.ops[j].ins) # {}
        BY <4>1, <3>1, <3>3 DEF op
      <4>3. l < j
        BY <2>1, <4>1, <4>2 DEF Sound, InOrder
      <4>4. l <= m
        BY <4>1, <4>3, <2>1
      <4> QED BY <4>4, <1>7, <3>3
    <3>4. V[u] = Read(ts[u])
      BY <3>1, <3>2, <3>3, <1>4 DEF u
    <3> QED BY <3>4 DEF u
  <2>4. a = b
    BY <2>3
  <2>5. V[t] = Result(op.type, op.attr, a)
    <3>1. t \in ToSet(op.outs)
      BY <2>1, SoundOperators
    <3>2. V[t] = Compute(op, V)
      BY <3>1, <2>1, <1>2 DEF Means
    <3> QED BY <3>2 DEF Compute
  <2>6. Read(ts[t]) = ts[t].val
    <3>1. t \in DOMAIN ts
      BY <2>1, <1>1, SoundOperators
    <3> QED BY <3>1 DEF Read
  <2> HIDE DEF a, b
  <2> QED BY <2>2, <2>4, <2>5, <2>6
<1>8. Nat \subseteq G
  <2> HIDE DEF G
  <2> QED BY <1>6, <1>7, NatInductive
<1>9. \A j \in gone : V[graph.ops[j].outs[1]] = Read(ts[graph.ops[j].outs[1]])
  <2>1. n \in G /\ \A j \in gone : j <= n
    BY <1>1, <1>8
  <2> QED BY <2>1
<1>10. \A t : IsConstant(ts, t) => V[t] = Read(ts[t])
  BY <1>4, <1>5, <1>9
<1> QED BY <1>10 DEF V

\* A sweep of folding keeps what the caller sees, given what it leaves.
LEMMA SweptKeepsFunction ==
  ASSUME NEW graph, Sound(graph), NEW r, NEW gone, SweptTo(graph, r, Len(graph.ops), gone),
         ~r.raised, NEW new, Sound(new), ~Mistyped(new), ~Miscomputed(new), new.ops = r.ops, new.tensors = r.tensors,
         new.inputs = graph.inputs, new.outputs = graph.outputs
  PROVE  Outputs(new) = Outputs(graph)
<1> DEFINE V == Values(graph)
           n == Len(graph.ops)
           W == Carried(new, V)
<1>2. /\ r.raised = FALSE /\ gone \subseteq 1 .. n /\ FoldsTo(graph, r.tensors, gone)
      /\ \E h : Thinned(r.ops, graph.ops, (1 .. n) \ gone, h)
  <2>1. SweptTo(graph, r, n, gone)
    OBVIOUS
  <2> HIDE DEF n
  <2> QED BY <2>1 DEF SweptTo
<1>3. new.ops = r.ops /\ new.tensors = r.tensors /\ new.inputs = graph.inputs /\ new.outputs = graph.outputs
  OBVIOUS
<1>4. Sound(new)
  OBVIOUS
<1>5. n \in Nat /\ DOMAIN graph.ops = 1 .. n
  BY GraphShape DEF Sound
<1>6. ToSet(new.ops) = Entries(graph.ops, (1 .. n) \ gone)
  <2>1. (1 .. n) \ gone \subseteq DOMAIN graph.ops
    BY <1>5
  <2> DEFINE keep == (1 .. n) \ gone
  <2>2. \E h : Thinned(r.ops, graph.ops, keep, h)
    BY <1>2
  <2> HIDE DEF keep
  <2> QED BY <2>1, <2>2, <1>3, ThinnedOperators DEF Sound, keep
<1>7. \A t \in DOMAIN r.tensors :
        r.tensors[t].as = r.tensors[t].dtype /\ OpOf(r.tensors[t].val) # "otherwise"
  BY <1>3 DEF Mistyped, Miscomputed
<1>8. \A t : IsConstant(r.tensors, t) => V[t] = Read(r.tensors[t])
  BY <1>2, <1>5, <1>7, FoldMeans
<1>9. \A t : IsConstant(graph.tensors, t) => IsConstant(r.tensors, t)
  BY <1>2, <1>5, FoldTensors
<1>10. \A j \in gone : IsConstant(r.tensors, graph.ops[j].outs[1])
  BY <1>2, <1>5, FoldTensors
<1>11. DOMAIN r.tensors = DOMAIN graph.tensors
  BY <1>2 DEF FoldsTo
<1>12. Means(graph, V)
  BY ValuesMean
<1> HIDE DEF V, n, W
<1>13. ASSUME NEW t \in DOMAIN new.tensors, ~Written(new, t) PROVE Held(new, t) = V[t]
  <2>1. CASE IsConstant(r.tensors, t)
    BY <2>1, <1>3, <1>8 DEF Held
  <2>2. CASE ~IsConstant(r.tensors, t)
    <3>1. ~Written(graph, t)
      <4> SUFFICES ASSUME NEW k \in DOMAIN graph.ops, t \in ToSet(graph.ops[k].outs) PROVE FALSE
        BY DEF Written
      <4>1. CASE k \in gone
        <5>1. graph.ops[k].type \in Evaluable
          BY <4>1, <1>2 DEF FoldsTo
        <5>2. Len(graph.ops[k].outs) = 1 /\ graph.ops[k] \in Operations
          BY <5>1, SoundOperators, GraphShape DEF HasArity, Sound
        <5>3. DOMAIN graph.ops[k].outs = 1 .. 1
          BY <5>2, OperatorShape
        <5>4. t = graph.ops[k].outs[1]
          BY <5>3 DEF ToSet
        <5> QED BY <5>4, <4>1, <1>10, <2>2
      <4>2. CASE k \notin gone
        <5>1. graph.ops[k] \in ToSet(new.ops)
          BY <4>2, <1>5, <1>6 DEF Entries
        <5>2. \E l \in DOMAIN new.ops : new.ops[l] = graph.ops[k]
          BY <5>1 DEF ToSet
        <5> QED BY <5>2, <1>13 DEF Written
      <4> QED BY <4>1, <4>2
    <3>2. V[t] = Held(graph, t)
      BY <3>1, <1>3, <1>11, <1>12 DEF Means
    <3>3. ~IsConstant(graph.tensors, t)
      BY <2>2, <1>9
    <3> QED BY <3>2, <3>3, <2>2, <1>3 DEF Held
  <2> QED BY <2>1, <2>2
<1>14. \A t \in DOMAIN new.tensors : W[t] = V[t]
  BY <1>13 DEF W, Carried
<1>15. ASSUME NEW k \in DOMAIN new.ops, NEW t \in ToSet(new.ops[k].outs)
       PROVE  V[t] = Compute(new.ops[k], W)
  <2>1. new.ops[k] \in ToSet(new.ops)
    BY DEF ToSet
  <2>2. PICK l \in DOMAIN graph.ops : graph.ops[l] = new.ops[k]
    BY <2>1, <1>5, <1>6 DEF Entries
  <2>3. V[t] = Compute(new.ops[k], V)
    BY <2>2, <1>12 DEF Means
  <2>4. ASSUME NEW x \in DOMAIN new.ops[k].ins PROVE new.ops[k].ins[x] \in DOMAIN new.tensors
    <3>1. new.ops[k].ins[x] \in ToSet(new.ops[k].ins)
      BY DEF ToSet
    <3> QED BY <1>4, <3>1, SoundOperators
  <2>5. \A x \in DOMAIN new.ops[k].ins : W[new.ops[k].ins[x]] = V[new.ops[k].ins[x]]
    BY <2>4, <1>14
  <2>6. Compute(new.ops[k], W) = Compute(new.ops[k], V)
    BY <2>5, SameComputed
  <2> QED BY <2>3, <2>6
<1>16. \A t \in graph.outputs : Written(new, t) \/ Held(new, t) = V[t]
  <2>1. \A t \in graph.outputs : t \in DOMAIN new.tensors
    BY <1>3, <1>4 DEF Sound, NamesKnown
  <2> QED BY <2>1, <1>13
<1>18. \A k \in DOMAIN new.ops : \A t \in ToSet(new.ops[k].outs) :
           Values(graph)[t] = Compute(new.ops[k], Carried(new, Values(graph)))
  BY <1>15 DEF V, W
<1>19. \A t \in graph.outputs : Written(new, t) \/ Held(new, t) = Values(graph)[t]
  BY <1>16 DEF V
<1> HIDE DEF n
<1> QED BY <1>4, <1>3, <1>18, <1>19, CarriedOver

\* A sweep of folding keeps what the caller sees, if no constant is mistyped or
\* miscomputed.
LEMMA FoldKeepsFunction ==
  ASSUME NEW graph, Sound(graph), NEW r, r = FoldSweep(graph), ~r.raised,
         ~Mistyped([graph EXCEPT !.ops = r.ops, !.tensors = r.tensors]),
         ~Miscomputed([graph EXCEPT !.ops = r.ops, !.tensors = r.tensors])
  PROVE  Outputs([graph EXCEPT !.ops = r.ops, !.tensors = r.tensors]) = Outputs(graph)
<1> DEFINE new == [graph EXCEPT !.ops = r.ops, !.tensors = r.tensors]
<1>1. PICK gone : SweptTo(graph, r, Len(graph.ops), gone)
  BY SweepDone
<1>2. new.ops = r.ops /\ new.tensors = r.tensors /\ new.inputs = graph.inputs /\ new.outputs = graph.outputs
  BY DEF Sound, IsGraph
<1>3. r.raised = FALSE
  BY <1>1 DEF SweptTo
<1>4. Sound(new)
  BY <1>1, <1>3, FoldKeepsSound
<1>5. ~Mistyped(new) /\ ~Miscomputed(new)
  OBVIOUS
<1> HIDE DEF new
<1>6. Outputs(new) = Outputs(graph)
  BY <1>1, <1>2, <1>3, <1>4, <1>5, SweptKeepsFunction
<1> QED BY <1>6 DEF new

-----------------------------------------------------------------------------
(* Absorption keeps the function. *)

\* The constants that an operator that absorbs rewrites.
Rewrites(graph, i) == {graph.ops[i].ins[2], BiasOf(graph.ops[i])}

\* Nobody else reads the weight and the bias, and the bias is a constant.
LEMMA ReadOnce ==
  ASSUME NEW graph, Sound(graph), ~AbsorbsWrongly(graph),
         NEW i \in DOMAIN graph.ops, NEW j \in DOMAIN graph.ops, Absorbs(graph, i, j)
  PROVE  LET op == graph.ops[i]
         IN  /\ "beta" \notin ToSet(op.attr) /\ op.outs[1] \notin graph.outputs
             /\ \A p \in {2, 3} \cap DOMAIN op.ins :
                  /\ IsConstant(graph.tensors, op.ins[p]) /\ op.ins[p] \notin graph.outputs
                  /\ OnlyRead(graph, op.ins[p], i, p)
<1> DEFINE op == graph.ops[i]
<1>1. /\ ~RewritesShared(graph, op, i) /\ ~LeavesBias(graph, op) /\ ~ScalesBias(op)
      /\ op.outs[1] \notin graph.outputs
  BY DEF AbsorbsWrongly
<1>2. Len(op.ins) \in {2, 3} /\ DOMAIN op.ins = 1 .. Len(op.ins) /\ IsConstant(graph.tensors, op.ins[2])
  BY AbsorbFacts
<1>3. ASSUME NEW p \in {2, 3} \cap DOMAIN op.ins
      PROVE  /\ IsConstant(graph.tensors, op.ins[p]) /\ op.ins[p] \notin graph.outputs
             /\ OnlyRead(graph, op.ins[p], i, p)
  <2>1. ~ReadElsewhere(graph, op.ins[p], i, p)
    BY <1>1, <1>3 DEF RewritesShared
  <2>2. op.ins[p] \notin graph.outputs
    BY <2>1 DEF ReadElsewhere
  <2>3. ASSUME NEW a \in DOMAIN graph.ops, NEW b \in DOMAIN graph.ops[a].ins, graph.ops[a].ins[b] = op.ins[p]
        PROVE  a = i /\ b = p
    <3>1. <<a, b>> \in Reads(graph)
      BY DEF Reads
    <3> DEFINE r == <<a, b>>
    <3>2. r[1] = a /\ r[2] = b
      OBVIOUS
    <3>3. r \in Reads(graph) /\ graph.ops[r[1]].ins[r[2]] = op.ins[p]
      BY <3>1, <3>2, <2>3
    <3> HIDE DEF r
    <3>4. r = <<i, p>>
      BY <3>3, <2>1 DEF ReadElsewhere
    <3>5. <<a, b>> = <<i, p>>
      BY <3>4 DEF r
    <3> QED BY <3>5
  <2>4. IsConstant(graph.tensors, op.ins[p])
    <3>1. CASE p = 2
      BY <3>1, <1>2
    <3>2. CASE p = 3
      <4>1. HasBias(op)
        BY <3>2, <1>2 DEF HasBias
      <4> QED BY <4>1, <3>2, <1>1 DEF LeavesBias
    <3> QED BY <3>1, <3>2
  <2>5. OnlyRead(graph, op.ins[p], i, p)
    BY <2>3, <1>3 DEF OnlyRead
  <2> QED BY <2>2, <2>4, <2>5
<1>4. "beta" \notin ToSet(op.attr)
  BY <1>1 DEF ScalesBias
<1> QED BY <1>1, <1>3, <1>4

\* A name that absorption makes up says which operator it is for.
LEMMA NewNames ==
  ASSUME NEW a \in TensorNames, NEW b \in TensorNames, <<"absorbed">> \o a = <<"absorbed">> \o b
  PROVE  a = b
<1> DEFINE p == <<"absorbed">>
<1>1. "absorbed" \in Words /\ a \in Seq(Words) /\ b \in Seq(Words)
  BY DEF Words, TensorNames
<1>2. p \in Seq(Words) /\ Len(p) = 1
  BY <1>1, OneElement
<1> HIDE DEF p
<1>3. /\ Len(p \o a) = 1 + Len(a) /\ \A k \in 1 .. 1 + Len(a) : (p \o a)[k] = IF k <= 1 THEN p[k] ELSE a[k - 1]
      /\ Len(p \o b) = 1 + Len(b) /\ \A k \in 1 .. 1 + Len(b) : (p \o b)[k] = IF k <= 1 THEN p[k] ELSE b[k - 1]
  <2>1. ASSUME NEW s \in Seq(Words)
        PROVE  /\ Len(p \o s) = 1 + Len(s)
               /\ \A k \in 1 .. 1 + Len(s) : (p \o s)[k] = IF k <= 1 THEN p[k] ELSE s[k - 1]
    <3>1. /\ Len(p \o s) = Len(p) + Len(s)
          /\ \A k \in 1 .. Len(p) + Len(s) : (p \o s)[k] = IF k <= Len(p) THEN p[k] ELSE s[k - Len(p)]
      BY <1>2, ConcatProperties
    <3> QED BY <3>1, <1>2
  <2> QED BY <2>1, <1>1
<1>4. p \o a = p \o b /\ Len(a) \in Nat /\ Len(b) \in Nat
  BY <1>1 DEF p
<1>5. Len(a) = Len(b)
  BY <1>3, <1>4
<1>6. ASSUME NEW k \in 1 .. Len(a) PROVE a[k] = b[k]
  <2>1. k + 1 \in 1 .. 1 + Len(a) /\ ~(k + 1 <= 1) /\ (k + 1) - 1 = k
    BY <1>4
  <2>2. (p \o a)[k + 1] = a[k]
    BY <2>1, <1>3
  <2>3. (p \o b)[k + 1] = b[k]
    BY <2>1, <1>3, <1>5
  <2> QED BY <2>2, <2>3, <1>4
<1> QED BY <1>1, <1>5, <1>6, SeqEqual

\* What an operator rewrites it alone reads, and if it is new it is its own.
LEMMA PaintsApart ==
  ASSUME NEW graph, Sound(graph), Fresh(graph), ~AbsorbsWrongly(graph), NEW i \in Absorbing(graph)
  PROVE  /\ graph.ops[i].ins[2] # BiasOf(graph.ops[i])
         /\ \A t \in Rewrites(graph, i) \cap DOMAIN graph.tensors :
              /\ IsConstant(graph.tensors, t) /\ t \notin graph.outputs
              /\ \E p \in {2, 3} : OnlyRead(graph, t, i, p)
         /\ \A k \in Absorbing(graph) : k # i => Rewrites(graph, k) \cap Rewrites(graph, i) = {}
<1> DEFINE op(k) == graph.ops[k]
<1>1. ASSUME NEW k \in Absorbing(graph)
      PROVE  /\ k \in DOMAIN graph.ops /\ Len(op(k).ins) \in {2, 3} /\ DOMAIN op(k).ins = 1 .. Len(op(k).ins)
             /\ IsConstant(graph.tensors, op(k).ins[2]) /\ OnlyRead(graph, op(k).ins[2], k, 2)
             /\ op(k).ins[2] \notin graph.outputs
             /\ \/ /\ Len(op(k).ins) = 3 /\ BiasOf(op(k)) = op(k).ins[3] /\ OnlyRead(graph, op(k).ins[3], k, 3)
                   /\ IsConstant(graph.tensors, op(k).ins[3]) /\ op(k).ins[3] \notin graph.outputs
                \/ /\ Len(op(k).ins) = 2 /\ BiasOf(op(k)) = NewBias(op(k))
                   /\ NewBias(op(k)) \notin DOMAIN graph.tensors
             /\ op(k).outs[1] \in TensorNames
  <2>1. PICK j \in DOMAIN graph.ops : k \in DOMAIN graph.ops /\ Absorbs(graph, k, j)
    BY DEF Absorbing
  <2>2. Len(op(k).ins) \in {2, 3} /\ DOMAIN op(k).ins = 1 .. Len(op(k).ins)
    BY <2>1, AbsorbFacts
  <2>3. \A p \in {2, 3} \cap DOMAIN op(k).ins :
          /\ IsConstant(graph.tensors, op(k).ins[p]) /\ op(k).ins[p] \notin graph.outputs
          /\ OnlyRead(graph, op(k).ins[p], k, p)
    BY <2>1, ReadOnce
  <2>4. NewBias(op(k)) \notin DOMAIN graph.tensors /\ op(k) \in Operations
    BY <2>1, GraphShape DEF Sound, Fresh
  <2>5. op(k).outs[1] \in TensorNames
    <3>1. op(k).outs \in Seq(TensorNames) /\ DOMAIN op(k).outs = 1 .. Len(op(k).outs) /\ 1 \in DOMAIN op(k).outs
      BY <2>1, <2>4, OperatorShape, SoundOperators
    <3>2. 1 \in 1 .. Len(op(k).outs)
      BY <3>1
    <3> QED BY <3>1, <3>2, ElementOfSeq
  <2> DEFINE o == op(k)
  <2>6. /\ Len(o.ins) \in {2, 3} /\ DOMAIN o.ins = 1 .. Len(o.ins)
        /\ \A p \in {2, 3} \cap DOMAIN o.ins :
             /\ IsConstant(graph.tensors, o.ins[p]) /\ o.ins[p] \notin graph.outputs
             /\ OnlyRead(graph, o.ins[p], k, p)
        /\ NewBias(o) \notin DOMAIN graph.tensors /\ o.outs[1] \in TensorNames
    BY <2>2, <2>3, <2>4, <2>5
  <2> HIDE DEF o
  <2>7. IsConstant(graph.tensors, o.ins[2]) /\ OnlyRead(graph, o.ins[2], k, 2) /\ o.ins[2] \notin graph.outputs
    <3> DEFINE d == Len(o.ins)
    <3>2. d \in {2, 3} /\ DOMAIN o.ins = 1 .. d
      BY <2>6
    <3> HIDE DEF d
    <3>1. 2 \in {2, 3} \cap DOMAIN o.ins
      BY <3>2
    <3> QED BY <3>1, <2>6
  <2>8. CASE Len(o.ins) = 3
    <3>1. 3 \in {2, 3} \cap DOMAIN o.ins
      BY <2>6, <2>8
    <3>2. BiasOf(o) = o.ins[3]
      BY <2>8 DEF BiasOf
    <3> QED BY <3>1, <3>2, <2>1, <2>6, <2>7, <2>8 DEF o
  <2>9. CASE Len(o.ins) = 2
    <3>1. BiasOf(o) = NewBias(o)
      BY <2>9 DEF BiasOf
    <3> QED BY <3>1, <2>1, <2>6, <2>7, <2>9 DEF o
  <2> QED BY <2>6, <2>8, <2>9
<1>2. ASSUME NEW k \in Absorbing(graph), NEW t \in Rewrites(graph, k) \cap DOMAIN graph.tensors
      PROVE  /\ IsConstant(graph.tensors, t) /\ t \notin graph.outputs
             /\ \E p \in {2, 3} : OnlyRead(graph, t, k, p)
  <2>1. t = op(k).ins[2] \/ t = BiasOf(op(k))
    BY DEF Rewrites
  <2>2. CASE t = op(k).ins[2]
    BY <2>2, <1>1
  <2>3. CASE t = BiasOf(op(k))
    BY <2>3, <1>1
  <2> QED BY <2>1, <2>2, <2>3
<1>3. op(i).ins[2] # BiasOf(op(i))
  <2> SUFFICES ASSUME op(i).ins[2] = BiasOf(op(i)) PROVE FALSE
    OBVIOUS
  <2>1. op(i).ins[2] \in DOMAIN graph.tensors /\ OnlyRead(graph, op(i).ins[2], i, 2)
    BY <1>1 DEF IsConstant
  <2>2. OnlyRead(graph, op(i).ins[2], i, 3)
    BY <2>1, <1>1
  <2>3. 2 = 3
    BY <2>1, <2>2 DEF OnlyRead
  <2> QED BY <2>3
<1>4. ASSUME NEW k \in Absorbing(graph), k # i, NEW t \in Rewrites(graph, k), t \in Rewrites(graph, i)
      PROVE  FALSE
  <2>1. CASE t \in DOMAIN graph.tensors
    <3>1. PICK p : OnlyRead(graph, t, k, p)
      BY <2>1, <1>2, <1>4
    <3>2. PICK q : OnlyRead(graph, t, i, q)
      BY <2>1, <1>2, <1>4
    <3> QED BY <3>1, <3>2, <1>4 DEF OnlyRead
  <2>2. CASE t \notin DOMAIN graph.tensors
    <3>1. t = NewBias(op(k)) /\ t = NewBias(op(i))
      BY <2>2, <1>1, <1>4 DEF Rewrites, IsConstant
    <3>2. op(k).outs[1] \in TensorNames /\ op(i).outs[1] \in TensorNames
      BY <1>1
    <3> DEFINE a == op(k).outs[1]
               b == op(i).outs[1]
    <3>3. a \in TensorNames /\ b \in TensorNames /\ <<"absorbed">> \o a = <<"absorbed">> \o b
      BY <3>1, <3>2 DEF NewBias
    <3> HIDE DEF a, b
    <3>4. a = b
      BY <3>3, NewNames
    <3>5. 1 \in DOMAIN op(k).outs /\ 1 \in DOMAIN op(i).outs /\ k \in DOMAIN graph.ops /\ i \in DOMAIN graph.ops
      BY <1>1, SoundOperators
    <3>6. k = i
      BY <3>4, <3>5 DEF a, b, Sound, InOrder
    <3> QED BY <3>6, <1>4
  <2> QED BY <2>1, <2>2
<1> QED BY <1>2, <1>3, <1>4

\* A constant that is read as v.
Holds(ts, t, v) == IsConstant(ts, t) /\ Read(ts[t]) = v

\* What absorption knows of a BatchNorm.
Figures(graph, j) == [k \in 1 .. 4 |-> Read(graph.tensors[Params(graph.ops[j])[k]])]

\* The weight that an operator which absorbs is left with,
Scaled(graph, i, j) ==
  Term("scaled", graph.ops[j].attr, <<Read(graph.tensors[graph.ops[i].ins[2]]), Figures(graph, j)>>)

\* and its bias.
Shifted(graph, i, j) ==
  IF Len(graph.ops[i].ins) < 3 THEN Term("shift", graph.ops[j].attr, <<Figures(graph, j)>>)
  ELSE Term("shifted", graph.ops[j].attr, <<Read(graph.tensors[graph.ops[i].ins[3]]), Figures(graph, j)>>)

\* What absorbing the operators in done leaves in the tensors.
Painted(graph, ts, done) ==
  /\ \A i \in done : /\ Holds(ts, graph.ops[i].ins[2], Scaled(graph, i, PartnerOf(graph, i)))
                     /\ Holds(ts, BiasOf(graph.ops[i]), Shifted(graph, i, PartnerOf(graph, i)))
  /\ \A t \in DOMAIN graph.tensors :
       \/ ts[t] = graph.tensors[t]
       \/ \E i \in done : t \in Rewrites(graph, i) \/ t = graph.ops[PartnerOf(graph, i)].outs[1]

\* A constant in its own bytes is read as it was written.
LEMMA OwnBytes ==
  ASSUME NEW t, NEW dtype, NEW shape, NEW v, v # NoValue
  PROVE  Constant(t, dtype, shape, v, dtype).val # NoValue /\ Read(Constant(t, dtype, shape, v, dtype)) = v
BY DEF Constant, Read

\* What absorbing an operator does to each tensor.
LEMMA RewrittenTensors ==
  ASSUME NEW ts, NEW op, NEW bn, op.ins[2] \in DOMAIN ts, BiasOf(op) # op.ins[2],
         bn.outs[1] # op.ins[2], bn.outs[1] # BiasOf(op), Len(op.ins) \in {2, 3},
         Len(op.ins) = 3 => IsConstant(ts, BiasOf(op))
  PROVE  LET w == op.ins[2]
             b == BiasOf(op)
             o == bn.outs[1]
             params == [k \in 1 .. 4 |-> Read(ts[Params(bn)[k]])]
             new == Rewritten(ts, op, bn)
         IN  /\ Holds(new, w, Term("scaled", bn.attr, <<Read(ts[w]), params>>))
             /\ Holds(new, b, IF Len(op.ins) < 3 THEN Term("shift", bn.attr, <<params>>)
                              ELSE Term("shifted", bn.attr, <<Read(ts[b]), params>>))
             /\ \A t \in DOMAIN ts : t \notin {w, b, o} => t \in DOMAIN new /\ new[t] = ts[t]
<1> DEFINE w == op.ins[2]
           b == BiasOf(op)
           o == bn.outs[1]
           params == [k \in 1 .. 4 |-> Read(ts[Params(bn)[k]])]
           new == Rewritten(ts, op, bn)
           dtype == ts[w].dtype
           Stored(t, shape, term, args) == Constant(t, dtype, shape, Term(term, bn.attr, args), dtype)
           scaled == [ts EXCEPT ![w] = Stored(w, @.shape, "scaled", <<Read(@), params>>)]
           out == IF op.outs[1] \in DOMAIN ts THEN op.outs[1] ELSE o
<1>1. /\ DOMAIN new = DOMAIN ts \cup {o, b}
      /\ \A t \in DOMAIN new :
           new[t] = IF t = o THEN [ts[out] EXCEPT !.val = NoValue]
                    ELSE IF t = b /\ Len(op.ins) < 3
                    THEN Stored(t, ts[Params(bn)[1]].shape, "shift", <<params>>)
                    ELSE IF t = b /\ IsConstant(ts, t)
                    THEN Stored(t, ts[t].shape, "shifted", <<Read(scaled[t]), params>>)
                    ELSE scaled[t]
  BY DEF Rewritten
<1>2. /\ scaled[w] = Stored(w, ts[w].shape, "scaled", <<Read(ts[w]), params>>)
      /\ \A t \in DOMAIN ts : t # w => scaled[t] = ts[t]
  OBVIOUS
<1>3. \A term \in {"scaled", "shift", "shifted"} : \A args : Term(term, bn.attr, args) # NoValue
  BY DEF Term, NoValue
<1>4. ASSUME NEW t \in DOMAIN new, NEW shape, NEW term \in {"scaled", "shift", "shifted"}, NEW args,
             new[t] = Stored(t, shape, term, args)
      PROVE  Holds(new, t, Term(term, bn.attr, args))
  <2> DEFINE v == Term(term, bn.attr, args)
  <2>1. v # NoValue /\ new[t] = Constant(t, dtype, shape, v, dtype)
    BY <1>3, <1>4
  <2> HIDE DEF v, dtype
  <2>2. Constant(t, dtype, shape, v, dtype).val # NoValue /\ Read(Constant(t, dtype, shape, v, dtype)) = v
    BY <2>1, OwnBytes
  <2>3. Holds(new, t, v)
    BY <2>1, <2>2 DEF Holds, IsConstant
  <2> QED BY <2>3 DEF v
<1> HIDE DEF out, scaled, params, new
<1>5. new[w] = Stored(w, ts[w].shape, "scaled", <<Read(ts[w]), params>>) /\ w \in DOMAIN new
  BY <1>1, <1>2
<1>6. Holds(new, w, Term("scaled", bn.attr, <<Read(ts[w]), params>>))
  BY <1>4, <1>5
<1>7. Holds(new, b, IF Len(op.ins) < 3 THEN Term("shift", bn.attr, <<params>>)
                    ELSE Term("shifted", bn.attr, <<Read(ts[b]), params>>))
  <2>1. b \in DOMAIN new
    BY <1>1
  <2>2. CASE Len(op.ins) < 3
    <3>1. new[b] = Stored(b, ts[Params(bn)[1]].shape, "shift", <<params>>)
      BY <1>1, <2>1, <2>2
    <3>2. Holds(new, b, Term("shift", bn.attr, <<params>>))
      BY <1>4, <2>1, <3>1
    <3> QED BY <2>2, <3>2
  <2>3. CASE ~(Len(op.ins) < 3)
    <3>1. Len(op.ins) = 3
      <4> DEFINE d == Len(op.ins)
      <4>1. d \in {2, 3} /\ ~(d < 3)
        BY <2>3
      <4> HIDE DEF d
      <4>2. d = 3
        BY <4>1
      <4> QED BY <4>2 DEF d
    <3>2. IsConstant(ts, b)
      BY <3>1
    <3>3. b \in DOMAIN ts
      BY <3>2 DEF IsConstant
    <3>4. scaled[b] = ts[b]
      BY <1>2, <3>3
    <3>5. new[b] = Stored(b, ts[b].shape, "shifted", <<Read(ts[b]), params>>)
      BY <1>1, <2>1, <2>3, <3>2, <3>4
    <3>6. Holds(new, b, Term("shifted", bn.attr, <<Read(ts[b]), params>>))
      BY <1>4, <2>1, <3>5
    <3> QED BY <2>3, <3>6
  <2> QED BY <2>2, <2>3
<1>8. ASSUME NEW t \in DOMAIN ts, t \notin {w, b, o} PROVE t \in DOMAIN new /\ new[t] = ts[t]
  BY <1>1, <1>2, <1>8
<1> QED BY <1>6, <1>7, <1>8 DEF params, new

\* Absorbing one more.
LEMMA PaintStep ==
  ASSUME NEW graph, Sound(graph), Fresh(graph), ~AbsorbsWrongly(graph),
         NEW i \in DOMAIN graph.ops, NEW j \in DOMAIN graph.ops, Absorbs(graph, i, j),
         NEW ts, NEW done, done \subseteq Absorbing(graph), i \notin done,
         DOMAIN graph.tensors \subseteq DOMAIN ts, Painted(graph, ts, done)
  PROVE  Painted(graph, Rewritten(ts, graph.ops[i], graph.ops[j]), done \cup {i})
<1> DEFINE op == graph.ops[i]
           bn == graph.ops[j]
           w == op.ins[2]
           b == BiasOf(op)
           o == bn.outs[1]
           params == [k \in 1 .. 4 |-> Read(ts[Params(bn)[k]])]
           new == Rewritten(ts, op, bn)
           mates == {PartnerOf(graph, k) : k \in done}
<1>1. /\ PartnerOf(graph, i) = j /\ i \in Absorbing(graph) /\ j \notin Absorbing(graph)
      /\ Len(op.ins) \in {2, 3} /\ DOMAIN op.ins = 1 .. Len(op.ins) /\ DOMAIN bn.ins = 1 .. 5
      /\ \A k \in 2 .. 5 : IsConstant(graph.tensors, bn.ins[k]) /\ Params(bn)[k - 1] = bn.ins[k]
      /\ IsConstant(graph.tensors, w)
  BY AbsorbFacts DEF Absorbing
<1>2. \A k \in Absorbing(graph) : /\ PartnerOf(graph, k) \in DOMAIN graph.ops
                                  /\ Absorbs(graph, k, PartnerOf(graph, k)) /\ k \in DOMAIN graph.ops
  <2> SUFFICES ASSUME NEW k \in Absorbing(graph)
               PROVE  PartnerOf(graph, k) \in DOMAIN graph.ops /\ Absorbs(graph, k, PartnerOf(graph, k)) /\ k \in DOMAIN graph.ops
    OBVIOUS
  <2>1. PICK l \in DOMAIN graph.ops : k \in DOMAIN graph.ops /\ Absorbs(graph, k, l)
    BY DEF Absorbing
  <2>2. PartnerOf(graph, k) = l
    BY <2>1, AbsorbFacts
  <2> QED BY <2>1, <2>2
<1>3. \A k \in Absorbing(graph) : LET u == graph.ops[PartnerOf(graph, k)].outs[1]
                                  IN  u \in DOMAIN graph.tensors /\ ~IsConstant(graph.tensors, u)
  BY <1>2, SoundOperators
<1>4. /\ w # b /\ w \in Rewrites(graph, i) /\ b \in Rewrites(graph, i)
      /\ \A k \in Absorbing(graph) : \A t \in Rewrites(graph, k) \cap DOMAIN graph.tensors :
              IsConstant(graph.tensors, t) /\ \E p \in {2, 3} : OnlyRead(graph, t, k, p)
      /\ \A k \in done : Rewrites(graph, k) \cap Rewrites(graph, i) = {}
  BY <1>1, PaintsApart DEF Rewrites
<1>5. o # w /\ o # b /\ o \in DOMAIN graph.tensors /\ ~IsConstant(graph.tensors, o)
  BY <1>1, <1>3, <1>4
<1>6. ASSUME NEW t \in DOMAIN graph.tensors, IsConstant(graph.tensors, t), \A k \in done : t \notin Rewrites(graph, k)
      PROVE  ts[t] = graph.tensors[t]
  BY <1>3, <1>6 DEF Painted
<1>7. ts[w] = graph.tensors[w] /\ w \in DOMAIN graph.tensors
  BY <1>1, <1>4, <1>6 DEF IsConstant
<1>8. Len(op.ins) = 3 => b = op.ins[3] /\ IsConstant(graph.tensors, b) /\ ts[b] = graph.tensors[b] /\ b \in DOMAIN graph.tensors
  <2> SUFFICES ASSUME Len(op.ins) = 3
               PROVE  b = op.ins[3] /\ IsConstant(graph.tensors, b) /\ ts[b] = graph.tensors[b] /\ b \in DOMAIN graph.tensors
    OBVIOUS
  <2>1. b = op.ins[3]
    BY DEF BiasOf
  <2>2. 3 \in {2, 3} \cap DOMAIN op.ins
    BY <1>1
  <2>3. IsConstant(graph.tensors, b)
    BY <2>1, <2>2, ReadOnce
  <2> QED BY <2>1, <2>3, <1>4, <1>6 DEF IsConstant
<1>9. params = Figures(graph, j)
  <2> SUFFICES ASSUME NEW k \in 1 .. 4 PROVE ts[Params(bn)[k]] = graph.tensors[Params(bn)[k]]
    BY DEF Figures
  <2> DEFINE t == Params(bn)[k]
  <2>1. k + 1 \in 2 .. 5 /\ (k + 1) - 1 = k /\ k + 1 \in 1 .. 5
    OBVIOUS
  <2>2. t = bn.ins[k + 1] /\ IsConstant(graph.tensors, t)
    BY <2>1, <1>1
  <2>3. ASSUME NEW a \in done, t \in Rewrites(graph, a) PROVE FALSE
    <3>1. t \in DOMAIN graph.tensors
      BY <2>2 DEF IsConstant
    <3>2. PICK p : OnlyRead(graph, t, a, p)
      BY <3>1, <2>3, <1>4
    <3>3. k + 1 \in DOMAIN bn.ins
      BY <2>1, <1>1
    <3>4. j = a
      BY <3>2, <3>3, <2>2 DEF OnlyRead
    <3> QED BY <3>4, <1>1
  <2> HIDE DEF t
  <2>4. t \in DOMAIN graph.tensors
    BY <2>2 DEF IsConstant
  <2>5. ts[t] = graph.tensors[t]
    BY <2>2, <2>3, <2>4, <1>6
  <2> QED BY <2>5 DEF t
<1> HIDE DEF params
<1>10. w \in DOMAIN ts /\ (Len(op.ins) = 3 => IsConstant(ts, b))
  BY <1>7, <1>8 DEF IsConstant
<1>11. /\ Holds(new, w, Term("scaled", bn.attr, <<Read(ts[w]), params>>))
       /\ Holds(new, b, IF Len(op.ins) < 3 THEN Term("shift", bn.attr, <<params>>)
                        ELSE Term("shifted", bn.attr, <<Read(ts[b]), params>>))
       /\ \A t \in DOMAIN ts : t \notin {w, b, o} => t \in DOMAIN new /\ new[t] = ts[t]
  <2>1. /\ op.ins[2] \in DOMAIN ts /\ BiasOf(op) # op.ins[2] /\ bn.outs[1] # op.ins[2]
        /\ bn.outs[1] # BiasOf(op) /\ Len(op.ins) \in {2, 3}
        /\ Len(op.ins) = 3 => IsConstant(ts, BiasOf(op))
    BY <1>1, <1>4, <1>5, <1>10
  <2> HIDE DEF op, bn
  <2> QED BY <2>1, RewrittenTensors DEF params
<1>12. Holds(new, w, Scaled(graph, i, j))
  BY <1>7, <1>9, <1>11 DEF Scaled
<1>13. Holds(new, b, Shifted(graph, i, j))
  <2>1. CASE Len(op.ins) < 3
    BY <2>1, <1>9, <1>11 DEF Shifted
  <2>2. CASE ~(Len(op.ins) < 3)
    <3>1. Len(op.ins) = 3
      <4> DEFINE d == Len(op.ins)
      <4>1. d \in {2, 3} /\ ~(d < 3)
        BY <2>2, <1>1
      <4> HIDE DEF d
      <4>2. d = 3
        BY <4>1
      <4> QED BY <4>2 DEF d
    <3> QED BY <2>2, <3>1, <1>8, <1>9, <1>11 DEF Shifted
  <2> QED BY <2>1, <2>2
<1> HIDE DEF new
<1>14. ASSUME NEW k \in done, NEW t, t \in Rewrites(graph, k), NEW v, Holds(ts, t, v) PROVE Holds(new, t, v)
  <2>1. t \in DOMAIN ts
    BY <1>14 DEF Holds, IsConstant
  <2>2. t # w /\ t # b
    BY <1>4, <1>14
  <2>3. t # o
    BY <1>4, <1>5, <1>14
  <2>4. t \in DOMAIN new /\ new[t] = ts[t]
    BY <2>1, <2>2, <2>3, <1>11
  <2> QED BY <2>4, <1>14 DEF Holds, IsConstant
<1>15. ASSUME NEW k \in done \cup {i}
       PROVE  /\ Holds(new, graph.ops[k].ins[2], Scaled(graph, k, PartnerOf(graph, k)))
              /\ Holds(new, BiasOf(graph.ops[k]), Shifted(graph, k, PartnerOf(graph, k)))
  <2>1. CASE k = i
    BY <2>1, <1>1, <1>12, <1>13
  <2>2. CASE k \in done
    <3>1. /\ Holds(ts, graph.ops[k].ins[2], Scaled(graph, k, PartnerOf(graph, k)))
          /\ Holds(ts, BiasOf(graph.ops[k]), Shifted(graph, k, PartnerOf(graph, k)))
      BY <2>2 DEF Painted
    <3>2. graph.ops[k].ins[2] \in Rewrites(graph, k) /\ BiasOf(graph.ops[k]) \in Rewrites(graph, k)
      BY DEF Rewrites
    <3> QED BY <2>2, <3>1, <3>2, <1>14
  <2> QED BY <2>1, <2>2
<1>16. ASSUME NEW t \in DOMAIN graph.tensors
       PROVE  \/ new[t] = graph.tensors[t]
              \/ \E k \in done \cup {i} : t \in Rewrites(graph, k) \/ t = graph.ops[PartnerOf(graph, k)].outs[1]
  <2>1. CASE t \in {w, b, o}
    BY <2>1, <1>1, <1>4
  <2>2. CASE t \notin {w, b, o}
    <3>1. new[t] = ts[t]
      BY <2>2, <1>11
    <3> QED BY <3>1 DEF Painted
  <2> QED BY <2>1, <2>2
<1>17. Painted(graph, new, done \cup {i})
  BY <1>15, <1>16 DEF Painted
<1> QED BY <1>17 DEF new

\* What a sweep has painted after k operators.
PaintedTo(graph, ts, k) ==
  DOMAIN graph.tensors \subseteq DOMAIN ts /\ Painted(graph, ts, (1 .. k) \cap Absorbing(graph))

\* Absorption goes past any operator.
LEMMA PaintGoesOn ==
  ASSUME NEW graph, Sound(graph), Fresh(graph), ~AbsorbsWrongly(graph), NEW k \in DOMAIN graph.ops,
         NEW acc, acc \in [ops : {acc.ops}, tensors : {acc.tensors}],
         PaintedTo(graph, acc.tensors, k - 1)
  PROVE  LET new == AbsorbOp(graph, acc, k)
         IN  new \in [ops : {new.ops}, tensors : {new.tensors}] /\ PaintedTo(graph, new.tensors, k)
<1> DEFINE new == AbsorbOp(graph, acc, k)
           done == (1 .. k - 1) \cap Absorbing(graph)
           partners == {j \in DOMAIN graph.ops : Absorbs(graph, k, j)}
           j == PartnerOf(graph, k)
           ts == acc.tensors
<1>1. k \in Nat /\ k - 1 \in Nat /\ k \notin 1 .. k - 1 /\ 1 .. k = (1 .. k - 1) \cup {k}
  <2>1. k \in 1 .. Len(graph.ops) /\ Len(graph.ops) \in Nat
    BY GraphShape DEF Sound
  <2> QED BY <2>1
<1>2. DOMAIN graph.tensors \subseteq DOMAIN ts /\ Painted(graph, ts, done)
  BY DEF PaintedTo
<1>3. new = IF k \in Consumed(graph) THEN acc
            ELSE IF partners = {} THEN [acc EXCEPT !.ops = Append(@, graph.ops[k])]
            ELSE [ops |-> Append(acc.ops, Fused(graph.ops[k], graph.ops[j])),
                  tensors |-> Rewritten(ts, graph.ops[k], graph.ops[j])]
  BY DEF AbsorbOp, Consumed, PartnerOf
<1>4. k \in Absorbing(graph) <=> partners # {}
  BY DEF Absorbing
<1> HIDE DEF new, partners
<1>5. k \in Consumed(graph) => k \notin Absorbing(graph)
  <2> SUFFICES ASSUME k \in Consumed(graph) PROVE k \notin Absorbing(graph)
    OBVIOUS
  <2>1. PICK i \in DOMAIN graph.ops : Absorbs(graph, i, k)
    BY DEF Consumed
  <2> QED BY <2>1, AbsorbFacts
<1>6. CASE k \notin Absorbing(graph)
  <2>1. (1 .. k) \cap Absorbing(graph) = done
    BY <1>1, <1>6
  <2>2. new \in [ops : {new.ops}, tensors : {new.tensors}] /\ new.tensors = ts
    <3>1. CASE k \in Consumed(graph)
      BY <3>1, <1>3
    <3>2. CASE k \notin Consumed(graph)
      <4> DEFINE a == acc.ops
                 x == Append(acc.ops, graph.ops[k])
      <4>1. acc \in [ops : {a}, tensors : {ts}] /\ new = [acc EXCEPT !.ops = x]
        BY <3>2, <1>3, <1>4, <1>6
      <4> HIDE DEF a, ts, x
      <4>2. new = [ops |-> x, tensors |-> ts]
        BY <4>1
      <4>3. new \in [ops : {new.ops}, tensors : {new.tensors}] /\ new.tensors = ts
        BY <4>2
      <4> QED BY <4>3 DEF ts
    <3> QED BY <3>1, <3>2
  <2> HIDE DEF done, ts
  <2>3. PaintedTo(graph, new.tensors, k)
    BY <1>2, <2>1, <2>2 DEF PaintedTo
  <2> QED BY <2>2, <2>3 DEF new
<1>7. CASE k \in Absorbing(graph)
  <2>1. PICK i \in DOMAIN graph.ops : Absorbs(graph, k, i)
    BY <1>7 DEF Absorbing
  <2>2. i = j
    BY <2>1, AbsorbFacts
  <2>3. (1 .. k) \cap Absorbing(graph) = done \cup {k} /\ k \notin done /\ done \subseteq Absorbing(graph)
    BY <1>1, <1>7
  <2>4. new = [ops |-> Append(acc.ops, Fused(graph.ops[k], graph.ops[j])),
               tensors |-> Rewritten(ts, graph.ops[k], graph.ops[j])]
    BY <1>3, <1>4, <1>5, <1>7
  <2> HIDE DEF done, ts, j
  <2>5. /\ new.tensors = Rewritten(ts, graph.ops[k], graph.ops[i])
        /\ new \in [ops : {new.ops}, tensors : {new.tensors}]
    BY <2>2, <2>4
  <2>6. Painted(graph, Rewritten(ts, graph.ops[k], graph.ops[i]), done \cup {k})
    BY <2>1, <2>3, <1>2, PaintStep
  <2>7. DOMAIN ts \subseteq DOMAIN Rewritten(ts, graph.ops[k], graph.ops[i])
    BY DEF Rewritten
  <2>8. PaintedTo(graph, new.tensors, k)
    BY <2>3, <2>5, <2>6, <2>7, <1>2 DEF PaintedTo
  <2> QED BY <2>5, <2>8 DEF new
<1> QED BY <1>6, <1>7

\* What absorption leaves in the tensors.
LEMMA AbsorbPaints ==
  ASSUME NEW graph, Sound(graph), Fresh(graph), ~AbsorbsWrongly(graph), ~Absorb(graph).raised
  PROVE  Painted(graph, Absorb(graph).g.tensors, Absorbing(graph))
<1> DEFINE n == Len(graph.ops)
<1>1. n \in Nat /\ DOMAIN graph.ops = 1 .. n
  BY GraphShape DEF Sound
<1>2. PICK acc : /\ acc[0] = [ops |-> <<>>, tensors |-> graph.tensors]
                 /\ \A k \in 1 .. n : acc[k] = AbsorbOp(graph, acc[k - 1], k)
                 /\ ~Absorb(graph).raised =>
                       Absorb(graph).g = [graph EXCEPT !.tensors = acc[n].tensors, !.ops = acc[n].ops]
  BY <1>1, AbsorbUnfolds
<1> DEFINE G == {k \in Nat : k <= n => /\ acc[k] \in [ops : {acc[k].ops}, tensors : {acc[k].tensors}]
                                       /\ PaintedTo(graph, acc[k].tensors, k)}
<1>3. 0 \in G
  <2>1. (1 .. 0) \cap Absorbing(graph) = {}
    OBVIOUS
  <2>2. acc[0].tensors = graph.tensors /\ acc[0] \in [ops : {acc[0].ops}, tensors : {acc[0].tensors}]
    BY <1>2
  <2>3. Painted(graph, graph.tensors, {})
    BY DEF Painted
  <2>4. PaintedTo(graph, acc[0].tensors, 0)
    BY <2>1, <2>2, <2>3 DEF PaintedTo
  <2> QED BY <2>2, <2>4
<1>4. ASSUME NEW k \in Nat, k \in G PROVE k + 1 \in G
  <2> SUFFICES ASSUME k + 1 <= n
               PROVE  /\ acc[k + 1] \in [ops : {acc[k + 1].ops}, tensors : {acc[k + 1].tensors}]
                      /\ PaintedTo(graph, acc[k + 1].tensors, k + 1)
    OBVIOUS
  <2>1. k <= n /\ k + 1 \in 1 .. n /\ (k + 1) - 1 = k
    BY <1>1
  <2> DEFINE a == acc[k]
             m == k + 1
  <2>2. a \in [ops : {a.ops}, tensors : {a.tensors}] /\ PaintedTo(graph, a.tensors, m - 1)
    BY <1>4, <2>1
  <2>3. m \in DOMAIN graph.ops /\ acc[m] = AbsorbOp(graph, a, m)
    BY <1>1, <1>2, <2>1
  <2> HIDE DEF a, m, n
  <2>4. acc[m] \in [ops : {acc[m].ops}, tensors : {acc[m].tensors}] /\ PaintedTo(graph, acc[m].tensors, m)
    BY <2>2, <2>3, PaintGoesOn
  <2> QED BY <2>4 DEF m
<1>5. n \in G
  <2> HIDE DEF G, n
  <2> QED BY <1>1, <1>3, <1>4, NatInductive
<1>6. PaintedTo(graph, acc[n].tensors, n)
  BY <1>1, <1>5
<1>7. (1 .. n) \cap Absorbing(graph) = Absorbing(graph)
  BY <1>1 DEF Absorbing
<1>8. Painted(graph, acc[n].tensors, Absorbing(graph))
  BY <1>6, <1>7 DEF PaintedTo
<1> DEFINE a == acc[n].tensors
           b == acc[n].ops
           x == Absorb(graph).g
<1>9. graph \in [ops : {graph.ops}, tensors : {graph.tensors}, inputs : {graph.inputs}, outputs : {graph.outputs}]
  BY DEF Sound, IsGraph
<1>10. x = [graph EXCEPT !.tensors = a, !.ops = b]
  BY <1>2
<1> HIDE DEF a, b, x
<1>11. x.tensors = a
  BY <1>9, <1>10
<1> QED BY <1>8, <1>11 DEF a, x

\* A product with a rewritten weight and bias is the BatchNorm of the plain one.
LEMMA ProductAbsorbs ==
  ASSUME NEW type, NEW attr, "beta" \notin ToSet(attr), NEW a, NEW weight, NEW figures, NEW args, ~(Len(args) < 3),
         args[2] = Term("scaled", a, <<weight, figures>>), args[3] = Term("shift", a, <<figures>>)
  PROVE  Product(type, attr, args) =
           Term("BatchNormalization", a, <<Term(type, attr, <<args[1], weight>>)>> \o figures)
<1> DEFINE w == args[2]
<1>1. OpOf(w) = "scaled" /\ AttrOf(w) = a /\ ArgsOf(w)[1] = weight /\ ArgsOf(w)[2] = figures
  BY DEF Term, OpOf, AttrOf, ArgsOf
<1>2. args[3] = Term("shift", AttrOf(w), <<ArgsOf(w)[2]>>)
  BY <1>1
<1> QED BY <1>1, <1>2 DEF Product

\* It is so if there was a bias before.
LEMMA ProductWithBias ==
  ASSUME NEW type, NEW attr, "beta" \notin ToSet(attr), NEW a, NEW weight, NEW figures, NEW args, ~(Len(args) < 3),
         args[2] = Term("scaled", a, <<weight, figures>>),
         NEW bias, args[3] = Term("shifted", a, <<bias, figures>>)
  PROVE  Product(type, attr, args) =
           Term("BatchNormalization", a, <<Term(type, attr, <<args[1], weight, bias>>)>> \o figures)
<1> DEFINE w == args[2]
           b == args[3]
           Normalised(operands) ==
             Term("BatchNormalization", AttrOf(w), <<Term(type, attr, operands)>> \o ArgsOf(w)[2])
<1>1. OpOf(w) = "scaled" /\ AttrOf(w) = a /\ ArgsOf(w)[1] = weight /\ ArgsOf(w)[2] = figures
  BY DEF Term, OpOf, AttrOf, ArgsOf
<1>2. Product(type, attr, args) =
        IF b = Term("shift", AttrOf(w), <<ArgsOf(w)[2]>>)
        THEN Normalised(<<args[1], ArgsOf(w)[1]>>)
        ELSE IF OpOf(b) = "shifted" /\ AttrOf(b) = AttrOf(w) /\ ArgsOf(b)[2] = ArgsOf(w)[2]
        THEN Normalised(<<args[1], ArgsOf(w)[1], ArgsOf(b)[1]>>)
        ELSE Term(type, attr, args)
  BY <1>1 DEF Product
<1>3. OpOf(b) = "shifted" /\ AttrOf(b) = a /\ ArgsOf(b)[1] = bias /\ ArgsOf(b)[2] = figures
  BY DEF Term, OpOf, AttrOf, ArgsOf
<1>4. b # Term("shift", a, <<figures>>)
  BY DEF Term
<1> HIDE DEF w, b
<1> QED BY <1>1, <1>2, <1>3, <1>4

\* A BatchNorm's operands are the value and the figures.
LEMMA OneAndFour ==
  ASSUME NEW c, c = [x \in 1 .. 5 |-> c[x]], NEW figures, figures = [k \in 1 .. 4 |-> c[k + 1]]
  PROVE  c = <<c[1]>> \o figures
<1> DEFINE S == {c[x] : x \in 1 .. 5}
           p == <<c[1]>>
           d == p \o figures
<1>1. c \in Seq(S) /\ Len(c) = 5
  <2>1. [x \in 1 .. 5 |-> c[x]] \in [1 .. 5 -> S]
    OBVIOUS
  <2> HIDE DEF S
  <2>2. c \in [1 .. 5 -> S]
    BY <2>1
  <2> QED BY <2>2
<1>2. figures \in Seq(S) /\ Len(figures) = 4 /\ \A k \in 1 .. 4 : figures[k] = c[k + 1]
  <2>1. \A k \in 1 .. 4 : c[k + 1] \in S
    <3> SUFFICES ASSUME NEW k \in 1 .. 4 PROVE c[k + 1] \in S
      OBVIOUS
    <3>1. k + 1 \in 1 .. 5
      OBVIOUS
    <3> QED BY <3>1
  <2> HIDE DEF S
  <2>2. figures \in [1 .. 4 -> S]
    BY <2>1
  <2> QED BY <2>2
<1>3. p \in Seq(S) /\ Len(p) = 1 /\ p[1] = c[1]
  <2>1. c[1] \in S
    OBVIOUS
  <2> HIDE DEF S
  <2> QED BY <2>1, OneElement
<1> HIDE DEF S, p, d
<1>4. /\ d \in Seq(S) /\ Len(d) = 5
      /\ \A x \in 1 .. 5 : d[x] = IF x <= 1 THEN p[x] ELSE figures[x - 1]
  <2>1. /\ d \in Seq(S) /\ Len(d) = Len(p) + Len(figures)
        /\ \A x \in 1 .. Len(p) + Len(figures) : d[x] = IF x <= Len(p) THEN p[x] ELSE figures[x - Len(p)]
    <3>1. p \in Seq(S) /\ figures \in Seq(S)
      BY <1>2, <1>3
    <3>2. /\ p \o figures \in Seq(S) /\ Len(p \o figures) = Len(p) + Len(figures)
          /\ \A x \in 1 .. Len(p) + Len(figures) :
               (p \o figures)[x] = IF x <= Len(p) THEN p[x] ELSE figures[x - Len(p)]
      <4> DEFINE q == figures
      <4>1. p \in Seq(S) /\ q \in Seq(S)
        BY <3>1
      <4> HIDE DEF q
      <4>2. /\ p \o q \in Seq(S) /\ Len(p \o q) = Len(p) + Len(q)
            /\ \A x \in 1 .. Len(p) + Len(q) : (p \o q)[x] = IF x <= Len(p) THEN p[x] ELSE q[x - Len(p)]
        BY <4>1, ConcatProperties
      <4> QED BY <4>2 DEF q
    <3> QED BY <3>2 DEF d
  <2>2. Len(p) + Len(figures) = 5
    BY <1>2, <1>3
  <2> QED BY <2>1, <2>2, <1>3
<1>5. ASSUME NEW x \in 1 .. 5 PROVE c[x] = d[x]
  <2>1. CASE x = 1
    BY <2>1, <1>3, <1>4
  <2>2. CASE x # 1
    <3>1. x - 1 \in 1 .. 4 /\ (x - 1) + 1 = x /\ ~(x <= 1)
      BY <2>2
    <3>2. d[x] = figures[x - 1] /\ figures[x - 1] = c[(x - 1) + 1]
      BY <3>1, <1>2, <1>4
    <3> QED BY <3>1, <3>2
  <2> QED BY <2>1, <2>2
<1>6. c = d
  BY <1>1, <1>4, <1>5, SeqEqual
<1> QED BY <1>6 DEF d, p

\* A product with a weight as it was is plain.
LEMMA PlainProduct ==
  ASSUME NEW type, NEW attr, NEW args, OpOf(args[2]) # "scaled"
  PROVE  Product(type, attr, args) = Term(type, attr, args)
BY DEF Product

\* What the operators that absorb and are absorbed compute.
LEMMA ProductOrNorm ==
  ASSUME NEW attr, NEW args
  PROVE  /\ Result("Conv", attr, args) = Product("Conv", attr, args)
         /\ Result("Gemm", attr, args) = Product("Gemm", attr, args)
         /\ Result("BatchNormalization", attr, args) = Term("BatchNormalization", attr, args)
BY DEF Result

\* What an operator reads that stays has its value.
LEMMA AbsorptionCarries ==
  ASSUME NEW graph, Sound(graph), Fresh(graph), ~AbsorbsWrongly(graph), NEW ops, NEW ts, NEW h,
         ListAfter(graph, ops, h), Painted(graph, ts, Absorbing(graph)),
         NEW new, Sound(new), new.ops = ops, new.tensors = ts, new.inputs = graph.inputs,
         DOMAIN graph.tensors \subseteq DOMAIN ts,
         NEW t \in DOMAIN graph.tensors,
         \A i \in Absorbing(graph) : t \notin Rewrites(graph, i) /\ t # graph.ops[i].outs[1]
  PROVE  Written(new, t) \/ Held(new, t) = Values(graph)[t]
<1> SUFFICES ASSUME ~Written(new, t) PROVE Held(new, t) = Values(graph)[t]
  OBVIOUS
<1>1. ASSUME NEW a \in DOMAIN graph.ops, t \in ToSet(graph.ops[a].outs) PROVE FALSE
  <2>1. CASE a \in Absorbing(graph)
    <3>1. PICK j \in DOMAIN graph.ops : Absorbs(graph, a, j)
      BY <2>1 DEF Absorbing
    <3>2. DOMAIN graph.ops[a].outs = 1 .. 1
      BY <3>1, AbsorbFacts
    <3>3. t = graph.ops[a].outs[1]
      BY <3>2, <1>1 DEF ToSet
    <3> QED BY <3>3, <2>1
  <2>2. CASE a \notin Absorbing(graph)
    <3>1. PICK op \in ToSet(ops) : t \in ToSet(op.outs)
      BY <2>2, <1>1, WriterKept
    <3>2. PICK k \in DOMAIN ops : ops[k] = op
      BY DEF ToSet
    <3> QED BY <3>1, <3>2 DEF Written
  <2> QED BY <2>1, <2>2
<1>2. ASSUME NEW i \in Absorbing(graph) PROVE t # graph.ops[PartnerOf(graph, i)].outs[1]
  <2>1. PICK j \in DOMAIN graph.ops : i \in DOMAIN graph.ops /\ Absorbs(graph, i, j)
    BY DEF Absorbing
  <2>2. PartnerOf(graph, i) = j
    BY <2>1, AbsorbFacts
  <2>3. graph.ops[j].outs[1] \in ToSet(graph.ops[j].outs)
    BY SoundOperators
  <2> QED BY <2>2, <2>3, <1>1
<1>3. ts[t] = graph.tensors[t]
  BY <1>2 DEF Painted
<1>4. Held(new, t) = Held(graph, t)
  BY <1>3 DEF Held, IsConstant
<1>5. ~Written(graph, t)
  BY <1>1 DEF Written
<1>6. Means(graph, Values(graph))
  BY ValuesMean
<1> QED BY <1>4, <1>5, <1>6 DEF Means

\* The operators that stay read nothing that is rewritten, except to absorb.
LEMMA AbsorbedOperands ==
  ASSUME NEW graph, Sound(graph), Fresh(graph), ~AbsorbsWrongly(graph),
         NEW i \in DOMAIN graph.ops, i \notin Consumed(graph), NEW x \in DOMAIN graph.ops[i].ins,
         i \in Absorbing(graph) => x = 1,
         NEW k \in Absorbing(graph)
  PROVE  /\ graph.ops[i].ins[x] \notin Rewrites(graph, k)
         /\ graph.ops[i].ins[x] # graph.ops[k].outs[1]
<1> DEFINE t == graph.ops[i].ins[x]
<1>1. t \in ToSet(graph.ops[i].ins) /\ t \in DOMAIN graph.tensors
  <2>1. t \in ToSet(graph.ops[i].ins)
    BY DEF ToSet
  <2> QED BY <2>1, SoundOperators
<1>2. ASSUME t \in Rewrites(graph, k) PROVE FALSE
  <2>1. PICK p \in {2, 3} : OnlyRead(graph, t, k, p)
    BY <1>1, <1>2, PaintsApart
  <2>2. i = k /\ x = p
    BY <2>1 DEF OnlyRead
  <2> QED BY <2>2
<1>3. ASSUME t = graph.ops[k].outs[1] PROVE FALSE
  <2>1. PICK j \in DOMAIN graph.ops : k \in DOMAIN graph.ops /\ Absorbs(graph, k, j)
    BY DEF Absorbing
  <2>2. graph.ops[k].outs[1] \in ToSet(graph.ops[k].outs)
    BY <2>1, SoundOperators
  <2>3. ToSet(graph.ops[k].outs) \cap ToSet(graph.ops[i].ins) # {}
    BY <2>2, <1>1, <1>3
  <2>4. k < i
    BY <2>1, <2>3 DEF Sound, InOrder
  <2>5. i > k
    <3>1. i \in Int /\ k \in Int
      BY <2>1, GraphShape DEF Sound
    <3> QED BY <3>1, <2>4
  <2>6. i = j
    BY <2>1, <2>5, <1>1, <1>3, AbsorbFacts
  <2> QED BY <2>1, <2>6 DEF Consumed
<1> QED BY <1>2, <1>3

\* What an operator that absorbs computes is what the BatchNorm computed.
LEMMA AbsorbedComputes ==
  ASSUME NEW graph, Sound(graph), Fresh(graph), ~AbsorbsWrongly(graph),
         \A t : IsConstant(graph.tensors, t) => OpOf(graph.tensors[t].val) # "scaled",
         NEW i \in DOMAIN graph.ops, NEW j \in DOMAIN graph.ops, Absorbs(graph, i, j),
         NEW W, W[graph.ops[i].ins[1]] = Values(graph)[graph.ops[i].ins[1]],
         W[graph.ops[i].ins[2]] = Scaled(graph, i, j), W[BiasOf(graph.ops[i])] = Shifted(graph, i, j)
  PROVE  Compute(Fused(graph.ops[i], graph.ops[j]), W) = Values(graph)[graph.ops[j].outs[1]]
<1> DEFINE V == Values(graph)
           op == graph.ops[i]
           bn == graph.ops[j]
           figures == Figures(graph, j)
           c == [x \in 1 .. 5 |-> V[bn.ins[x]]]
           d == [x \in DOMAIN op.ins |-> V[op.ins[x]]]
           ins == Fused(op, bn).ins
           e == [x \in DOMAIN ins |-> W[ins[x]]]
           w == op.ins[2]
<1>1. /\ op.type \in {"Conv", "Gemm"} /\ bn.type = "BatchNormalization"
      /\ DOMAIN op.outs = 1 .. 1 /\ DOMAIN bn.outs = 1 .. 1 /\ DOMAIN bn.ins = 1 .. 5
      /\ bn.ins[1] = op.outs[1]
      /\ \A k \in 2 .. 5 : IsConstant(graph.tensors, bn.ins[k]) /\ Params(bn)[k - 1] = bn.ins[k]
      /\ Len(op.ins) \in {2, 3} /\ DOMAIN op.ins = 1 .. Len(op.ins)
      /\ IsConstant(graph.tensors, w)
  BY AbsorbFacts
<1>2. Means(graph, V)
  BY ValuesMean
<1>3. \A t : IsConstant(graph.tensors, t) => V[t] = Read(graph.tensors[t])
  BY ConstantMeans
<1>4. /\ "beta" \notin ToSet(op.attr)
      /\ Len(op.ins) = 3 => IsConstant(graph.tensors, op.ins[3])
  <2>1. Len(op.ins) = 3 => 3 \in {2, 3} \cap DOMAIN op.ins
    BY <1>1
  <2> QED BY <2>1, ReadOnce
<1>5. op \in Operations /\ bn \in Operations /\ op.ins \in Seq(TensorNames)
  BY GraphShape, OperatorShape DEF Sound
<1>6. V[bn.outs[1]] = Term("BatchNormalization", bn.attr, c)
  <2>1. bn.outs[1] \in ToSet(bn.outs)
    BY SoundOperators
  <2>2. V[bn.outs[1]] = Result(bn.type, bn.attr, [x \in DOMAIN bn.ins |-> V[bn.ins[x]]])
    BY <2>1, <1>2 DEF Means, Compute
  <2>3. V[bn.outs[1]] = Result("BatchNormalization", bn.attr, c)
    BY <2>2, <1>1
  <2> HIDE DEF c
  <2> QED BY <2>3, ProductOrNorm
<1>7. c[1] = Term(op.type, op.attr, d)
  <2>1. op.outs[1] \in ToSet(op.outs)
    BY SoundOperators
  <2>2. V[op.outs[1]] = Result(op.type, op.attr, d)
    BY <2>1, <1>2 DEF Means, Compute
  <2>3. OpOf(d[2]) # "scaled"
    <3>1. d[2] = Read(graph.tensors[w])
      <4> DEFINE n == Len(op.ins)
      <4>1. n \in {2, 3} /\ DOMAIN op.ins = 1 .. n
        BY <1>1
      <4> HIDE DEF n
      <4>2. 2 \in DOMAIN op.ins
        BY <4>1
      <4> QED BY <4>2, <1>1, <1>3
    <3>2. OpOf(graph.tensors[w].val) # "scaled"
      BY <1>1
    <3>3. OpOf(Read(graph.tensors[w])) # "scaled"
      BY <3>2 DEF Read, Term, OpOf
    <3> QED BY <3>1, <3>3
  <2>4. c[1] = V[op.outs[1]]
    BY <1>1
  <2> HIDE DEF d, c
  <2>5. Result(op.type, op.attr, d) = Product(op.type, op.attr, d)
    BY <1>1, ProductOrNorm
  <2> QED BY <2>2, <2>3, <2>4, <2>5, PlainProduct
<1>8. c = <<Term(op.type, op.attr, d)>> \o figures
  <2>1. ASSUME NEW k \in 1 .. 4 PROVE figures[k] = c[k + 1]
    <3>1. k + 1 \in 2 .. 5 /\ k + 1 \in 1 .. 5 /\ (k + 1) - 1 = k
      OBVIOUS
    <3>2. Params(bn)[k] = bn.ins[k + 1] /\ IsConstant(graph.tensors, bn.ins[k + 1])
      BY <3>1, <1>1
    <3>3. figures[k] = Read(graph.tensors[bn.ins[k + 1]])
      BY <3>2 DEF Figures
    <3> QED BY <3>1, <3>2, <3>3, <1>3
  <2>2. c = [x \in 1 .. 5 |-> c[x]]
    OBVIOUS
  <2>3. figures = [k \in 1 .. 4 |-> figures[k]]
    BY DEF Figures
  <2> HIDE DEF c, figures
  <2>4. figures = [k \in 1 .. 4 |-> c[k + 1]]
    BY <2>1, <2>3
  <2>5. c = <<c[1]>> \o figures
    BY <2>2, <2>4, OneAndFour
  <2> HIDE DEF d
  <2> QED BY <2>5, <1>7
<1> HIDE DEF c, figures
<1>9. /\ Fused(op, bn).type = op.type /\ Fused(op, bn).attr = op.attr
      /\ ins = IF Len(op.ins) < 3 THEN Append(op.ins, NewBias(op)) ELSE op.ins
  <2> DEFINE a == <<bn.outs[1]>>
             b == IF Len(op.ins) < 3 THEN Append(op.ins, NewBias(op)) ELSE op.ins
  <2>1. Fused(op, bn) = [op EXCEPT !.outs = a, !.ins = b]
    BY DEF Fused
  <2>2. op \in [type : Words, attr : Seq(STRING), ins : Seq(TensorNames), outs : Seq(TensorNames)]
    BY <1>5 DEF Operations
  <2> HIDE DEF op, a, b
  <2> QED BY <2>1, <2>2 DEF b
<1>10. NewBias(op) \in TensorNames
  <2>1. op.outs \in Seq(TensorNames) /\ DOMAIN op.outs = 1 .. Len(op.outs)
    BY <1>5, OperatorShape
  <2>2. op.outs[1] \in Seq(Words)
    <3>1. 1 \in 1 .. Len(op.outs)
      BY <2>1, <1>1
    <3> QED BY <2>1, <3>1, ElementOfSeq DEF TensorNames
  <2> DEFINE a == <<"absorbed">>
             b == op.outs[1]
  <2>3. a \in Seq(Words)
    <3>1. "absorbed" \in Words
      BY DEF Words
    <3> QED BY <3>1, OneElement
  <2>4. b \in Seq(Words)
    BY <2>2
  <2> HIDE DEF a, b
  <2>5. a \o b \in Seq(Words)
    BY <2>3, <2>4, ConcatProperties
  <2> QED BY <2>5 DEF a, b, TensorNames, NewBias
<1>11. /\ DOMAIN ins = 1 .. 3 /\ ins[1] = op.ins[1] /\ ins[2] = op.ins[2] /\ ins[3] = BiasOf(op)
  <2> DEFINE n == Len(op.ins)
             s == op.ins
             b == NewBias(op)
  <2>1. n \in {2, 3} /\ DOMAIN s = 1 .. n /\ s \in Seq(TensorNames) /\ b \in TensorNames /\ n = Len(s)
    BY <1>1, <1>5, <1>10
  <2>2. ins = (IF n < 3 THEN Append(s, b) ELSE s) /\ BiasOf(op) = IF n < 3 THEN b ELSE s[3]
    BY <1>9 DEF BiasOf
  <2> HIDE DEF n, s, b, ins
  <2>3. CASE n = 2
    <3>1. /\ Append(s, b) \in Seq(TensorNames) /\ Len(Append(s, b)) = 3
          /\ \A k \in 1 .. 2 : Append(s, b)[k] = s[k]
          /\ Append(s, b)[3] = b
      <4> DEFINE l == Append(s, b)
      <4>1. /\ l \in Seq(TensorNames) /\ Len(l) = Len(s) + 1
            /\ \A k \in 1 .. Len(s) : l[k] = s[k]
            /\ l[Len(s) + 1] = b
        BY <2>1, AppendProperties
      <4>2. Len(s) = 2
        BY <2>1, <2>3
      <4> HIDE DEF l
      <4>3. l \in Seq(TensorNames) /\ Len(l) = 3 /\ (\A k \in 1 .. 2 : l[k] = s[k]) /\ l[3] = b
        BY <4>1, <4>2
      <4> QED BY <4>3 DEF l
    <3>2. ins = Append(s, b) /\ BiasOf(op) = b
      BY <2>2, <2>3
    <3>3. DOMAIN Append(s, b) = 1 .. 3
      BY <3>1
    <3> QED BY <3>1, <3>2, <3>3 DEF s
  <2>4. CASE n = 3
    <3>1. ins = s /\ BiasOf(op) = s[3]
      BY <2>2, <2>4
    <3> QED BY <3>1, <2>1, <2>4 DEF s
  <2> QED BY <2>1, <2>3, <2>4
<1>12. /\ Len(e) = 3 /\ e[1] = d[1] /\ e[2] = Scaled(graph, i, j) /\ e[3] = Shifted(graph, i, j)
  <2>1. e = [x \in 1 .. 3 |-> W[ins[x]]]
    BY <1>11
  <2>2. Len(e) = 3
    <3> DEFINE S == {W[ins[x]] : x \in 1 .. 3}
    <3>1. \A x \in 1 .. 3 : W[ins[x]] \in S
      OBVIOUS
    <3> HIDE DEF S, e
    <3>2. e \in [1 .. 3 -> S]
      BY <2>1, <3>1
    <3> QED BY <3>2
  <2>3. 1 \in DOMAIN op.ins
    <3> DEFINE n == Len(op.ins)
    <3>1. n \in {2, 3} /\ DOMAIN op.ins = 1 .. n
      BY <1>1
    <3> HIDE DEF n
    <3> QED BY <3>1
  <2> HIDE DEF ins
  <2>4. e[1] = W[ins[1]] /\ e[2] = W[ins[2]] /\ e[3] = W[ins[3]]
    BY <2>1
  <2> HIDE DEF e
  <2> QED BY <2>2, <2>3, <2>4, <1>11
<1>13. Compute(Fused(op, bn), W) = Product(op.type, op.attr, e)
  <2>1. Compute(Fused(op, bn), W) = Result(op.type, op.attr, e)
    BY <1>9 DEF Compute
  <2> HIDE DEF e
  <2> QED BY <2>1, <1>1, ProductOrNorm
<1>14. Scaled(graph, i, j) = Term("scaled", bn.attr, <<d[2], figures>>)
       /\ Shifted(graph, i, j) = IF Len(op.ins) < 3 THEN Term("shift", bn.attr, <<figures>>)
                                 ELSE Term("shifted", bn.attr, <<d[3], figures>>)
  <2> DEFINE n == Len(op.ins)
  <2>1. n \in {2, 3} /\ DOMAIN op.ins = 1 .. n
    BY <1>1
  <2>2. d[2] = Read(graph.tensors[w])
    <3> HIDE DEF n
    <3>1. 2 \in DOMAIN op.ins
      BY <2>1
    <3> QED BY <3>1, <1>1, <1>3
  <2>3. n = 3 => d[3] = Read(graph.tensors[op.ins[3]])
    <3>1. n = 3 => 3 \in DOMAIN op.ins
      BY <2>1
    <3> QED BY <3>1, <1>3, <1>4
  <2>4. ~(n < 3) => n = 3
    <3> HIDE DEF n
    <3> QED BY <2>1
  <2> HIDE DEF d
  <2> QED BY <2>2, <2>3, <2>4 DEF Scaled, Shifted, figures
<1> HIDE DEF e
<1>15. CASE Len(op.ins) < 3
  <2>1. Len(op.ins) = 2
    <3> DEFINE n == Len(op.ins)
    <3>1. n \in {2, 3} /\ n < 3
      BY <1>1, <1>15
    <3> HIDE DEF n
    <3>2. n = 2
      BY <3>1
    <3> QED BY <3>2 DEF n
  <2>2. d = <<d[1], d[2]>>
    <3>1. d = [x \in 1 .. 2 |-> V[op.ins[x]]]
      BY <2>1, <1>1
    <3> HIDE DEF op, V
    <3> QED BY <3>1
  <2> HIDE DEF d
  <2>3. e[2] = Term("scaled", bn.attr, <<d[2], figures>>) /\ e[3] = Term("shift", bn.attr, <<figures>>)
    BY <1>12, <1>14, <1>15
  <2>4. Product(op.type, op.attr, e) =
          Term("BatchNormalization", bn.attr, <<Term(op.type, op.attr, <<e[1], d[2]>>)>> \o figures)
    <3> DEFINE type == op.type
               attr == op.attr
               a == bn.attr
               weight == d[2]
               bias == d[3]
    <3>1. /\ "beta" \notin ToSet(attr) /\ Len(e) = 3 /\ e[2] = Term("scaled", a, <<weight, figures>>)
          /\ e[3] = Term("shift", a, <<figures>>)
      BY <2>3, <1>4, <1>12
    <3>2. ~(Len(e) < 3)
      BY <3>1
    <3> HIDE DEF type, attr, a, weight, bias
    <3>3. Product(type, attr, e) =
            Term("BatchNormalization", a, <<Term(type, attr, <<e[1], weight>>)>> \o figures)
      BY <3>1, <3>2, ProductAbsorbs
    <3> QED BY <3>3 DEF type, attr, a, weight, bias
  <2> QED BY <2>2, <2>4, <1>6, <1>8, <1>12, <1>13
<1>16. CASE ~(Len(op.ins) < 3)
  <2>1. Len(op.ins) = 3
    <3> DEFINE n == Len(op.ins)
    <3>1. n \in {2, 3} /\ ~(n < 3)
      BY <1>1, <1>16
    <3> HIDE DEF n
    <3>2. n = 3
      BY <3>1
    <3> QED BY <3>2 DEF n
  <2>2. d = <<d[1], d[2], d[3]>>
    <3>1. d = [x \in 1 .. 3 |-> V[op.ins[x]]]
      BY <2>1, <1>1
    <3> HIDE DEF op, V
    <3> QED BY <3>1
  <2> HIDE DEF d
  <2>3. e[2] = Term("scaled", bn.attr, <<d[2], figures>>) /\ e[3] = Term("shifted", bn.attr, <<d[3], figures>>)
    BY <1>12, <1>14, <1>16
  <2>4. Product(op.type, op.attr, e) =
          Term("BatchNormalization", bn.attr, <<Term(op.type, op.attr, <<e[1], d[2], d[3]>>)>> \o figures)
    <3> DEFINE type == op.type
               attr == op.attr
               a == bn.attr
               weight == d[2]
               bias == d[3]
    <3>1. /\ "beta" \notin ToSet(attr) /\ Len(e) = 3 /\ e[2] = Term("scaled", a, <<weight, figures>>)
          /\ e[3] = Term("shifted", a, <<bias, figures>>)
      BY <2>3, <1>4, <1>12
    <3>2. ~(Len(e) < 3)
      BY <3>1
    <3> HIDE DEF type, attr, a, weight, bias
    <3>3. Product(type, attr, e) =
            Term("BatchNormalization", a, <<Term(type, attr, <<e[1], weight, bias>>)>> \o figures)
      BY <3>1, <3>2, ProductWithBias
    <3> QED BY <3>3 DEF type, attr, a, weight, bias
  <2> QED BY <2>2, <2>4, <1>6, <1>8, <1>12, <1>13
<1> QED BY <1>15, <1>16

\* Absorption keeps what the caller sees, given the list and tensors it leaves.
LEMMA AbsorbedKeepsFunction ==
  ASSUME NEW graph, Sound(graph), Fresh(graph), ~AbsorbsWrongly(graph),
         \A t : IsConstant(graph.tensors, t) => OpOf(graph.tensors[t].val) # "scaled",
         NEW ops, NEW ts, NEW h, ListAfter(graph, ops, h), Painted(graph, ts, Absorbing(graph)),
         DOMAIN graph.tensors \subseteq DOMAIN ts,
         NEW new, Sound(new), new.ops = ops, new.tensors = ts, new.inputs = graph.inputs,
         new.outputs = graph.outputs
  PROVE  Outputs(new) = Outputs(graph)
<1> DEFINE V == Values(graph)
           W == Carried(new, V)
<1>1. \A t \in DOMAIN new.tensors : W[t] = IF Written(new, t) THEN V[t] ELSE Held(new, t)
  BY DEF Carried
<1>2. Means(graph, V)
  BY ValuesMean
<1>3. \A t \in DOMAIN graph.tensors :
        (\A i \in Absorbing(graph) : t \notin Rewrites(graph, i) /\ t # graph.ops[i].outs[1])
           => Written(new, t) \/ Held(new, t) = V[t]
  BY AbsorptionCarries
<1> HIDE DEF V, W
<1>4. ASSUME NEW i \in DOMAIN graph.ops, i \notin Consumed(graph), NEW x \in DOMAIN graph.ops[i].ins,
             i \in Absorbing(graph) => x = 1
      PROVE  W[graph.ops[i].ins[x]] = V[graph.ops[i].ins[x]]
  <2> DEFINE u == graph.ops[i].ins[x]
  <2>1. u \in ToSet(graph.ops[i].ins)
    BY DEF ToSet
  <2>2. u \in DOMAIN graph.tensors /\ u \in DOMAIN new.tensors
    BY <2>1, SoundOperators
  <2>3. \A k \in Absorbing(graph) : u \notin Rewrites(graph, k) /\ u # graph.ops[k].outs[1]
    BY <1>4, AbsorbedOperands
  <2> HIDE DEF u
  <2>4. W[u] = V[u]
    BY <2>2, <2>3, <1>1, <1>3
  <2> QED BY <2>4 DEF u
<1>5. ASSUME NEW t, NEW v, Holds(ts, t, v) PROVE W[t] = v
  <2>1. t \in DOMAIN new.tensors /\ IsConstant(new.tensors, t) /\ Read(new.tensors[t]) = v
    BY <1>5 DEF Holds, IsConstant
  <2>2. ~Written(new, t) /\ Held(new, t) = v
    BY <2>1, ConstantMeans
  <2> QED BY <2>1, <2>2, <1>1
<1>6. ASSUME NEW i \in DOMAIN graph.ops, i \notin Consumed(graph), NEW t \in ToSet(AfterAbsorption(graph)[i].outs)
      PROVE  V[t] = Compute(AfterAbsorption(graph)[i], W)
  <2>1. CASE i \notin Absorbing(graph)
    <3> DEFINE op == graph.ops[i]
    <3>1. AfterAbsorption(graph)[i] = op
      BY <2>1 DEF AfterAbsorption
    <3>2. V[t] = Compute(op, V)
      BY <3>1, <1>2, <1>6 DEF Means
    <3>3. \A x \in DOMAIN op.ins : W[op.ins[x]] = V[op.ins[x]]
      BY <2>1, <1>4, <1>6
    <3> HIDE DEF op
    <3>4. Compute(op, W) = Compute(op, V)
      BY <3>3, SameComputed
    <3> QED BY <3>1, <3>2, <3>4
  <2>2. CASE i \in Absorbing(graph)
    <3>1. PICK j \in DOMAIN graph.ops : Absorbs(graph, i, j)
      BY <2>2 DEF Absorbing
    <3>2. /\ PartnerOf(graph, i) = j /\ DOMAIN graph.ops[j].outs = 1 .. 1
          /\ Len(graph.ops[i].ins) \in {2, 3} /\ DOMAIN graph.ops[i].ins = 1 .. Len(graph.ops[i].ins)
      BY <3>1, AbsorbFacts
    <3>3. AfterAbsorption(graph)[i] = Fused(graph.ops[i], graph.ops[j])
      BY <3>2, <2>2 DEF AfterAbsorption
    <3>4. t = graph.ops[j].outs[1]
      <4>1. AfterAbsorption(graph)[i].outs = graph.ops[j].outs
        BY <2>2, <3>2, <1>6, AbsorbedOperator
      <4> QED BY <4>1, <3>2, <1>6 DEF ToSet
    <3>5. W[graph.ops[i].ins[1]] = V[graph.ops[i].ins[1]]
      <4> DEFINE n == Len(graph.ops[i].ins)
      <4>1. n \in {2, 3} /\ DOMAIN graph.ops[i].ins = 1 .. n
        BY <3>2
      <4> HIDE DEF n
      <4>2. 1 \in DOMAIN graph.ops[i].ins
        BY <4>1
      <4> QED BY <4>2, <1>4, <1>6
    <3>6. /\ Holds(ts, graph.ops[i].ins[2], Scaled(graph, i, j))
          /\ Holds(ts, BiasOf(graph.ops[i]), Shifted(graph, i, j))
      BY <2>2, <3>2 DEF Painted
    <3>7. W[graph.ops[i].ins[2]] = Scaled(graph, i, j) /\ W[BiasOf(graph.ops[i])] = Shifted(graph, i, j)
      BY <3>6, <1>5
    <3>8. Compute(Fused(graph.ops[i], graph.ops[j]), W) = V[graph.ops[j].outs[1]]
      BY <3>1, <3>5, <3>7, AbsorbedComputes DEF V
    <3> QED BY <3>3, <3>4, <3>8
  <2> QED BY <2>1, <2>2
<1>7. ASSUME NEW k \in DOMAIN new.ops, NEW t \in ToSet(new.ops[k].outs) PROVE V[t] = Compute(new.ops[k], W)
  <2>1. h[k] \in DOMAIN graph.ops /\ h[k] \notin Consumed(graph) /\ new.ops[k] = AfterAbsorption(graph)[h[k]]
    BY DEF ListAfter
  <2> DEFINE i == h[k]
  <2>2. i \in DOMAIN graph.ops /\ i \notin Consumed(graph) /\ new.ops[k] = AfterAbsorption(graph)[i]
    BY <2>1
  <2> HIDE DEF i
  <2> QED BY <2>2, <1>6
<1>8. ASSUME NEW t \in graph.outputs PROVE Written(new, t) \/ Held(new, t) = V[t]
  <2>1. t \in DOMAIN graph.tensors
    BY DEF Sound, NamesKnown
  <2>2. ASSUME NEW i \in Absorbing(graph) PROVE t \notin Rewrites(graph, i) /\ t # graph.ops[i].outs[1]
    <3>1. PICK j \in DOMAIN graph.ops : i \in DOMAIN graph.ops /\ Absorbs(graph, i, j)
      BY DEF Absorbing
    <3>2. graph.ops[i].outs[1] \notin graph.outputs
      BY <3>1, ReadOnce
    <3>3. t \notin Rewrites(graph, i)
      BY <2>1, PaintsApart
    <3> QED BY <3>2, <3>3
  <2> QED BY <2>1, <2>2, <1>3
<1>9. \A k \in DOMAIN new.ops : \A t \in ToSet(new.ops[k].outs) :
           Values(graph)[t] = Compute(new.ops[k], Carried(new, Values(graph)))
  BY <1>7 DEF V, W
<1>10. \A t \in graph.outputs : Written(new, t) \/ Held(new, t) = Values(graph)[t]
  BY <1>8 DEF V
<1> QED BY <1>9, <1>10, CarriedOver

\* Absorption keeps what the caller sees.
LEMMA AbsorbKeepsFunction ==
  ASSUME NEW s, IsIngested(s), NEW graph, Sound(graph), FoldPhase(s, graph), ~AbsorbsWrongly(graph),
         ~Absorb(graph).raised
  PROVE  Outputs(Absorb(graph).g) = Outputs(graph)
<1>1. Fresh(graph)
  BY FoldedFresh
<1>2. PICK ops, ts, h : /\ Absorb(graph).g = [graph EXCEPT !.tensors = ts, !.ops = ops]
                        /\ Thinned(ops, AfterAbsorption(graph), (DOMAIN graph.ops) \ Consumed(graph), h)
                        /\ Repainted(graph, ts, Absorbing(graph))
  BY <1>1, AbsorbDone
<1> DEFINE new == Absorb(graph).g
<1>3. new.ops = ops /\ new.tensors = ts /\ new.inputs = graph.inputs /\ new.outputs = graph.outputs
  <2>1. graph \in [ops : {graph.ops}, tensors : {graph.tensors}, inputs : {graph.inputs}, outputs : {graph.outputs}]
    BY DEF Sound, IsGraph
  <2>2. new = [graph EXCEPT !.tensors = ts, !.ops = ops]
    BY <1>2
  <2> HIDE DEF new
  <2> QED BY <2>1, <2>2
<1>4. Sound(new)
  <2>1. Sound([graph EXCEPT !.tensors = ts, !.ops = ops])
    BY <1>1, <1>2, AbsorbedSound
  <2> HIDE DEF new
  <2> QED BY <2>1, <1>2 DEF new
<1>5. ListAfter(graph, ops, h)
  BY <1>2, AbsorbedList
<1>6. Painted(graph, ts, Absorbing(graph))
  BY <1>1, <1>3, AbsorbPaints
<1>7. DOMAIN graph.tensors \subseteq DOMAIN ts
  BY <1>2 DEF Repainted
<1>8. \A t : IsConstant(graph.tensors, t) => OpOf(graph.tensors[t].val) # "scaled"
  BY DEF FoldPhase
<1> HIDE DEF new
<1>9. Outputs(new) = Outputs(graph)
  BY <1>1, <1>3, <1>4, <1>5, <1>6, <1>7, <1>8, AbsorbedKeepsFunction
<1> QED BY <1>9 DEF new

-----------------------------------------------------------------------------
(* Fusion keeps the function. *)

\* The activation of a value.
LEMMA ReluComputes ==
  ASSUME NEW consumer, consumer.type = "Relu", consumer.attr = <<>>, DOMAIN consumer.ins = 1 .. 1,
         NEW vals
  PROVE  Compute(consumer, vals) = Relu(vals[consumer.ins[1]])
<1> DEFINE args == [k \in DOMAIN consumer.ins |-> vals[consumer.ins[k]]]
           v == vals[consumer.ins[1]]
<1>1. Compute(consumer, vals) = Result("Relu", <<>>, args)
  BY DEF Compute
<1>2. args = <<v>>
  OBVIOUS
<1> HIDE DEF args, v
<1>3. Result("Relu", <<>>, args) = Term("Relu", <<>>, args)
  BY DEF Result
<1>4. Compute(consumer, vals) = Relu(v)
  BY <1>1, <1>2, <1>3 DEF Relu
<1> QED BY <1>4 DEF v

\* An operator fused with an activation computes the activation of its result.
LEMMA FusedReluComputes ==
  ASSUME NEW op, op.type \in {"Conv", "Gemm", "Add"},
         NEW m, m.type = FusedType[op.type]["Relu"], m.attr = op.attr, m.ins = op.ins,
         NEW vals
  PROVE  Compute(m, vals) = Relu(Compute(op, vals))
<1> DEFINE args == [k \in DOMAIN op.ins |-> vals[op.ins[k]]]
           attr == op.attr
<1>1. Compute(m, vals) = Result(m.type, attr, args) /\ Compute(op, vals) = Result(op.type, attr, args)
  BY DEF Compute
<1> HIDE DEF args, attr
<1>2. CASE op.type = "Conv"
  <2>1. m.type = "Conv_Relu"
    BY <1>2 DEF FusedType
  <2>2. Result("Conv_Relu", attr, args) = Relu(Product("Conv", attr, args))
    BY DEF Result
  <2>3. Result("Conv", attr, args) = Product("Conv", attr, args)
    BY ProductOrNorm
  <2> QED BY <1>1, <1>2, <2>1, <2>2, <2>3
<1>3. CASE op.type = "Gemm"
  <2>1. m.type = "Gemm_Relu"
    BY <1>3 DEF FusedType
  <2>2. Result("Gemm_Relu", attr, args) = Relu(Product("Gemm", attr, args))
    BY DEF Result
  <2>3. Result("Gemm", attr, args) = Product("Gemm", attr, args)
    BY ProductOrNorm
  <2> QED BY <1>1, <1>3, <2>1, <2>2, <2>3
<1>4. CASE op.type = "Add"
  <2>1. m.type = "Add_Relu"
    BY <1>4 DEF FusedType
  <2>2. Result("Add_Relu", attr, args) = Relu(Plus(args))
    BY DEF Result
  <2>3. Result("Add", attr, args) = Plus(args)
    BY DEF Result
  <2> QED BY <1>1, <1>4, <2>1, <2>2, <2>3
<1> QED BY <1>2, <1>3, <1>4

\* Two summands are added in any order.
LEMMA PlusCommutes ==
  ASSUME NEW v, NEW c
  PROVE  Plus(<<c, v>>) = Plus(<<v, c>>)
<1>1. ToSet(<<c, v>>) = ToSet(<<v, c>>)
  BY DEF ToSet
<1> QED BY <1>1 DEF Plus

\* A product fused with a sum adds the addend to the product.
LEMMA FusedAddComputes ==
  ASSUME NEW op, op.type = "MatMul", DOMAIN op.ins = 1 .. 2,
         NEW t, NEW addend, NEW consumer, consumer.type = "Add",
         consumer.ins \in {<<t, addend>>, <<addend, t>>},
         NEW m, m.type = "MatMul_Add", m.attr = op.attr, m.ins = <<op.ins[1], op.ins[2], addend>>,
         NEW vals, vals[t] = Compute(op, vals)
  PROVE  Compute(m, vals) = Compute(consumer, vals)
<1> DEFINE a == vals[op.ins[1]]
           b == vals[op.ins[2]]
           c == vals[addend]
           attr == op.attr
           product == Term("MatMul", attr, <<a, b>>)
<1>1. [k \in DOMAIN op.ins |-> vals[op.ins[k]]] = <<a, b>>
  OBVIOUS
<1>2. [k \in DOMAIN m.ins |-> vals[m.ins[k]]] = <<a, b, c>>
  OBVIOUS
<1>3. Compute(op, vals) = Result("MatMul", attr, <<a, b>>)
  BY <1>1 DEF Compute
<1>4. Compute(m, vals) = Result("MatMul_Add", attr, <<a, b, c>>)
  BY <1>2 DEF Compute
<1>5. Compute(consumer, vals) \in {Result("Add", consumer.attr, <<vals[t], c>>),
                                   Result("Add", consumer.attr, <<c, vals[t]>>)}
  <2>1. CASE consumer.ins = <<t, addend>>
    <3>1. [k \in DOMAIN consumer.ins |-> vals[consumer.ins[k]]] = <<vals[t], c>>
      BY <2>1
    <3> QED BY <3>1 DEF Compute
  <2>2. CASE consumer.ins = <<addend, t>>
    <3>1. [k \in DOMAIN consumer.ins |-> vals[consumer.ins[k]]] = <<c, vals[t]>>
      BY <2>2
    <3> QED BY <3>1 DEF Compute
  <2> QED BY <2>1, <2>2
<1> HIDE DEF a, b, c, attr
<1>6. Result("MatMul", attr, <<a, b>>) = product
  BY DEF Result
<1>7. Result("MatMul_Add", attr, <<a, b, c>>) = Plus(<<product, c>>)
  <2> DEFINE args == <<a, b, c>>
  <2>1. SubSeq(args, 1, 2) = <<a, b>> /\ args[3] = c
    <3> DEFINE S == {a, b, c}
    <3>1. args \in Seq(S) /\ Len(args) = 3 /\ args[1] = a /\ args[2] = b /\ args[3] = c
      OBVIOUS
    <3> HIDE DEF args
    <3>2. /\ SubSeq(args, 1, 2) \in Seq(S) /\ Len(SubSeq(args, 1, 2)) = 2
          /\ \A k \in 1 .. 2 : SubSeq(args, 1, 2)[k] = args[k]
      BY <3>1
    <3> DEFINE part == SubSeq(args, 1, 2)
               two == <<a, b>>
    <3>3. part \in Seq(S) /\ Len(part) = 2 /\ \A k \in 1 .. 2 : part[k] = two[k]
      <4>1. \A k \in 1 .. 2 : k = 1 \/ k = 2
        OBVIOUS
      <4> QED BY <4>1, <3>1, <3>2
    <3>4. two \in Seq(S) /\ Len(two) = 2
      OBVIOUS
    <3> HIDE DEF part, two, S
    <3>5. part = two
      BY <3>3, <3>4, SeqEqual
    <3> QED BY <3>1, <3>5 DEF part, two
  <2> HIDE DEF args
  <2>2. Result("MatMul_Add", attr, args) = Plus(<<Term("MatMul", attr, SubSeq(args, 1, 2)), args[3]>>)
    BY DEF Result
  <2> QED BY <2>1, <2>2 DEF args
<1> HIDE DEF product
<1>8. vals[t] = product
  BY <1>3, <1>6
<1>9. \A args : Result("Add", consumer.attr, args) = Plus(args)
  BY DEF Result
<1>10. Compute(consumer, vals) \in {Plus(<<product, c>>), Plus(<<c, product>>)}
  BY <1>5, <1>8, <1>9
<1> QED BY <1>4, <1>7, <1>10, PlusCommutes

\* A fused operator computes what its second half computed.
LEMMA FusionComputes ==
  ASSUME NEW graph, Sound(graph), NEW V, Means(graph, V),
         NEW i \in DOMAIN graph.ops, NEW j \in DOMAIN graph.ops, Fuses(graph, i, j),
         NEW t \in ToSet(graph.ops[j].outs)
  PROVE  V[t] = Compute(FusedOp(graph.ops[i], graph.ops[j]), V)
<1> DEFINE op == graph.ops[i]
           consumer == graph.ops[j]
           m == FusedOp(op, consumer)
           u == op.outs[1]
<1>1. V[t] = Compute(consumer, V) /\ V[u] = Compute(op, V)
  <2>1. u \in ToSet(op.outs)
    BY SoundOperators
  <2> QED BY <2>1 DEF Means
<1>2. /\ op \in Operations /\ HasArity(op) /\ consumer \in Operations /\ HasArity(consumer)
      /\ u \in ToSet(consumer.ins)
  <2>1. op \in Operations /\ consumer \in Operations
    BY GraphShape DEF Sound
  <2>2. HasArity(op) /\ HasArity(consumer)
    BY SoundOperators
  <2>3. u \in ToSet(consumer.ins)
    BY DEF Fuses
  <2> QED BY <2>1, <2>2, <2>3
<1>3. \/ FusedWithRelu(op, consumer, m)
      \/ \E addend \in ToSet(consumer.ins) :
           FusedWithAddend(op, consumer, addend, m) /\ IsConstant(graph.tensors, addend)
  BY FusedShape
<1> HIDE DEF op, consumer, m, u
<1>4. CASE FusedWithRelu(op, consumer, m)
  <2>1. /\ op.type \in {"Conv", "Gemm", "Add"} /\ consumer.type = "Relu"
        /\ m.type = FusedType[op.type]["Relu"] /\ m.attr = op.attr /\ m.ins = op.ins
    BY <1>4 DEF FusedWithRelu
  <2>2. consumer.attr = <<>>
    BY <1>2, <2>1 DEF HasArity
  <2>3. DOMAIN consumer.ins = 1 .. 1
    BY <1>2, <2>1, Operands
  <2>4. consumer.ins[1] = u
    BY <1>2, <2>3 DEF ToSet
  <2>5. Compute(consumer, V) = Relu(V[u])
    BY <2>1, <2>2, <2>3, <2>4, ReluComputes
  <2>6. Compute(m, V) = Relu(Compute(op, V))
    BY <2>1, FusedReluComputes
  <2> QED BY <1>1, <2>5, <2>6 DEF op, consumer, m
<1>5. ASSUME NEW addend, FusedWithAddend(op, consumer, addend, m)
      PROVE  V[t] = Compute(m, V)
  <2>1. /\ op.type = "MatMul" /\ consumer.type = "Add"
        /\ consumer.ins \in {<<op.outs[1], addend>>, <<addend, op.outs[1]>>}
        /\ m.type = "MatMul_Add" /\ m.attr = op.attr /\ m.ins = <<op.ins[1], op.ins[2], addend>>
    BY <1>5 DEF FusedWithAddend
  <2>2. DOMAIN op.ins = 1 .. 2
    BY <1>2, <2>1, Operands
  <2>3. V[op.outs[1]] = Compute(op, V)
    BY <1>1 DEF u
  <2>4. Compute(m, V) = Compute(consumer, V)
    BY <2>1, <2>2, <2>3, FusedAddComputes
  <2> QED BY <1>1, <2>4
<1>6. V[t] = Compute(m, V)
  BY <1>3, <1>4, <1>5 DEF m, op, consumer
<1> QED BY <1>6 DEF m, op, consumer

\* What only the second half of a fused operator reads.
Inner(graph, takers) == {graph.ops[b].outs[1] : b \in takers}

\* The graph after a sweep of fusion, by the operators that have taken another.
FusedInto(graph, takers, new) ==
  /\ new.tensors = graph.tensors /\ new.inputs = graph.inputs
  /\ \E acc, h : /\ FusedTo(graph, acc, Len(graph.ops), takers) /\ FusedList(graph, takers, acc.ops, h)
                 /\ new.ops = acc.ops

\* What an operator reads that stays has its value.
LEMMA FusionCarries ==
  ASSUME NEW graph, Sound(graph), NEW takers, NEW new, FusedInto(graph, takers, new),
         NEW t \in DOMAIN graph.tensors, t \notin Inner(graph, takers)
  PROVE  Written(new, t) \/ Held(new, t) = Values(graph)[t]
<1>0. PICK acc, h : /\ FusedTo(graph, acc, Len(graph.ops), takers) /\ FusedList(graph, takers, acc.ops, h)
                    /\ new.ops = acc.ops
  BY DEF FusedInto
<1>10. new.tensors = graph.tensors /\ new.inputs = graph.inputs
  BY DEF FusedInto
<1> SUFFICES ASSUME ~Written(new, t) PROVE Held(new, t) = Values(graph)[t]
  OBVIOUS
<1>1. ASSUME NEW k \in DOMAIN graph.ops, k \notin Mates(graph, takers),
             t \in ToSet(Merged(graph, takers)[k].outs)
      PROVE  FALSE
  <2> DEFINE m == Merged(graph, takers)[k]
  <2>1. m \in ToSet(acc.ops)
    BY <1>0, <1>1 DEF FusedList
  <2> HIDE DEF m
  <2>2. PICK p \in DOMAIN new.ops : new.ops[p] = m
    BY <1>0, <2>1 DEF ToSet
  <2>3. t \in ToSet(new.ops[p].outs)
    BY <2>2, <1>1 DEF m
  <2> QED BY <2>3 DEF Written
<1>2. ASSUME NEW a \in DOMAIN graph.ops, t \in ToSet(graph.ops[a].outs) PROVE FALSE
  <2>1. ASSUME NEW b \in takers
        PROVE  /\ b \in DOMAIN graph.ops /\ MateOf(graph, b) \in DOMAIN graph.ops /\ b \notin Mates(graph, takers)
               /\ Fuses(graph, b, MateOf(graph, b))
               /\ Merged(graph, takers)[b].outs = graph.ops[MateOf(graph, b)].outs
    <3>1. /\ b \in 1 .. Len(graph.ops) /\ MateOf(graph, b) \in DOMAIN graph.ops
          /\ Fuses(graph, b, MateOf(graph, b)) /\ b \notin Mates(graph, takers)
      BY <1>0 DEF FusedTo
    <3>2. b \in DOMAIN graph.ops
      BY <3>1, GraphShape DEF Sound
    <3>3. Merged(graph, takers)[b].outs = graph.ops[MateOf(graph, b)].outs
      BY <3>2 DEF Merged, FusedOp
    <3> QED BY <3>1, <3>2, <3>3
  <2>2. CASE a \in takers
    <3>1. DOMAIN graph.ops[a].outs = 1 .. 1
      <4> DEFINE j == MateOf(graph, a)
      <4>1. a \in DOMAIN graph.ops /\ j \in DOMAIN graph.ops /\ Fuses(graph, a, j)
        BY <2>1, <2>2
      <4> HIDE DEF j
      <4> QED BY <4>1, FuseFacts
    <3>2. t = graph.ops[a].outs[1]
      BY <3>1, <1>2 DEF ToSet
    <3> QED BY <3>2, <2>2 DEF Inner
  <2>3. CASE a \in Mates(graph, takers)
    <3>1. PICK b \in takers : a = MateOf(graph, b)
      BY <2>3 DEF Mates
    <3> QED BY <3>1, <2>1, <1>1, <1>2
  <2>4. CASE a \notin takers /\ a \notin Mates(graph, takers)
    <3>1. Merged(graph, takers)[a] = graph.ops[a]
      BY <2>4 DEF Merged
    <3> QED BY <3>1, <2>4, <1>1, <1>2
  <2> QED BY <2>2, <2>3, <2>4
<1>3. Held(new, t) = Held(graph, t)
  BY <1>10 DEF Held, IsConstant
<1>4. ~Written(graph, t)
  BY <1>2 DEF Written
<1>5. Means(graph, Values(graph))
  BY ValuesMean
<1> QED BY <1>3, <1>4, <1>5 DEF Means

\* Nothing that stays reads what a fused operator keeps to itself.
LEMMA FusionHides ==
  ASSUME NEW graph, Sound(graph), NEW acc, NEW takers,
         FusedTo(graph, acc, Len(graph.ops), takers),
         NEW i \in DOMAIN graph.ops, i \notin Mates(graph, takers), NEW t \in ToSet(graph.ops[i].ins)
  PROVE  t \notin Inner(graph, takers)
<1> SUFFICES ASSUME NEW b \in takers, t = graph.ops[b].outs[1] PROVE FALSE
  BY DEF Inner
<1> DEFINE j == MateOf(graph, b)
<1>1. /\ b \in DOMAIN graph.ops /\ j \in DOMAIN graph.ops /\ Fuses(graph, b, j) /\ j \in Mates(graph, takers)
  <2>1. b \in 1 .. Len(graph.ops) /\ j \in DOMAIN graph.ops /\ Fuses(graph, b, j)
    BY DEF FusedTo
  <2>2. b \in DOMAIN graph.ops
    BY <2>1, GraphShape DEF Sound
  <2> QED BY <2>1, <2>2 DEF Mates
<1> HIDE DEF j
<1>2. PICK k : OnlyRead(graph, t, j, k)
  BY <1>1, FuseFacts
<1>3. PICK l \in DOMAIN graph.ops[i].ins : graph.ops[i].ins[l] = t
  BY DEF ToSet
<1>4. i = j
  BY <1>2, <1>3 DEF OnlyRead
<1> QED BY <1>1, <1>4

\* Fusion keeps what the caller sees, whatever the sweep has fused.
LEMMA FusedKeepsFunction ==
  ASSUME NEW graph, Sound(graph), NEW acc, NEW takers,
         FusedTo(graph, acc, Len(graph.ops), takers), NEW h, FusedList(graph, takers, acc.ops, h),
         NEW new, Sound(new), new.ops = acc.ops, new.tensors = graph.tensors, new.inputs = graph.inputs,
         new.outputs = graph.outputs
  PROVE  Outputs(new) = Outputs(graph)
<1>10. FusedInto(graph, takers, new)
  BY DEF FusedInto
<1>0. ASSUME NEW t \in DOMAIN graph.tensors, t \notin Inner(graph, takers)
      PROVE  Written(new, t) \/ Held(new, t) = Values(graph)[t]
  BY <1>0, <1>10, FusionCarries
<1> DEFINE V == Values(graph)
           W == Carried(new, V)
<1>1. \A t \in DOMAIN new.tensors : W[t] = IF Written(new, t) THEN V[t] ELSE Held(new, t)
  BY DEF Carried
<1>2. Means(graph, V)
  BY ValuesMean
<1>3. \A t \in DOMAIN graph.tensors :
        t \notin Inner(graph, takers) => Written(new, t) \/ Held(new, t) = V[t]
  BY <1>0
<1>4. \A t : IsConstant(graph.tensors, t) => ~Written(new, t) /\ Held(new, t) = V[t]
  <2> SUFFICES ASSUME NEW t, IsConstant(graph.tensors, t) PROVE ~Written(new, t) /\ Held(new, t) = V[t]
    OBVIOUS
  <2>1. V[t] = Read(graph.tensors[t])
    BY ConstantMeans
  <2>2. IsConstant(new.tensors, t)
    OBVIOUS
  <2>3. ~Written(new, t) /\ Held(new, t) = Read(new.tensors[t])
    BY <2>2, ConstantMeans
  <2> QED BY <2>1, <2>3
<1> HIDE DEF V, W
<1>5. ASSUME NEW i \in DOMAIN graph.ops, i \notin Mates(graph, takers), NEW t \in ToSet(Merged(graph, takers)[i].outs)
      PROVE  V[t] = Compute(Merged(graph, takers)[i], W)
  <2> DEFINE m == Merged(graph, takers)[i]
             w == WriterOf(graph, takers, i)
  <2>1. Becomes(graph, takers, i, w, m)
    BY FusedOperator
  <2>2. V[t] = Compute(m, V)
    <3>1. CASE i \in takers
      <4>1. m = FusedOp(graph.ops[i], graph.ops[w]) /\ m.outs = graph.ops[w].outs /\ w \in DOMAIN graph.ops
            /\ Fuses(graph, i, w)
        BY <3>1, <2>1 DEF Merged, WriterOf, Becomes
      <4>2. t \in ToSet(graph.ops[w].outs)
        BY <4>1, <1>5
      <4> HIDE DEF m, w
      <4>3. V[t] = Compute(FusedOp(graph.ops[i], graph.ops[w]), V)
        BY <4>1, <4>2, <1>2, FusionComputes
      <4> QED BY <4>1, <4>3
    <3>2. CASE i \notin takers
      <4>1. m = graph.ops[i]
        BY <3>2 DEF Merged
      <4> QED BY <4>1, <1>2, <1>5 DEF Means
    <3> QED BY <3>1, <3>2
  <2>3. ASSUME NEW x \in DOMAIN m.ins PROVE W[m.ins[x]] = V[m.ins[x]]
    <3> DEFINE u == m.ins[x]
    <3>1. u \in ToSet(m.ins)
      BY DEF ToSet
    <3> HIDE DEF u, m, w
    <3>2. \/ u \in ToSet(graph.ops[i].ins)
          \/ IsConstant(graph.tensors, u)
      BY <3>1, <2>1 DEF Becomes
    <3>3. CASE u \in ToSet(graph.ops[i].ins)
      <4>1. u \in DOMAIN graph.tensors
        BY <3>3, SoundOperators
      <4>2. u \notin Inner(graph, takers)
        BY <3>3, <1>5, FusionHides
      <4> QED BY <4>1, <4>2, <1>1, <1>3 DEF u
    <3>4. CASE IsConstant(graph.tensors, u)
      <4>1. u \in DOMAIN new.tensors
        BY <3>4 DEF IsConstant
      <4> QED BY <4>1, <3>4, <1>1, <1>4 DEF u
    <3> QED BY <3>2, <3>3, <3>4
  <2> HIDE DEF m, w
  <2>4. \A x \in DOMAIN m.ins : W[m.ins[x]] = V[m.ins[x]]
    BY <2>3
  <2>5. Compute(m, W) = Compute(m, V)
    BY <2>4, SameComputed
  <2> QED BY <2>2, <2>5 DEF m
<1>6. ASSUME NEW k \in DOMAIN new.ops, NEW t \in ToSet(new.ops[k].outs) PROVE V[t] = Compute(new.ops[k], W)
  <2> DEFINE i == h[k]
  <2>1. i \in DOMAIN graph.ops /\ i \notin Mates(graph, takers) /\ new.ops[k] = Merged(graph, takers)[i]
    BY DEF FusedList
  <2> HIDE DEF i
  <2> QED BY <2>1, <1>5, <1>6
<1>7. ASSUME NEW t \in graph.outputs PROVE Written(new, t) \/ Held(new, t) = V[t]
  <2>1. t \in DOMAIN graph.tensors
    BY DEF Sound, NamesKnown
  <2>2. t \notin Inner(graph, takers)
    <3> SUFFICES ASSUME NEW b \in takers PROVE t # graph.ops[b].outs[1]
      BY DEF Inner
    <3> DEFINE j == MateOf(graph, b)
    <3>1. b \in 1 .. Len(graph.ops) /\ j \in DOMAIN graph.ops /\ Fuses(graph, b, j)
      BY DEF FusedTo
    <3>2. graph.ops[b].outs[1] \notin graph.outputs
      BY <3>1 DEF Fuses
    <3> QED BY <3>2
  <2> QED BY <2>1, <2>2, <1>3
<1>8. \A k \in DOMAIN new.ops : \A t \in ToSet(new.ops[k].outs) :
           Values(graph)[t] = Compute(new.ops[k], Carried(new, Values(graph)))
  BY <1>6 DEF V, W
<1>9. \A t \in graph.outputs : Written(new, t) \/ Held(new, t) = Values(graph)[t]
  BY <1>7 DEF V
<1> QED BY <1>8, <1>9, CarriedOver

\* A turn of fusion keeps what the caller sees.
LEMMA FuseKeepsFunction ==
  ASSUME NEW graph, Sound(graph)
  PROVE  Outputs([graph EXCEPT !.ops = FuseSweep(graph).ops]) = Outputs(graph)
<1> DEFINE acc == FuseSweep(graph)
           new == [graph EXCEPT !.ops = acc.ops]
<1>1. PICK takers : FusedTo(graph, acc, Len(graph.ops), takers)
  BY FuseDone
<1> HIDE DEF acc
<1>2. PICK h : FusedList(graph, takers, acc.ops, h)
  BY <1>1, FusedListHolds
<1>3. Sound(new)
  BY <1>1, FusedSound
<1>4. new.ops = acc.ops /\ new.tensors = graph.tensors /\ new.inputs = graph.inputs /\ new.outputs = graph.outputs
  <2>1. graph \in [ops : {graph.ops}, tensors : {graph.tensors}, inputs : {graph.inputs}, outputs : {graph.outputs}]
    BY DEF Sound, IsGraph
  <2> QED BY <2>1
<1> HIDE DEF new
<1>5. Outputs(new) = Outputs(graph)
  BY <1>1, <1>2, <1>3, <1>4, FusedKeepsFunction
<1> QED BY <1>5 DEF new, acc

\* Dropping the tensors that nothing names keeps what the caller sees.
LEMMA PruneKeepsFunction ==
  ASSUME NEW graph, Sound(graph)
  PROVE  LET kept == Kept(graph.tensors, Named(graph.ops, graph.inputs, graph.outputs), <<>>)
         IN  Outputs([graph EXCEPT !.tensors = [t \in kept |-> graph.tensors[t]]]) = Outputs(graph)
<1> DEFINE named == Named(graph.ops, graph.inputs, graph.outputs)
           kept == Kept(graph.tensors, named, <<>>)
           ts == [t \in kept |-> graph.tensors[t]]
           new == [graph EXCEPT !.tensors = ts]
           V == Values(graph)
           W == Carried(new, V)
<1>1. Sound(new)
  BY PrunedGraph
<1>2. new.ops = graph.ops /\ new.tensors = ts /\ new.inputs = graph.inputs /\ new.outputs = graph.outputs
  <2>1. graph \in [ops : {graph.ops}, tensors : {graph.tensors}, inputs : {graph.inputs}, outputs : {graph.outputs}]
    BY DEF Sound, IsGraph
  <2> HIDE DEF ts
  <2> QED BY <2>1
<1>3. kept = (DOMAIN graph.tensors) \cap named
  BY KeptWithoutAliases
<1>4. Means(graph, V)
  BY ValuesMean
<1>5. \A t \in DOMAIN new.tensors : W[t] = IF Written(new, t) THEN V[t] ELSE Held(new, t)
  BY DEF Carried
<1> HIDE DEF new, V, W, kept, named
<1>6. DOMAIN new.tensors = kept /\ kept \subseteq DOMAIN graph.tensors
      /\ \A t \in kept : new.tensors[t] = graph.tensors[t]
  BY <1>2, <1>3
<1> HIDE DEF ts
<1>7. ASSUME NEW t \in kept PROVE W[t] = V[t] /\ (Written(new, t) \/ Held(new, t) = V[t])
  <2>1. Held(new, t) = Held(graph, t)
    BY <1>2, <1>6 DEF Held, IsConstant
  <2>2. Written(new, t) <=> Written(graph, t)
    BY <1>2 DEF Written
  <2>3. ~Written(graph, t) => V[t] = Held(graph, t)
    BY <1>4, <1>6 DEF Means
  <2> QED BY <2>1, <2>2, <2>3, <1>5, <1>6
<1>8. ASSUME NEW k \in DOMAIN new.ops, NEW t \in ToSet(new.ops[k].outs) PROVE V[t] = Compute(new.ops[k], W)
  <2> DEFINE op == new.ops[k]
  <2>1. V[t] = Compute(op, V)
    BY <1>2, <1>4, <1>8 DEF Means
  <2>2. \A x \in DOMAIN op.ins : op.ins[x] \in kept
    <3>1. \A u \in ToSet(op.ins) : u \in kept
      BY <1>1, <1>6, SoundOperators
    <3> HIDE DEF op
    <3> QED BY <3>1 DEF ToSet
  <2>3. \A x \in DOMAIN op.ins : V[op.ins[x]] = W[op.ins[x]]
    BY <2>2, <1>7
  <2> HIDE DEF op
  <2>4. Compute(op, V) = Compute(op, W)
    BY <2>3, SameComputed
  <2> QED BY <2>1, <2>4 DEF op
<1>9. ASSUME NEW t \in graph.outputs PROVE Written(new, t) \/ Held(new, t) = V[t]
  <2>1. t \in kept
    BY <1>1, <1>2, <1>6 DEF Sound, NamesKnown
  <2> QED BY <2>1, <1>7
<1>10. \A k \in DOMAIN new.ops : \A t \in ToSet(new.ops[k].outs) :
           Values(graph)[t] = Compute(new.ops[k], Carried(new, Values(graph)))
  BY <1>8 DEF V, W
<1>11. \A t \in graph.outputs : Written(new, t) \/ Held(new, t) = Values(graph)[t]
  BY <1>9 DEF V
<1>12. Outputs(new) = Outputs(graph)
  BY <1>1, <1>2, <1>10, <1>11, CarriedOver
<1> QED BY <1>12 DEF new, ts, kept, named

-----------------------------------------------------------------------------
(* Every pass keeps the function. *)

\* Where the generator drops nothing, the tables are the graph.
LEMMA EmitKeepsGraph ==
  ASSUME NEW graph, Sound(graph), ~EmitsWrongly(graph)
  PROVE  Emitted(graph) = graph
<1> DEFINE ops == [k \in DOMAIN graph.ops |->
                     IF EpilogueFits(graph, graph.ops[k]) /\ SuccessorsFit(graph, k) THEN Frozen(graph.ops[k])
                     ELSE [graph.ops[k] EXCEPT !.type = "Undefined"]]
<1>1. \A k \in DOMAIN graph.ops :
        Frozen(graph.ops[k]) = graph.ops[k] /\ EpilogueFits(graph, graph.ops[k]) /\ SuccessorsFit(graph, k)
  BY DEF EmitsWrongly
<1>2. ops = [k \in DOMAIN graph.ops |-> graph.ops[k]]
  BY <1>1
<1>3. graph.ops = [k \in DOMAIN graph.ops |-> graph.ops[k]]
  <2>1. graph.ops \in Seq(Operations)
    BY GraphShape DEF Sound
  <2> HIDE DEF Operations
  <2> QED BY <2>1
<1>4. Emitted(graph) = [graph EXCEPT !.ops = ops]
  BY DEF Emitted
<1> HIDE DEF ops
<1>5. ops = graph.ops
  BY <1>2, <1>3
<1>6. graph \in [ops : {graph.ops}, tensors : {graph.tensors}, inputs : {graph.inputs}, outputs : {graph.outputs}]
  BY DEF Sound, IsGraph
<1>7. [graph EXCEPT !.ops = ops] = graph
  BY <1>5, <1>6
<1> QED BY <1>4, <1>7

\* What a step of the pipeline keeps, for the graph it finds and the one it leaves.
KeepsTheFunction ==
  \/ Outputs(g') = Outputs(g)
  \/ Mistyped(g') \/ (stage = "ingested" /\ Miscomputed(g'))
  \/ (stage = "folded" /\ AbsorbsWrongly(g))
  \/ (stage = "valid" /\ EmitsWrongly(g))

\* The function is kept by folding,
LEMMA FoldKeeps ==
  ASSUME PassInv, Fold
  PROVE  KeepsTheFunction
<1> DEFINE r == FoldSweep(g)
           new == [g EXCEPT !.ops = r.ops, !.tensors = r.tensors]
<1>1. Sound(g) /\ stage = "ingested"
  BY DEF PassInv, Fold
<1>2. CASE r.raised
  <2>1. g' = g
    BY <1>2 DEF Fold, Raise
  <2> QED BY <2>1 DEF KeepsTheFunction
<1>3. CASE ~r.raised
  <2>1. g' = new
    BY <1>3 DEF Fold
  <2>2. ~Mistyped(new) /\ ~Miscomputed(new) => Outputs(new) = Outputs(g)
    BY <1>1, <1>3, FoldKeepsFunction
  <2> HIDE DEF new, r
  <2> QED BY <1>1, <2>1, <2>2 DEF KeepsTheFunction
<1> QED BY <1>2, <1>3

\* by absorption,
LEMMA AbsorbKeeps ==
  ASSUME PassInv, AbsorbBatchNorms
  PROVE  KeepsTheFunction
<1> DEFINE r == Absorb(g)
<1>1. IsIngested(source) /\ stage = "folded" /\ Sound(g) /\ FoldPhase(source, g)
  BY SourceAssumption DEF PassInv, AbsorbBatchNorms
<1>2. CASE r.raised
  <2>1. g' = g
    BY <1>2 DEF AbsorbBatchNorms, Raise
  <2> QED BY <2>1 DEF KeepsTheFunction
<1>3. CASE ~r.raised
  <2>1. g' = r.g
    BY <1>3 DEF AbsorbBatchNorms
  <2>2. ~AbsorbsWrongly(g) => Outputs(r.g) = Outputs(g)
    BY <1>1, <1>3, AbsorbKeepsFunction
  <2> HIDE DEF r
  <2> QED BY <2>1, <2>2, <1>1 DEF KeepsTheFunction
<1> QED BY <1>2, <1>3

\* by fusion,
LEMMA FuseKeeps ==
  ASSUME PassInv, Fuse
  PROVE  KeepsTheFunction
<1> DEFINE new == [g EXCEPT !.ops = FuseSweep(g).ops]
<1>1. Sound(g)
  BY DEF PassInv, Fuse
<1>2. g' = new
  BY DEF Fuse
<1>3. Outputs(new) = Outputs(g)
  BY <1>1, FuseKeepsFunction
<1> HIDE DEF new
<1> QED BY <1>2, <1>3 DEF KeepsTheFunction

\* by pruning,
LEMMA PruneKeeps ==
  ASSUME PassInv, PruneTensors
  PROVE  KeepsTheFunction
<1> DEFINE kept == Kept(g.tensors, Named(g.ops, g.inputs, g.outputs), <<>>)
           new == [g EXCEPT !.tensors = [t \in kept |-> g.tensors[t]]]
<1>1. Sound(g)
  BY DEF PassInv, PruneTensors
<1>2. g' = new
  BY DEF PruneTensors
<1>3. Outputs(new) = Outputs(g)
  BY <1>1, PruneKeepsFunction
<1> HIDE DEF new
<1> QED BY <1>2, <1>3 DEF KeepsTheFunction

\* by the second validation,
LEMMA ValidateKeeps ==
  ASSUME Validate
  PROVE  KeepsTheFunction
<1>1. g' = g
  BY DEF Validate
<1> QED BY <1>1 DEF KeepsTheFunction

\* and by emission.
LEMMA EmitKeeps ==
  ASSUME PassInv, Emit
  PROVE  KeepsTheFunction
<1>1. stage = "valid" /\ Sound(g)
  BY DEF PassInv, Emit
<1>2. CASE Refused(g) \/ SlotMissing(g)
  <2>1. g' = g
    BY <1>2 DEF Emit, Raise
  <2> QED BY <2>1 DEF KeepsTheFunction
<1>3. CASE ~(Refused(g) \/ SlotMissing(g))
  <2>1. g' = Emitted(g)
    BY <1>3 DEF Emit
  <2>2. ~EmitsWrongly(g) => Emitted(g) = g
    BY <1>1, EmitKeepsGraph
  <2>3. CASE EmitsWrongly(g)
    BY <2>3, <1>1 DEF KeepsTheFunction
  <2>4. CASE ~EmitsWrongly(g)
    <3>1. g' = g
      BY <2>1, <2>2, <2>4
    <3> QED BY <3>1 DEF KeepsTheFunction
  <2> QED BY <2>3, <2>4
<1> QED BY <1>2, <1>3

\* Every pass keeps what the model computes, outside the named cases, for every
\* graph that ingestion can leave: folding, absorption, fusion and pruning rewrite
\* the graph, and the tables say the same as the graph they are made from
\* (main.py:38-75).
THEOREM FunctionKept == Spec => PassesKeepTheFunction
<1>1. PassInv /\ [Next]_vars =>
        [\/ Outputs(g') = Outputs(g)
         \/ Mistyped(g') \/ (stage = "ingested" /\ Miscomputed(g'))
  \/ (stage = "folded" /\ AbsorbsWrongly(g))
         \/ (stage = "valid" /\ EmitsWrongly(g))]_vars
  <2> SUFFICES ASSUME PassInv, Next PROVE KeepsTheFunction
    BY DEF KeepsTheFunction
  <2>1. CASE Fold
    BY <2>1, FoldKeeps
  <2>2. CASE AbsorbBatchNorms
    BY <2>2, AbsorbKeeps
  <2>3. CASE Fuse
    BY <2>3, FuseKeeps
  <2>4. CASE PruneTensors
    BY <2>4, PruneKeeps
  <2>5. CASE Validate
    BY <2>5, ValidateKeeps
  <2>6. CASE Emit
    BY <2>6, EmitKeeps
  <2> QED BY <2>1, <2>2, <2>3, <2>4, <2>5, <2>6 DEF Next
<1> QED BY <1>1, PassesInvariant, PTL DEF Spec, PassesKeepTheFunction
=============================================================================
