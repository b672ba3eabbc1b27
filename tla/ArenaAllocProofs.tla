-------------------------- MODULE ArenaAllocProofs ---------------------------
(***************************************************************************)
(* The arena planner is memory safe for any number of tensors, any sizes,  *)
(* any live ranges and any alignment: SlotsAreSound holds in every state,  *)
(* so neither layout puts two tensors that are live together on one byte   *)
(* and verify never raises.                                                *)
(*                                                                         *)
(* The argument: while a tensor is fitted, each conflicting block behind   *)
(* the scan ends at or below the candidate offset; blocks are visited by   *)
(* ascending start, so once one leaves room below it all those ahead do    *)
(* too; and because slots begin on aligned addresses, rounding the new     *)
(* slot's end up cannot reach into the block above it.                     *)
(*                                                                         *)
(* It is also first fit (FirstFit): the addresses a pass leaves behind all *)
(* run into the block it passes.  And no arena can be smaller than the     *)
(* peak the compiler reports (PeakIsReached): what is live at one time     *)
(* lies in disjoint blocks, whose sizes add up to no more than their end.  *)
(***************************************************************************)
EXTENDS ArenaAlloc, DataInduction

\* Division with remainder by the alignment.
LEMMA DivMod ==
  \A x \in Nat : /\ x \div Alignment \in Nat
                 /\ x % Alignment \in 0 .. Alignment - 1
                 /\ x = (x \div Alignment) * Alignment + (x % Alignment)
  BY ArenaAssumption

\* A multiple of the alignment is aligned.
LEMMA MultipleIsAligned == \A k \in Nat : (k * Alignment) % Alignment = 0
  BY ArenaAssumption, Z3

\* Multiples of the alignment are ordered as their factors,
LEMMA FewerMultiples ==
  \A q, k \in Nat : q <= k => q * Alignment <= k * Alignment
  BY ArenaAssumption

\* and so are they strictly, a whole alignment apart.
LEMMA MoreMultiples ==
  \A q, k \in Nat : k + 1 <= q => k * Alignment + Alignment <= q * Alignment
  BY ArenaAssumption

\* _align_up returns an aligned address at or above its argument.
LEMMA AlignUpBounds ==
  \A v \in Nat : AlignUp(v) \in Nat /\ v <= AlignUp(v) /\ AlignUp(v) % Alignment = 0
<1> TAKE v \in Nat
<1> DEFINE x == v + Alignment - 1
           q == x \div Alignment
<1>1. x \in Nat
  BY ArenaAssumption
<1>2. q \in Nat /\ x % Alignment \in 0 .. Alignment - 1 /\ x = q * Alignment + (x % Alignment)
  BY <1>1, DivMod
<1>3. q * Alignment \in Nat
  BY <1>2, ArenaAssumption
<1>4. v <= q * Alignment
  BY <1>2, <1>3, ArenaAssumption
<1>5. (q * Alignment) % Alignment = 0
  BY <1>2, MultipleIsAligned
<1> QED
  BY <1>3, <1>4, <1>5 DEF AlignUp

\* Rounding up never crosses an aligned address.
LEMMA AlignUpStaysBelow ==
  \A v, w \in Nat : w % Alignment = 0 /\ v <= w => AlignUp(v) <= w
<1> SUFFICES ASSUME NEW v \in Nat, NEW w \in Nat, w % Alignment = 0, v <= w
             PROVE  AlignUp(v) <= w
  OBVIOUS
<1> DEFINE x == v + Alignment - 1
           q == x \div Alignment
           k == w \div Alignment
<1>1. x \in Nat
  BY ArenaAssumption
<1>2. q \in Nat /\ x % Alignment \in 0 .. Alignment - 1 /\ x = q * Alignment + (x % Alignment)
  BY <1>1, DivMod
<1>3. k \in Nat /\ w = k * Alignment
  BY DivMod, ArenaAssumption
<1>4. q * Alignment \in Nat /\ k * Alignment \in Nat
  BY <1>2, <1>3, ArenaAssumption
<1>5. q * Alignment < k * Alignment + Alignment
  BY <1>2, <1>3, <1>4, ArenaAssumption
<1> HIDE DEF q, k
<1>6. ~(k + 1 <= q)
  BY <1>2, <1>3, <1>4, <1>5, MoreMultiples, ArenaAssumption
<1>7. q * Alignment <= k * Alignment
  BY <1>2, <1>3, <1>6, FewerMultiples
<1> QED
  BY <1>3, <1>7 DEF AlignUp, q

\* The start of the arena is aligned.
LEMMA ZeroIsAligned == 0 % Alignment = 0
  BY ArenaAssumption

-----------------------------------------------------------------------------
\* Types.

\* The types hold before the first tensor is placed.
LEMMA InitTypeOK == Init => TypeOK
<1> SUFFICES ASSUME Init PROVE TypeOK
  OBVIOUS
<1>1. size \in [Tensors -> Nat] /\ live \in [Tensors -> Ranges]
  BY ArenaAssumption DEF Init
<1>2. offset \in [Tensors -> Nat] /\ alignedEnd \in [Tensors -> Nat]
  BY DEF Init
<1>3. /\ strategy = "gffd" /\ pc = "pick" /\ best = -1
      /\ placed = {} /\ arenaSize = 0 /\ pending = {} /\ candidate = 0
  BY DEF Init
<1> QED
  BY <1>1, <1>2, <1>3 DEF TypeOK

\* No step of the allocator takes a variable out of its type.
LEMMA NextTypeOK == TypeOK /\ [Next]_vars => TypeOK'
<1> SUFFICES ASSUME TypeOK, [Next]_vars PROVE TypeOK'
  OBVIOUS
<1> USE DEF TypeOK
<1>1. CASE Pick
  BY <1>1 DEF Pick, inputVars, layoutVars
<1>2. CASE Break
  BY <1>2 DEF Break, inputVars, layoutVars
<1>3. CASE Pass
  BY <1>3, AlignUpBounds DEF Pass, inputVars, layoutVars
<1>4. CASE Place
  <2>1. cur \in Tensors /\ candidate + size[cur] \in Nat
    BY <1>4 DEF Place
  <2>2. AlignUp(candidate + size[cur]) \in Nat
    BY <2>1, AlignUpBounds
  <2> QED
    BY <1>4, <2>1, <2>2 DEF Place, inputVars, scanVars
<1>5. CASE FinishLayout
  <2>1. best' \in Nat \cup {-1}
    BY <1>5 DEF FinishLayout, Smaller
  <2>2. pc' # "fit" /\ pending = {} /\ UNCHANGED <<inputVars, scanVars>>
    BY <1>5 DEF FinishLayout
  <2>3. /\ strategy' \in {"gffd", "linear"} /\ pc' \in {"pick", "done", "raised"}
        /\ offset' \in [Tensors -> Nat] /\ alignedEnd' \in [Tensors -> Nat]
        /\ arenaSize' \in Nat /\ placed' \subseteq Tensors
    BY <1>5 DEF FinishLayout, layoutVars
  <2> QED
    BY <2>1, <2>2, <2>3 DEF inputVars, scanVars
<1>6. CASE UNCHANGED vars
  BY <1>6 DEF vars, inputVars, layoutVars, scanVars
<1> QED
  BY <1>1, <1>2, <1>3, <1>4, <1>5, <1>6 DEF Next

\* TypeOK is an invariant for every instance of the constants.
THEOREM TypeCorrect == Spec => []TypeOK
  BY InitTypeOK, NextTypeOK, PTL DEF Spec

-----------------------------------------------------------------------------
\* Placement.

\* Nothing is placed at first, so nothing overlaps.
LEMMA InitIInv == Init => IInv
  BY InitTypeOK DEF Init, IInv, SlotsAreSound, ScanInv

\* A complete and sound layout passes verify.
LEMMA SoundIsVerified == IInv /\ placed = Tensors => Verified
  BY DEF IInv, SlotsAreSound, Verified

\* A tensor just picked has the candidate 0 and every conflicting block ahead.
LEMMA PickIInv == IInv /\ Pick => IInv'
<1> SUFFICES ASSUME IInv, Pick PROVE IInv'
  OBVIOUS
<1>1. TypeOK'
  BY NextTypeOK DEF IInv, Next
<1>2. UNCHANGED <<size, live, offset, alignedEnd, placed, arenaSize>> /\ pc' = "fit"
  BY DEF Pick, inputVars, layoutVars
<1>3. SlotsAreSound' /\ (\A t \in placed : alignedEnd[t] % Alignment = 0)'
  BY <1>2 DEF IInv, SlotsAreSound, Overlaps, OverlapsAddress
<1>4. candidate' = 0 /\ pending' = {u \in placed : Overlaps(u, cur')}
  BY DEF Pick
<1>5. ScanInv'
  BY <1>2, <1>4, ZeroIsAligned DEF ScanInv, Overlaps
<1> QED
  BY <1>1, <1>3, <1>5 DEF IInv

\* The scan stops where there is room: every block still ahead lies above.
LEMMA BreakIInv == IInv /\ Break => IInv'
<1> SUFFICES ASSUME IInv, Break PROVE IInv'
  OBVIOUS
<1>1. TypeOK'
  BY NextTypeOK DEF IInv, Next
<1>2. UNCHANGED <<size, live, pc, offset, alignedEnd, placed, arenaSize, cur, candidate>>
      /\ pending' = {} /\ pc = "fit"
  BY DEF Break, inputVars, layoutVars
<1>3. SlotsAreSound' /\ (\A t \in placed : alignedEnd[t] % Alignment = 0)'
  BY <1>2 DEF IInv, SlotsAreSound, Overlaps, OverlapsAddress
<1>4. PICK b \in pending : IsLowest(b) /\ FitsBelow(b)
  BY DEF Break
<1>5. ASSUME NEW u \in placed, Overlaps(u, cur)
      PROVE  alignedEnd[u] <= candidate \/ candidate + size[cur] <= offset[u]
  <2>1. CASE u \in pending
    <3>1. offset[b] <= offset[u]
      BY <1>4, <2>1 DEF IsLowest, IInv, TypeOK
    <3> QED
      BY <3>1, <1>2, <1>4 DEF FitsBelow, IInv, TypeOK
  <2>2. CASE u \notin pending
    BY <2>2, <1>2, <1>4, <1>5 DEF IInv, ScanInv
  <2> QED
    BY <2>1, <2>2
<1>6. ScanInv'
  BY <1>2, <1>5 DEF IInv, ScanInv, Overlaps
<1> QED
  BY <1>1, <1>3, <1>6 DEF IInv

\* Passing a block moves the candidate to its end or leaves it where it is.
LEMMA PassIInv == IInv /\ Pass => IInv'
<1> SUFFICES ASSUME IInv, Pass PROVE IInv'
  OBVIOUS
<1>1. TypeOK'
  BY NextTypeOK DEF IInv, Next
<1>2. UNCHANGED <<size, live, pc, offset, alignedEnd, placed, arenaSize, cur>> /\ pc = "fit"
  BY DEF Pass, inputVars, layoutVars
<1>3. SlotsAreSound' /\ (\A t \in placed : alignedEnd[t] % Alignment = 0)'
  BY <1>2 DEF IInv, SlotsAreSound, Overlaps, OverlapsAddress
<1>4. PICK b \in pending :
        /\ candidate' = IF candidate < alignedEnd[b]
                        THEN AlignUp(alignedEnd[b]) ELSE candidate
        /\ pending' = pending \ {b}
  BY DEF Pass
<1>5. b \in Tensors /\ alignedEnd[b] \in Nat /\ candidate \in Nat
  BY <1>4 DEF IInv, TypeOK
<1>6. /\ candidate' \in Nat /\ candidate <= candidate' /\ alignedEnd[b] <= candidate'
      /\ candidate' % Alignment = 0
  BY <1>2, <1>4, <1>5, AlignUpBounds DEF IInv, ScanInv
<1>7. ASSUME NEW u \in placed \ pending', Overlaps(u, cur)
      PROVE  alignedEnd[u] <= candidate'
  <2>1. CASE u = b
    BY <2>1, <1>6
  <2>2. CASE u # b
    <3>1. u \in placed \ pending
      BY <2>2, <1>4, <1>7
    <3>2. alignedEnd[u] <= candidate
      BY <3>1, <1>2, <1>4, <1>7 DEF IInv, ScanInv
    <3>3. alignedEnd[u] \in Nat
      BY <3>1 DEF IInv, TypeOK
    <3> QED
      BY <3>2, <3>3, <1>5, <1>6
  <2> QED
    BY <2>1, <2>2
<1>8. ScanInv'
  BY <1>2, <1>6, <1>7 DEF ScanInv, Overlaps
<1> QED
  BY <1>1, <1>3, <1>8 DEF IInv

\* A tensor placed at the final candidate shares no byte with any it is live with.
LEMMA PlaceIInv == IInv /\ Place => IInv'
<1> SUFFICES ASSUME IInv, Place PROVE IInv'
  OBVIOUS
<1> DEFINE end == AlignUp(candidate + size[cur])
<1>1. TypeOK'
  BY NextTypeOK DEF IInv, Next
<1>2. /\ pc = "fit" /\ pc' = "pick" /\ pending = {}
      /\ cur \in Tensors \ placed /\ placed' = placed \cup {cur} /\ placed \subseteq Tensors
      /\ offset' = [offset EXCEPT ![cur] = candidate]
      /\ alignedEnd' = [alignedEnd EXCEPT ![cur] = end]
      /\ arenaSize' = IF end > arenaSize THEN end ELSE arenaSize
      /\ UNCHANGED <<size, live>>
  BY DEF Place, inputVars, IInv, TypeOK
<1>3. /\ candidate \in Nat /\ size[cur] \in Nat /\ candidate + size[cur] \in Nat
      /\ arenaSize \in Nat
      /\ \A t \in placed : offset[t] \in Nat /\ alignedEnd[t] \in Nat /\ size[t] \in Nat
  BY <1>2 DEF IInv, TypeOK
<1>4. end \in Nat /\ candidate + size[cur] <= end /\ end % Alignment = 0
  BY <1>3, AlignUpBounds
<1> HIDE DEF end
<1>5. /\ offset'[cur] = candidate /\ alignedEnd'[cur] = end
      /\ \A t \in placed : offset'[t] = offset[t] /\ alignedEnd'[t] = alignedEnd[t]
  BY <1>2 DEF IInv, TypeOK
<1>6. \A t \in placed' :
        /\ offset'[t] % Alignment = 0 /\ alignedEnd'[t] % Alignment = 0
        /\ offset'[t] + size'[t] <= alignedEnd'[t]
        /\ alignedEnd'[t] <= arenaSize'
  <2> SUFFICES ASSUME NEW t \in placed'
               PROVE  /\ offset'[t] % Alignment = 0 /\ alignedEnd'[t] % Alignment = 0
                      /\ offset'[t] + size'[t] <= alignedEnd'[t]
                      /\ alignedEnd'[t] <= arenaSize'
    OBVIOUS
  <2>1. CASE t = cur
    BY <2>1, <1>2, <1>3, <1>4, <1>5 DEF IInv, ScanInv
  <2>2. CASE t \in placed
    <3>1. alignedEnd[t] <= arenaSize /\ arenaSize <= arenaSize'
      BY <2>2, <1>2, <1>3, <1>4 DEF IInv, SlotsAreSound
    <3>2. arenaSize' \in Nat
      BY <1>2, <1>3, <1>4
    <3> QED
      BY <2>2, <3>1, <3>2, <1>2, <1>3, <1>5 DEF IInv, SlotsAreSound
  <2> QED
    BY <2>1, <2>2, <1>2
\* The new slot touches no block it must avoid.
<1>7. ASSUME NEW u \in placed, Overlaps(u, cur)
      PROVE  alignedEnd[u] <= candidate \/ end <= offset[u]
  <2>1. CASE candidate + size[cur] <= offset[u]
    <3>1. offset[u] % Alignment = 0
      BY DEF IInv, SlotsAreSound
    <3> QED
      BY <2>1, <3>1, <1>3, AlignUpStaysBelow DEF end
  <2>2. CASE alignedEnd[u] <= candidate
    BY <2>2
  <2> QED
    BY <2>1, <2>2, <1>2, <1>7 DEF IInv, ScanInv
<1>8. \A t, u \in placed' : t # u /\ Overlaps(t, u)' => ~OverlapsAddress(t, u)'
  <2> SUFFICES ASSUME NEW t \in placed', NEW u \in placed', t # u, Overlaps(t, u)'
               PROVE  ~OverlapsAddress(t, u)'
    OBVIOUS
  <2>1. Overlaps(t, u) /\ Overlaps(u, t)
    BY <1>2 DEF Overlaps
  <2>2. CASE t \in placed /\ u \in placed
    <3>1. ~OverlapsAddress(t, u)
      BY <2>1, <2>2 DEF IInv, SlotsAreSound
    <3> QED
      BY <3>1, <2>2, <1>5 DEF OverlapsAddress
  <2>3. CASE t = cur /\ u \in placed
    BY <2>1, <2>3, <1>3, <1>4, <1>5, <1>7 DEF OverlapsAddress
  <2>4. CASE t \in placed /\ u = cur
    BY <2>1, <2>4, <1>3, <1>4, <1>5, <1>7 DEF OverlapsAddress
  <2> QED
    BY <2>2, <2>3, <2>4, <1>2
<1> QED
  BY <1>1, <1>2, <1>6, <1>8 DEF IInv, SlotsAreSound, ScanInv

\* verify finds no overlap in a finished layout.
LEMMA FinishLayoutIInv == IInv /\ FinishLayout => IInv'
<1> SUFFICES ASSUME IInv, FinishLayout PROVE IInv'
  OBVIOUS
<1>1. TypeOK'
  BY NextTypeOK DEF IInv, Next
<1>2. Verified /\ pc = "pick" /\ UNCHANGED <<size, live>>
  BY SoundIsVerified DEF FinishLayout, inputVars
<1>3. CASE strategy = "gffd"
  BY <1>1, <1>2, <1>3 DEF FinishLayout, IInv, SlotsAreSound, ScanInv
<1>4. CASE strategy # "gffd"
  <2>1. pc' = "done" /\ UNCHANGED layoutVars
    BY <1>2, <1>4 DEF FinishLayout
  <2> QED
    BY <1>1, <1>2, <2>1
    DEF layoutVars, IInv, SlotsAreSound, ScanInv, Overlaps, OverlapsAddress
<1> QED
  BY <1>3, <1>4

\* Every step of the allocator preserves the invariant.
LEMMA NextIInv == IInv /\ [Next]_vars => IInv'
<1> SUFFICES ASSUME IInv, [Next]_vars PROVE IInv'
  OBVIOUS
<1>1. CASE UNCHANGED vars
  BY <1>1
  DEF vars, inputVars, layoutVars, scanVars, IInv, TypeOK, SlotsAreSound, ScanInv,
      Overlaps, OverlapsAddress
<1> QED
  BY <1>1, PickIInv, BreakIInv, PassIInv, PlaceIInv, FinishLayoutIInv DEF Next

\* No two tensors that are live together ever share a byte, every slot lies in
\* the arena on an aligned address, and verify never raises.
THEOREM ArenaIsSafe == Spec => []SlotsAreSound
<1>1. IInv => SlotsAreSound
  BY DEF IInv
<1> QED
  BY <1>1, InitIInv, NextIInv, PTL DEF Spec

-----------------------------------------------------------------------------
\* First fit.

\* While a tensor is fitted, every block still ahead is one it must avoid, and
\* every aligned address below the candidate is taken.
LowestInv ==
  pc = "fit" =>
    /\ \A u \in pending : Overlaps(u, cur)
    /\ \A k \in Nat : k * Alignment < candidate =>
         \E u \in placed : Overlaps(u, cur) /\ Touches(k * Alignment, u)

\* The scan starts at address 0.
LEMMA PickLowest == IInv /\ Pick => LowestInv'
<1> SUFFICES ASSUME IInv, Pick PROVE LowestInv'
  OBVIOUS
<1>1. candidate' = 0 /\ pending' = {u \in placed : Overlaps(u, cur')} /\ UNCHANGED live
  BY DEF Pick, inputVars
<1>2. \A k \in Nat : ~(k * Alignment < 0)
  BY ArenaAssumption
<1> QED
  BY <1>1, <1>2 DEF LowestInv, Overlaps

\* The addresses that a pass leaves behind run into the block it passes: there
\* was no room below the block, and they lie below its end.
LEMMA PassLowest == IInv /\ LowestInv /\ Pass => LowestInv'
<1> SUFFICES ASSUME IInv, LowestInv, Pass PROVE LowestInv'
  OBVIOUS
<1>1. UNCHANGED <<size, live, pc, offset, alignedEnd, placed, cur>> /\ pc = "fit"
  BY DEF Pass, inputVars, layoutVars
<1>2. PICK b \in pending :
        /\ ~FitsBelow(b)
        /\ candidate' = IF candidate < alignedEnd[b]
                        THEN AlignUp(alignedEnd[b]) ELSE candidate
        /\ pending' = pending \ {b}
  BY DEF Pass
<1>3. /\ b \in placed /\ Overlaps(b, cur) /\ alignedEnd[b] % Alignment = 0
      /\ alignedEnd[b] \in Nat /\ offset[b] \in Nat /\ candidate \in Nat /\ size[cur] \in Nat
  BY <1>1 DEF IInv, TypeOK, LowestInv
<1>4. offset[b] < candidate + size[cur]
  BY <1>2, <1>3 DEF FitsBelow
<1>5. candidate' = candidate \/ candidate' <= alignedEnd[b]
  BY <1>2, <1>3, AlignUpStaysBelow
<1>6. candidate' \in Nat
  BY <1>2, <1>3, AlignUpBounds
<1>7. ASSUME NEW k \in Nat, k * Alignment < candidate'
      PROVE  \E u \in placed : Overlaps(u, cur) /\ Touches(k * Alignment, u)
  <2> DEFINE o == k * Alignment
  <2>1. o \in Nat
    BY ArenaAssumption
  <2> HIDE DEF o
  <2>2. CASE o < candidate
    BY <2>2, <1>1 DEF LowestInv, o
  <2>3. CASE ~(o < candidate)
    <3>1. o < alignedEnd[b]
      BY <2>1, <2>3, <1>3, <1>5, <1>6, <1>7 DEF o
    <3>2. o + size[cur] \in Nat /\ offset[b] < o + size[cur]
      BY <2>1, <2>3, <1>3, <1>4
    <3>3. offset[b] < AlignUp(o + size[cur])
      BY <3>2, <1>3, AlignUpBounds
    <3> QED
      BY <3>1, <3>3, <1>3 DEF Touches, o
  <2> QED
    BY <2>2, <2>3
<1> QED
  BY <1>1, <1>2, <1>7 DEF LowestInv, Overlaps, Touches, AlignUp

\* Every step keeps the addresses below the candidate taken.
LEMMA NextLowest == IInv /\ LowestInv /\ [Next]_vars => LowestInv'
<1> SUFFICES ASSUME IInv, LowestInv, [Next]_vars PROVE LowestInv'
  OBVIOUS
<1>1. CASE Break
  BY <1>1 DEF Break, inputVars, layoutVars, LowestInv, Overlaps, Touches, AlignUp
<1>2. CASE Place \/ FinishLayout
  BY <1>2 DEF Place, FinishLayout, LowestInv
<1>3. CASE UNCHANGED vars
  BY <1>3 DEF vars, inputVars, layoutVars, scanVars, LowestInv, Overlaps, Touches, AlignUp
<1> QED
  BY <1>1, <1>2, <1>3, PickLowest, PassLowest DEF Next

\* A tensor is placed at the lowest aligned address at which it avoids every
\* block it must.
THEOREM FirstFit == Spec => LowestOffset
<1>1. Init => LowestInv
  BY DEF Init, LowestInv
<1>2. IInv /\ LowestInv /\ Place =>
        \A k \in 0 .. candidate \div Alignment :
          k * Alignment < candidate =>
            \E u \in placed : Overlaps(u, cur) /\ Touches(k * Alignment, u)
  <2> SUFFICES ASSUME IInv, LowestInv, Place,
                      NEW k \in 0 .. candidate \div Alignment, k * Alignment < candidate
               PROVE  \E u \in placed : Overlaps(u, cur) /\ Touches(k * Alignment, u)
    OBVIOUS
  <2>1. k \in Nat /\ pc = "fit"
    BY DEF Place
  <2> QED
    BY <2>1 DEF LowestInv
<1>3. IInv /\ LowestInv /\ [Next]_vars
        => [Place => \A k \in 0 .. candidate \div Alignment :
              k * Alignment < candidate =>
                \E u \in placed : Overlaps(u, cur) /\ Touches(k * Alignment, u)]_vars
  BY <1>2
<1>4. Spec => [](IInv /\ LowestInv)
  BY <1>1, InitIInv, NextIInv, NextLowest, PTL DEF Spec
<1> QED
  BY <1>3, <1>4, PTL DEF Spec, LowestOffset

-----------------------------------------------------------------------------
\* The lower bound.

\* What is live at one time.
LiveAt(time) == {t \in Tensors : live[t].first <= time /\ time <= live[t].last}

\* Disjoint blocks that end at or below an address hold at most that many bytes:
\* take away the one that starts highest, and the others end where it starts.
LEMMA DisjointBlocksAddUp ==
  ASSUME TypeOK, NEW S \in SUBSET Tensors,
         \A t \in S : offset[t] + size[t] <= alignedEnd[t],
         \A t, u \in S : t # u => ~OverlapsAddress(t, u),
         NEW B \in Nat, \A t \in S : alignedEnd[t] <= B
  PROVE  SumFunctionOnSet(size, S) <= B
<1> DEFINE G == {T \in SUBSET S : \A A \in Nat :
                   (\A t \in T : alignedEnd[t] <= A) => SumFunctionOnSet(size, T) <= A}
<1>1. IsFiniteSet(S) /\ \A T \in SUBSET S : IsFiniteSet(T)
  BY ArenaAssumption, FS_Subset
<1>2. \A t \in S : size[t] \in Nat /\ offset[t] \in Nat /\ alignedEnd[t] \in Nat
  BY DEF TypeOK
<1>3. ASSUME NEW T \in SUBSET S, \A x \in T : T \ {x} \in G PROVE T \in G
  <2> SUFFICES ASSUME NEW A \in Nat, \A t \in T : alignedEnd[t] <= A
               PROVE  SumFunctionOnSet(size, T) <= A
    OBVIOUS
  <2>1. CASE T = {}
    <3>1. SumFunctionOnSet(size, {}) = 0
      BY <1>1, <1>2, SumFacts
    <3> QED
      BY <2>1, <3>1
  <2>2. CASE T # {}
    <3>1. PICK x \in T : \A y \in T : offset[y] <= offset[x]
      <4>1. IsFiniteSet(T) /\ \A y \in T : offset[y] \in Int
        BY <1>1, <1>2
      <4> QED
        BY <2>2, <4>1, GreatestElement
    <3>2. /\ SumFunctionOnSet(size, T) = size[x] + SumFunctionOnSet(size, T \ {x})
          /\ SumFunctionOnSet(size, T \ {x}) \in Nat
      <4>1. IsFiniteSet(T) /\ \A y \in T : size[y] \in Nat /\ size[y] \in Int
        BY <1>1, <1>2
      <4> QED
        BY <4>1, SumFacts, SumNatural
    <3>3. /\ size[x] \in Nat /\ offset[x] \in Nat /\ alignedEnd[x] \in Nat
          /\ offset[x] + size[x] <= alignedEnd[x] /\ alignedEnd[x] <= A
      BY <1>2
    <3>4. CASE offset[x] < alignedEnd[x]
      <4>1. \A u \in T \ {x} : alignedEnd[u] <= offset[x]
        <5> SUFFICES ASSUME NEW u \in T \ {x} PROVE alignedEnd[u] <= offset[x]
          OBVIOUS
        <5>1. ~OverlapsAddress(x, u) /\ offset[u] <= offset[x]
              /\ alignedEnd[u] \in Nat /\ offset[u] \in Nat
          BY <1>2, <3>1
        <5> QED
          BY <3>3, <3>4, <5>1 DEF OverlapsAddress
      <4>2. SumFunctionOnSet(size, T \ {x}) <= offset[x]
        BY <1>3, <3>3, <4>1
      <4> QED
        BY <3>2, <3>3, <4>2
    <3>5. CASE ~(offset[x] < alignedEnd[x])
      <4>1. size[x] = 0
        BY <3>3, <3>5
      <4>2. SumFunctionOnSet(size, T \ {x}) <= A
        BY <1>3
      <4> QED
        BY <3>2, <4>1, <4>2
    <3> QED
      BY <3>4, <3>5
  <2> QED
    BY <2>1, <2>2
<1> HIDE DEF G
<1>4. \A T \in SUBSET S : T \in G
  BY <1>1, <1>3, FiniteInductive
<1>5. S \in G
  BY <1>4
<1> QED
  BY <1>5 DEF G

\* The peak is a natural, the bytes live at some time rounded up.
LEMMA PeakIsAttained ==
  ASSUME TypeOK
  PROVE  \/ PeakLiveBytes = AlignUp(0)
         \/ \E t \in Tensors : /\ PeakLiveBytes = AlignUp(LiveBytes(live[t].first))
                              /\ LiveBytes(live[t].first) \in Nat
<1> DEFINE Bytes(t) == LiveBytes(live[t].first)
           All == {0} \cup {Bytes(t) : t \in Tensors}
           id == [x \in All |-> x]
<1>1. \A t \in Tensors : Bytes(t) \in Nat
  <2>1. \A t \in Tensors : size[t] \in Nat
    BY DEF TypeOK
  <2> QED
    BY <2>1, ArenaAssumption, SumNatural DEF LiveBytes
<1> HIDE DEF Bytes
<1>2. IsFiniteSet(All)
  <2>1. IsFiniteSet({Bytes(t) : t \in Tensors})
    <3> DEFINE f == [t \in Tensors |-> Bytes(t)]
    <3>1. f \in Surjection(Tensors, {Bytes(t) : t \in Tensors})
      BY DEF Surjection
    <3> QED
      BY <3>1, ArenaAssumption, FS_Surjection
  <2> QED
    BY <2>1, FS_Singleton, FS_Union
<1>3. \A x \in All : id[x] = x /\ id[x] \in Int
  BY <1>1
<1> HIDE DEF id
<1>4. \E x \in All : \A y \in All : y <= x
  <2>1. All # {}
    OBVIOUS
  <2> HIDE DEF All
  <2>2. PICK x \in All : \A y \in All : id[y] <= id[x]
    BY <1>2, <1>3, <2>1, GreatestElement
  <2>3. \A y \in All : y <= x
    BY <1>3, <2>2
  <2> QED
    BY <2>3
<1>5. Max(All) \in All
  BY <1>1, <1>4 DEF Max
<1>6. PeakLiveBytes = AlignUp(Max(All))
  BY DEF PeakLiveBytes, Bytes
<1> QED
  BY <1>1, <1>5, <1>6 DEF Bytes

\* A complete sound layout holds the peak.
LEMMA LayoutHoldsPeak ==
  ASSUME IInv, placed = Tensors, arenaSize % Alignment = 0
  PROVE  PeakLiveBytes <= arenaSize
<1>1. TypeOK /\ arenaSize \in Nat
  BY DEF IInv, TypeOK
<1>2. ASSUME NEW t \in Tensors PROVE LiveBytes(live[t].first) <= arenaSize
  <2> DEFINE S == LiveAt(live[t].first)
  <2>1. S \in SUBSET Tensors
    BY DEF LiveAt
  <2>2. \A u, v \in S : Overlaps(u, v)
    <3> SUFFICES ASSUME NEW u \in S, NEW v \in S PROVE Overlaps(u, v)
      OBVIOUS
    <3>1. live[t] \in Ranges /\ live[u] \in Ranges /\ live[v] \in Ranges
      BY <1>1, <2>1 DEF TypeOK
    <3>2. /\ live[t].first \in Int /\ live[u].first \in Int /\ live[u].last \in Int
          /\ live[v].first \in Int /\ live[v].last \in Int
      BY <3>1, ArenaAssumption
    <3> QED
      BY <3>2 DEF LiveAt, Overlaps
  <2> HIDE DEF S
  <2>3. /\ \A u \in S : offset[u] + size[u] <= alignedEnd[u] /\ alignedEnd[u] <= arenaSize
        /\ \A u, v \in S : u # v => ~OverlapsAddress(u, v)
    BY <2>1, <2>2 DEF IInv, SlotsAreSound
  <2>4. SumFunctionOnSet(size, S) <= arenaSize
    BY <1>1, <2>1, <2>3, DisjointBlocksAddUp
  <2> QED
    BY <2>4 DEF S, LiveAt, LiveBytes
<1> QED
  BY <1>1, <1>2, PeakIsAttained, AlignUpStaysBelow

\* Each verified layout holds the peak, and so does the smaller one.
PeakInv ==
  /\ arenaSize % Alignment = 0
  /\ best # -1 => PeakLiveBytes <= best
  /\ pc = "done" => best # -1

\* Only tensors placed and layouts finished matter to it.
LEMMA NextPeak == IInv /\ PeakInv /\ [Next]_vars => PeakInv'
<1> SUFFICES ASSUME IInv, PeakInv, [Next]_vars PROVE PeakInv'
  OBVIOUS
<1>1. PeakLiveBytes' = PeakLiveBytes
  <2>1. UNCHANGED <<size, live>>
    BY DEF Next, Pick, Break, Pass, Place, FinishLayout, vars, inputVars
  <2> QED
    BY <2>1 DEF PeakLiveBytes, LiveBytes
<1>2. CASE Pick \/ Break \/ Pass \/ UNCHANGED vars
  <2>1. UNCHANGED <<arenaSize, best>> /\ (pc' = "done" => pc = "done")
    BY <1>2 DEF Pick, Break, Pass, vars, layoutVars
  <2> QED
    BY <1>1, <2>1 DEF PeakInv
<1>3. CASE Place
  <2>1. cur \in Tensors /\ candidate + size[cur] \in Nat
    BY <1>3 DEF Place, IInv, TypeOK
  <2>2. AlignUp(candidate + size[cur]) % Alignment = 0
    BY <2>1, AlignUpBounds
  <2>3. arenaSize' \in {arenaSize, AlignUp(candidate + size[cur])}
    BY <1>3 DEF Place
  <2>4. best' = best /\ pc' = "pick"
    BY <1>3 DEF Place
  <2> QED
    BY <1>1, <2>2, <2>3, <2>4 DEF PeakInv
<1>4. CASE FinishLayout
  <2>1. Verified /\ placed = Tensors
    BY <1>4, SoundIsVerified DEF FinishLayout
  <2>2. PeakLiveBytes <= arenaSize
    BY <2>1, LayoutHoldsPeak DEF PeakInv, FinishLayout
  <2>3. best' \in {arenaSize, best} /\ (best = -1 => best' = arenaSize) /\ arenaSize \in Nat
    BY <1>4, <2>1 DEF FinishLayout, Smaller, IInv, TypeOK
  <2>4. arenaSize' \in {0, arenaSize}
    BY <1>4, <2>1 DEF FinishLayout, layoutVars
  <2> QED
    BY <1>1, <2>2, <2>3, <2>4, ZeroIsAligned DEF PeakInv
<1> QED
  BY <1>2, <1>3, <1>4 DEF Next

\* "Any correct allocator must use at least this many bytes" (arena.py:169-170):
\* the peak the compiler reports is never more than the arena it chooses.
THEOREM PeakIsReached == Spec => []PeakIsLowerBound
<1>1. Init => PeakInv
  BY ZeroIsAligned DEF Init, PeakInv
<1>2. PeakInv => PeakIsLowerBound
  BY DEF PeakInv, PeakIsLowerBound
<1> QED
  BY <1>1, <1>2, InitIInv, NextIInv, NextPeak, PTL DEF Spec
=============================================================================
