----------------------------- MODULE ArenaAlloc ------------------------------
(***************************************************************************)
(* compiler/memory/arena.py: placing every activation tensor in the one    *)
(* arena, so that tensors that are live at the same time share no byte.    *)
(*                                                                         *)
(* allocate() runs the same first-fit placement twice, with the tensors    *)
(* ordered by size and then by start of life, verifies each layout and     *)
(* keeps the smaller.  Here a placement is a loop of Pick (the next tensor *)
(* of the order), Pass and Break (one turn of _find_free_offset's scan of  *)
(* the conflicting blocks) and Place.  Sorting is modelled by what it is   *)
(* for: the next element is the least of those left.                       *)
(*                                                                         *)
(* A tensor is a number: its rank among the names.  _align_up's bit mask   *)
(* equals the division below for the powers of two the code uses.  The     *)
(* last of verify's checks, about aliased tensors, belongs to a module     *)
(* that models aliasing.                                                   *)
(***************************************************************************)
EXTENDS Integers, FiniteSetsExt, Functions

CONSTANTS
  Tensors,    \* activation tensors that own storage
  Sizes,      \* byte sizes they may have
  Ranges,     \* live ranges [first, last] they may have
  Alignment   \* ARENA_ALIGNMENT

ASSUME ArenaAssumption ==
  /\ Tensors \subseteq Nat /\ IsFiniteSet(Tensors)
  /\ Sizes \subseteq Nat
  /\ \A r \in Ranges : r.first \in Int /\ r.last \in Int /\ r.first <= r.last
  /\ Alignment \in Nat \ {0}

VARIABLES
  size, live,          \* byte_size and live range of each tensor
  strategy,            \* "gffd" or "linear"
  pc,                  \* "pick", "fit", "done" or "raised"
  offset, alignedEnd,  \* the allocations of the layout in the making
  placed,              \* the tensors that have one
  arenaSize,           \* arena_size of that layout
  cur,                 \* the tensor being placed
  pending,             \* conflicting tensors whose blocks are still ahead
  candidate,           \* offset that suits all blocks behind
  best                 \* least arena_size of the verified layouts, or -1

inputVars  == <<size, live>>
layoutVars == <<offset, alignedEnd, placed, arenaSize>>
scanVars   == <<cur, pending, candidate>>
vars == <<inputVars, strategy, pc, layoutVars, scanVars, best>>

\* Mutant: rounds down.
MutantAlignUp(v) == ((v - 1) \div Alignment) * Alignment

AlignUp(v) == ((v + Alignment - 1) \div Alignment) * Alignment

\* LiveRange.overlaps
Overlaps(t, u) ==
  live[t].first <= live[u].last /\ live[u].first <= live[t].last

\* Allocation.overlaps_address
OverlapsAddress(t, u) ==
  offset[t] < alignedEnd[u] /\ offset[u] < alignedEnd[t]

\* Larger first, then by name.
BeforeBySize(t, u) == size[t] > size[u] \/ (size[t] = size[u] /\ t < u)

\* Earlier start first, then later end, then larger, then by name.
BeforeByStart(t, u) ==
  \/ live[t].first < live[u].first
  \/ live[t].first = live[u].first /\ live[t].last > live[u].last
  \/ live[t] = live[u] /\ BeforeBySize(t, u)

Before(t, u) ==
  IF strategy = "gffd" THEN BeforeBySize(t, u) ELSE BeforeByStart(t, u)

Init ==
  /\ size \in [Tensors -> Sizes]
  /\ live \in [Tensors -> Ranges]
  /\ strategy = "gffd" /\ pc = "pick" /\ best = -1
  /\ offset = [t \in Tensors |-> 0] /\ alignedEnd = [t \in Tensors |-> 0]
  /\ placed = {} /\ arenaSize = 0
  /\ cur = 0 /\ pending = {} /\ candidate = 0

\* The next tensor in order, and the placed tensors it must avoid.
Pick ==
  /\ pc = "pick"
  /\ \E t \in Tensors \ placed :
       /\ \A u \in Tensors \ placed : u # t => Before(t, u)
       /\ cur' = t
       /\ pending' = {u \in placed : Overlaps(u, t)}
  /\ candidate' = 0
  /\ pc' = "fit"
  /\ UNCHANGED <<inputVars, strategy, layoutVars, best>>

-----------------------------------------------------------------------------
(* _find_free_offset *)

\* Mutant: the occupied blocks are scanned in the order they were placed.
MutantIsLowest(b) == \A u \in pending : u >= b

\* The block of b comes first among those still ahead, by (start, end).
IsLowest(b) ==
  \A u \in pending :
    \/ offset[b] < offset[u]
    \/ offset[b] = offset[u] /\ alignedEnd[b] <= alignedEnd[u]

\* Mutant: a gap of exactly the right size is not used.
MutantFitsBelow(b) == candidate + size[cur] < offset[b]

FitsBelow(b) == candidate + size[cur] <= offset[b]

Break ==
  /\ pc = "fit"
  /\ \E b \in pending : IsLowest(b) /\ FitsBelow(b)
  /\ pending' = {}
  /\ UNCHANGED <<inputVars, strategy, pc, layoutVars, cur, candidate, best>>

Pass ==
  /\ pc = "fit"
  /\ \E b \in pending :
       /\ IsLowest(b) /\ ~FitsBelow(b)
       /\ candidate' = IF candidate < alignedEnd[b]
                       THEN AlignUp(alignedEnd[b]) ELSE candidate
       /\ pending' = pending \ {b}
  /\ UNCHANGED <<inputVars, strategy, pc, layoutVars, cur, best>>

\* The scan is over: record the allocation.
Place ==
  /\ pc = "fit" /\ pending = {}
  /\ LET end == AlignUp(candidate + size[cur])
     IN  /\ offset' = [offset EXCEPT ![cur] = candidate]
         /\ alignedEnd' = [alignedEnd EXCEPT ![cur] = end]
         /\ arenaSize' = IF end > arenaSize THEN end ELSE arenaSize
  /\ placed' = placed \cup {cur}
  /\ pc' = "pick"
  /\ UNCHANGED <<inputVars, strategy, scanVars, best>>

-----------------------------------------------------------------------------
\* verify: bounds, and disjointness of what is live together.
Verified ==
  /\ \A t \in Tensors : alignedEnd[t] <= arenaSize
  /\ \A t, u \in Tensors : t # u /\ Overlaps(t, u) => ~OverlapsAddress(t, u)

Smaller(a, b) == IF b = -1 \/ a < b THEN a ELSE b

\* A layout is complete: verify it, then try the other order or stop.
FinishLayout ==
  /\ pc = "pick" /\ placed = Tensors
  /\ IF Verified
     THEN /\ best' = Smaller(arenaSize, best)
          /\ IF strategy = "gffd"
             THEN /\ pc' = "pick" /\ strategy' = "linear"
                  /\ placed' = {} /\ arenaSize' = 0
                  /\ offset' = [t \in Tensors |-> 0]
                  /\ alignedEnd' = [t \in Tensors |-> 0]
             ELSE pc' = "done" /\ UNCHANGED <<strategy, layoutVars>>
     ELSE pc' = "raised" /\ UNCHANGED <<strategy, layoutVars, best>>
  /\ UNCHANGED <<inputVars, scanVars>>

Next == Pick \/ Break \/ Pass \/ Place \/ FinishLayout

Spec == Init /\ [][Next]_vars

-----------------------------------------------------------------------------
\* Mutant: at one time the sweep takes allocations before frees.
MutantLiveBytes(time) ==
  SumFunctionOnSet(size,
    {t \in Tensors : live[t].first <= time /\ time <= live[t].last + 1})

\* Bytes alive at a time: the running sum of the sweep in peak_live_bytes once
\* all frees and definitions of that time are counted.
LiveBytes(time) ==
  SumFunctionOnSet(size,
    {t \in Tensors : live[t].first <= time /\ time <= live[t].last})

\* peak_live_bytes: the sum is greatest when some tensor has just been defined.
PeakLiveBytes ==
  AlignUp(Max({0} \cup {LiveBytes(live[t].first) : t \in Tensors}))

-----------------------------------------------------------------------------
TypeOK ==
  /\ size \in [Tensors -> Nat]
  /\ live \in [Tensors -> Ranges]
  /\ strategy \in {"gffd", "linear"}
  /\ pc \in {"pick", "fit", "done", "raised"}
  /\ offset \in [Tensors -> Nat]
  /\ alignedEnd \in [Tensors -> Nat]
  /\ placed \subseteq Tensors
  /\ arenaSize \in Nat
  /\ pc = "fit" => cur \in Tensors \ placed
  /\ pending \subseteq placed /\ (pc # "fit" => pending = {})
  /\ candidate \in Nat
  /\ best \in Nat \cup {-1}

\* No two tensors that are live together share a byte, in either layout and at
\* every moment of its making; every slot holds its tensor, starts on an
\* aligned address and ends inside the arena.  So verify never raises
\* (arena.py:9, 195-198).
SlotsAreSound ==
  /\ \A t \in placed :
       /\ offset[t] % Alignment = 0
       /\ offset[t] + size[t] <= alignedEnd[t]
       /\ alignedEnd[t] <= arenaSize
  /\ \A t, u \in placed : t # u /\ Overlaps(t, u) => ~OverlapsAddress(t, u)
  /\ pc # "raised"

\* Why they are: the scan leaves behind it only blocks that end at or below the
\* candidate, until one it meets leaves room for the tensor, and with it every
\* block above.
ScanInv ==
  pc = "fit" =>
    /\ candidate % Alignment = 0
    /\ \A u \in placed \ pending : Overlaps(u, cur) =>
         \/ alignedEnd[u] <= candidate
         \/ pending = {} /\ candidate + size[cur] <= offset[u]

IInv ==
  /\ TypeOK
  /\ SlotsAreSound
  /\ \A t \in placed : alignedEnd[t] % Alignment = 0
  /\ ScanInv

\* Whether a slot for cur at offset o would touch the block of u.
Touches(o, u) == o < alignedEnd[u] /\ offset[u] < AlignUp(o + size[cur])

\* "Return the lowest aligned offset that fits" (arena.py:257): at every lower
\* aligned offset the tensor would run into a block it must avoid.
LowestOffset ==
  [][Place => \A k \in 0 .. candidate \div Alignment :
       k * Alignment < candidate =>
         \E u \in placed : Overlaps(u, cur) /\ Touches(k * Alignment, u)]_vars

\* "Any correct allocator must use at least this many bytes" (arena.py:169-170):
\* the bound the compiler reports never exceeds the arena it reports it for.
PeakIsLowerBound == pc = "done" => PeakLiveBytes <= best
=============================================================================
