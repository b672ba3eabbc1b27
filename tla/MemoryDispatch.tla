--------------------------- MODULE MemoryDispatch ----------------------------
(***************************************************************************)
(* The scheduler over the arena: Dispatch, with what its kernels and the   *)
(* fabric's copies do to the bytes the planner laid out.  An image also    *)
(* has the fields of a memory map (ArenaMemory), and "sound" says whether  *)
(* its rows compute the graph when they run by index.                      *)
(*                                                                         *)
(* The planner counts time in row indices.  The scheduler starts rows when *)
(* they are ready, which with a transfer on the wire is another order.     *)
(***************************************************************************)
EXTENDS Dispatch, ArenaMemory

ASSUME MapsAssumption ==
  \A image \in Images :
    MapFits(image, image) /\ image.sound = SequentiallySound(image, image.n)

VARIABLES
  mem,    \* g_arena
  intact  \* history: every row of the frame read what it was meant to

memVars == <<mem, intact>>

MemoryInit ==
  /\ Init
  /\ mem = ClearMemory(img)
  /\ intact = TRUE

\* The caller writes the inputs before every frame.
Filled == FillInputs(img, mem)

Begin ==
  /\ BeginFrame
  /\ mem' = Filled
  /\ intact' = TRUE

\* Mutant: a transfer completes without its copy.
MutantAfterLanding == mem

\* The arena once the payloads that land in this step are copied: a load reads
\* nothing of the arena.
AfterLanding ==
  LET written(b) == {t \in UNION {img.writes[i] : i \in landed' \ landed} :
                       b \in img.blocks[t]}
  IN  [b \in DOMAIN mem |-> IF written(b) = {} THEN mem[b]
                            ELSE img.meaning[CHOOSE t \in written(b) : TRUE]]

Land ==
  /\ PollComplete
  /\ mem' = AfterLanding
  /\ UNCHANGED intact

\* The kernel has run by the time the deadline is looked at.
Kernel ==
  /\ RunKernel \/ MissDeadline
  /\ mem' = Compute(img, AfterLanding, cursor)
  /\ intact' = (intact /\ ReadsIntact(img, AfterLanding, cursor))

\* Everything else leaves the arena alone.
Bookkeeping ==
  /\ \/ BeginSweep \/ FinishFrame \/ PollNothing
     \/ SkipRow \/ DenyCapability \/ SubmitTransfer \/ SubmitRefused
     \/ EndSweep \/ Stall
  /\ UNCHANGED memVars

MemoryNext == Begin \/ Land \/ Kernel \/ Bookkeeping

MemorySpec == MemoryInit /\ [][MemoryNext]_<<vars, memVars>>

-----------------------------------------------------------------------------
(* Properties. *)

\* As long as rows complete in ascending order, a plan that is sound row by row
\* is sound under the scheduler: asynchronous copies, refused submits, stalls
\* and earlier frames that faulted do not change what a row reads, and a frame
\* that returns OK leaves the graph's outputs in place (README.md:24-29).
OrderedFramesAreExact ==
  img.sound /\ inOrder =>
    /\ intact
    /\ status = "OK" => OutputsHold(img, mem)

\* Without a load every frame runs by index: a row's predecessors come before
\* it, so the scan finds each row ready when it gets there.
LoadFreeFramesAreOrdered ==
  (\A i \in Ops : img.device[i] # "DMA") => inOrder

-----------------------------------------------------------------------------
(* What the documentation says and the code does not do. *)

\* "After this point the tensor is dead and its arena slot can be reused", the
\* point being the row with the highest index that reads it (liveness.py:12-13):
\* reuse by row index is harmless to every row of a frame.
ReuseIsHarmless == img.sound => intact
=============================================================================
