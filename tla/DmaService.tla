----------------------------- MODULE DmaService ------------------------------
(***************************************************************************)
(* The DMA fabric under an arbitrary caller: transfers are submitted,      *)
(* polled and waited for in any order, the clock advances by any amount,   *)
(* and the fabric may be reset with transfers still on the wire.  The one  *)
(* discipline kept is that a job is submitted at most once between resets. *)
(***************************************************************************)
EXTENDS DmaEngine, Functions

CONSTANTS
  Jobs,      \* transfers the caller may ask for
  Bytes,     \* transfer sizes
  Steps,     \* amounts the caller may advance the clock by
  Horizon,   \* bound on the clock (explored states only)
  MaxResets  \* bound on the number of resets

ASSUME ServiceAssumption == Bytes \subseteq Nat /\ Steps \subseteq Nat

VARIABLES
  asked,     \* jobs submitted since the last reset
  resets     \* resets so far

vars == <<engineVars, asked, resets>>

Init == EngineInit /\ asked = {} /\ resets = 0

Reset ==
  /\ resets < MaxResets
  /\ SimReset
  /\ asked' = {}
  /\ resets' = resets + 1

Advance ==
  \E cycles \in Steps :
    /\ now + cycles <= Horizon
    /\ SimAdvance(cycles)
    /\ UNCHANGED <<asked, resets>>

SubmitJob ==
  \E j \in Jobs \ asked, b \in Bytes, c \in Channel :
    /\ Submit(c, j, b)
    /\ asked' = asked \cup {j}
    /\ UNCHANGED resets

PollChannel == \E c \in Channel : Poll(c) /\ UNCHANGED <<asked, resets>>

WaitChannel ==
  \E c \in Channel : WaitThenAdvance({c}, 0) /\ UNCHANGED <<asked, resets>>

Next == Reset \/ Advance \/ SubmitJob \/ PollChannel \/ WaitChannel

Spec == Init /\ [][Next]_vars

-----------------------------------------------------------------------------
Busy == {c \in Channel : chan[c].busy}

TypeOK ==
  /\ EngineTypeOK(Jobs)
  /\ asked \subseteq Jobs
  /\ resets \in Nat

\* A transfer is either on exactly one channel or copied exactly once: the
\* counters g_dma_submits and g_dma_copies agree with what really moved, and
\* nothing that landed is still on a wire (dma_engine.c:11-14).
ExactlyOnce ==
  /\ submits = Cardinality(Busy) + copies
  /\ copies = Cardinality(landed)
  /\ asked = landed \cup {chan[c].job : c \in Busy}
  /\ \A c \in Busy : chan[c].job \notin landed
  /\ \A c, d \in Busy : chan[c].job = chan[d].job => c = d

\* The fabric never claims more bandwidth than its channels have: the wire
\* time handed out fits end to end below the channels' completion cycles.
FabricCapacity == xferCycles <= SumFunction([c \in Channel |-> chan[c].doneAt])

Contract == INSTANCE DmaContract WITH
  Job       <- Jobs,
  Capacity  <- NumChannels,
  Length    <- {TransferCycles(b) : b \in Bytes},
  clock     <- now,
  pending   <- {[job |-> chan[c].job, due |-> chan[c].doneAt] : c \in Busy},
  delivered <- landed

\* The fabric keeps the contract its users rely on.
ImplementsContract == Contract!Spec
=============================================================================
