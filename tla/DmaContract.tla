----------------------------- MODULE DmaContract -----------------------------
(***************************************************************************)
(* What a user of the DMA fabric may rely on, without its channels: at     *)
(* most Capacity transfers are pending, each has a due cycle that lies at  *)
(* least one cycle and at least its wire time after its start, its payload *)
(* is delivered once, never before the due cycle, and an aborted transfer  *)
(* delivers nothing.  DmaService is shown to implement this specification. *)
(***************************************************************************)
EXTENDS Integers, FiniteSets

CONSTANTS
  Job,       \* names of transfers
  Capacity,  \* transfers that can be pending at once
  Length     \* wire times a transfer may have, all positive

VARIABLES
  clock,
  pending,   \* set of [job, due]
  delivered  \* jobs whose payload is in place

vars == <<clock, pending, delivered>>

Init == clock = 0 /\ pending = {} /\ delivered = {}

Start ==
  \E j \in Job, len \in Length :
    /\ Cardinality(pending) < Capacity
    /\ j \notin delivered \cup {p.job : p \in pending}
    /\ pending' = pending \cup {[job |-> j, due |-> clock + len]}
    /\ UNCHANGED <<clock, delivered>>

\* Time passes, then any of the transfers that are due are delivered.
TickAndDeliver ==
  /\ clock' >= clock
  /\ \E batch \in SUBSET {p \in pending : p.due <= clock'} :
       /\ pending' = pending \ batch
       /\ delivered' = delivered \cup {p.job : p \in batch}

Abort == clock' = 0 /\ pending' = {} /\ delivered' = {}

Next == Start \/ TickAndDeliver \/ Abort

Spec == Init /\ [][Next]_vars
=============================================================================
