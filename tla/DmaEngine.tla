------------------------------ MODULE DmaEngine ------------------------------
(***************************************************************************)
(* The simulated DMA fabric of runtime/dispatch/dma_engine.c: a clock that *)
(* only software advances and a fixed set of channels, each carrying at    *)
(* most one transfer.  Submitting a transfer fixes the cycle at which it   *)
(* is done; the payload is copied when software next looks at the channel  *)
(* at or after that cycle.                                                 *)
(*                                                                         *)
(* A transfer (source pointer, destination pointer, byte count) is named   *)
(* by its job; "landed" is the set of jobs whose payload memcpy has run    *)
(* since the last sim_reset.  Every caller in the system passes two        *)
(* non-null pointers and a channel number in range, so the guards for the  *)
(* other cases are left out.  Cycle counters are unbounded naturals: the   *)
(* code's are 64 bits wide and restart at zero with every frame.           *)
(*                                                                         *)
(* The operators below are the fabric's functions.  The module has no Next *)
(* of its own: DmaService drives it with an arbitrary caller and Dispatch  *)
(* with the generated scheduler.                                           *)
(***************************************************************************)
EXTENDS Integers, FiniteSets

CONSTANTS
  NumChannels,  \* DMA_NUM_CHANNELS
  Bandwidth,    \* DMA_BW_BYTES_PER_CYCLE
  NoJob         \* the job of a channel that was never used

ASSUME EngineAssumption ==
  /\ NumChannels \in Nat \ {0}
  /\ Bandwidth \in Nat \ {0}

VARIABLES
  now,          \* g_cycle_count
  chan,         \* s_channels
  landed,       \* jobs whose payload has been copied
  submits,      \* g_dma_submits
  copies,       \* g_dma_copies
  xferCycles    \* g_dma_transfer_cycles

engineVars == <<now, chan, landed, submits, copies, xferCycles>>

Channel == 0 .. NumChannels - 1

IdleChannel == [busy |-> FALSE, doneAt |-> 0, job |-> NoJob]

EngineInit ==
  /\ now = 0
  /\ chan = [c \in Channel |-> IdleChannel]
  /\ landed = {}
  /\ submits = 0
  /\ copies = 0
  /\ xferCycles = 0

\* Mutant: the counters restart, the channels stay as they are.
MutantSimReset ==
  /\ now' = 0 /\ landed' = {} /\ submits' = 0 /\ copies' = 0 /\ xferCycles' = 0
  /\ UNCHANGED chan

SimReset ==
  /\ now' = 0
  /\ chan' = [c \in Channel |-> IdleChannel]
  /\ landed' = {}
  /\ submits' = 0
  /\ copies' = 0
  /\ xferCycles' = 0

SimAdvance(cycles) ==
  /\ now' = now + cycles
  /\ UNCHANGED <<chan, landed, submits, copies, xferCycles>>

-----------------------------------------------------------------------------
(* Submission. *)

\* Mutant: the round-up subtracts a beat instead of adding one.
MutantTransferCycles(bytes) == (bytes - Bandwidth - 1) \div Bandwidth

\* Cycles on the wire: the byte count over the bandwidth, rounded up, and at
\* least one beat.
TransferCycles(bytes) ==
  LET len == (bytes + Bandwidth - 1) \div Bandwidth
  IN  IF len = 0 THEN 1 ELSE len

AllBusy == \A c \in Channel : chan[c].busy

\* The channel dma_submit's linear search stops at.
IsFirstFree(c) ==
  /\ ~chan[c].busy
  /\ \A d \in Channel : d < c => chan[d].busy

\* Mutant: done_at is the length alone, as if every transfer began at cycle 0.
MutantStartOn(c) == 0

\* The first cycle of a transfer submitted now on channel c.
StartOn(c) == IF now > chan[c].doneAt THEN now ELSE chan[c].doneAt

\* dma_submit returning channel c.
Submit(c, job, bytes) ==
  /\ IsFirstFree(c)
  /\ chan' = [chan EXCEPT ![c] =
                [busy   |-> TRUE,
                 doneAt |-> StartOn(c) + TransferCycles(bytes),
                 job    |-> job]]
  /\ submits' = submits + 1
  /\ xferCycles' = xferCycles + TransferCycles(bytes)
  /\ UNCHANGED <<now, landed, copies>>

-----------------------------------------------------------------------------
(* Completion. *)

\* Mutant: a transfer counts as due one cycle early.
MutantDue(cs, t) == {c \in cs : chan[c].busy /\ chan[c].doneAt <= t + 1}

\* The channels among cs that are on the wire and due at cycle t.
Due(cs, t) == {c \in cs : chan[c].busy /\ chan[c].doneAt <= t}

\* Mutant: the channel is not freed, so the next look copies again.
MutantCompleteIfReady(cs, t) ==
  /\ UNCHANGED chan
  /\ landed' = landed \cup {chan[c].job : c \in Due(cs, t)}
  /\ copies' = copies + Cardinality(Due(cs, t))

\* complete_if_ready on every channel of cs, with the clock at t.
CompleteIfReady(cs, t) ==
  /\ chan' = [c \in Channel |->
                IF c \in Due(cs, t) THEN [chan[c] EXCEPT !.busy = FALSE]
                                    ELSE chan[c]]
  /\ landed' = landed \cup {chan[c].job : c \in Due(cs, t)}
  /\ copies' = copies + Cardinality(Due(cs, t))

\* What dma_poll(c) returns.
PollResult(c) == ~chan[c].busy \/ chan[c].doneAt <= now

Poll(c) ==
  /\ CompleteIfReady({c}, now)
  /\ UNCHANGED <<now, submits, xferCycles>>

DmaDone(c) == now >= chan[c].doneAt

\* The clock after dma_wait on each channel of cs: it never moves backwards.
AfterWait(cs) ==
  CHOOSE t \in {now} \cup {chan[c].doneAt : c \in cs} :
    /\ t >= now
    /\ \A c \in cs : t >= chan[c].doneAt

\* dma_wait on every channel of cs, then sim_advance(cycles).
WaitThenAdvance(cs, cycles) ==
  /\ now' = AfterWait(cs) + cycles
  /\ CompleteIfReady(cs, AfterWait(cs))
  /\ UNCHANGED <<submits, xferCycles>>

EngineTypeOK(Job) ==
  /\ now \in Nat
  /\ chan \in [Channel -> [busy : BOOLEAN, doneAt : Nat, job : Job \cup {NoJob}]]
  /\ landed \subseteq Job
  /\ submits \in Nat
  /\ copies \in Nat
  /\ xferCycles \in Nat
=============================================================================
