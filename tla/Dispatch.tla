------------------------------- MODULE Dispatch ------------------------------
(***************************************************************************)
(* model_exec_run_ctx, the dataflow scheduler every compiled image carries *)
(* (emitted by compiler/codegen/c_generator.py:510-667), with the DMA      *)
(* fabric and the power manager it drives.                                 *)
(*                                                                         *)
(* One action is one turn of one of its loops: a slot looked at by the     *)
(* poll loop, a row looked at by the scan, a stall.  The scheduler is      *)
(* sequential; what runs beside it are the transfers on the wire, and time *)
(* passes only where the code advances the clock.  A frame is one call;    *)
(* frames follow each other, each with its own capability mask and         *)
(* deadline, and a frame that faults returns in the middle of everything.  *)
(*                                                                         *)
(* The kernel call itself is left out (its data is the subject of other    *)
(* modules), and so is the ERR_SHAPE guard: the generator refuses a row    *)
(* over MAX_OP_INPUTS or MAX_OP_OUTPUTS (c_generator.py:138-142).          *)
(***************************************************************************)
EXTENDS DmaEngine, PowerMgr, Functions

CONSTANTS
  Images,     \* compiled images to run
  Masks,      \* caps arguments, as the devices they grant
  Deadlines,  \* deadline_cycles arguments; 0 is none
  MaxFrames   \* bound on the number of frames

ASSUME ImagesAssumption == \A image \in Images : WellFormed(image)

ASSUME FramesAssumption ==
  Masks \subseteq SUBSET Device /\ Deadlines \subseteq Nat /\ MaxFrames \in Nat

VARIABLES
  img,          \* the image that is linked in; never changes
  caps,         \* caps argument: the devices it grants
  deadline,     \* deadline_cycles argument
  pc,           \* "idle", "loop", "poll" or "scan"
  cursor,       \* k of the poll loop, i of the scan
  progress,
  uncompleted,
  dep,          \* current_dep_count
  ready,        \* is_ready
  done,         \* is_complete
  slotOp,       \* s_inflight_op: row in flight, or -1
  slotCh,       \* s_inflight_ch
  status,       \* what the last frame returned; "running" during a frame
  frames,       \* frames begun
  \* History, written and never read by the actions:
  starts,       \* times each row was started in this frame
  inOrder,      \* the rows of this frame have completed in ascending order
  span          \* cycles of the first frame that returned OK, or -1

tableVars == <<dep, ready, done, uncompleted>>
slotVars  == <<slotOp, slotCh>>
argVars   == <<img, caps, deadline, frames>>
histVars  == <<starts, inOrder, span>>
vars == <<engineVars, active, argVars, pc, cursor, progress, tableVars,
          slotVars, status, histVars>>

Ops == RowsOf(img)

Statuses == {"none", "running", "OK", "ERR_CAPABILITY", "ERR_DEADLINE",
             "ERR_DEADLOCK"}

\* Before the first frame the RAM tables hold C's zeros.
Init ==
  /\ EngineInit
  /\ PowerInit
  /\ img \in Images
  /\ caps = {} /\ deadline = 0 /\ frames = 0
  /\ pc = "idle" /\ cursor = 0 /\ progress = FALSE
  /\ uncompleted = 0
  /\ dep = [i \in Ops |-> 0]
  /\ ready = [i \in Ops |-> FALSE]
  /\ done = [i \in Ops |-> FALSE]
  /\ slotOp = [k \in Channel |-> 0]
  /\ slotCh = [k \in Channel |-> 0]
  /\ status = "none"
  /\ starts = [i \in Ops |-> 0] /\ inOrder = TRUE /\ span = -1

-----------------------------------------------------------------------------
(* In-flight slots and the release of successors. *)

InFlight(i) == \E k \in Channel : slotOp[k] = i

IsFirstFreeSlot(k) ==
  /\ slotOp[k] < 0
  /\ \A l \in Channel : l < k => slotOp[l] >= 0

\* Mutant: a successor is made ready by the first of its predecessors.
MutantRelease(i) ==
  /\ dep' = [j \in Ops |-> IF j \in img.succs[i] THEN dep[j] - 1 ELSE dep[j]]
  /\ ready' = [j \in Ops |->
                 \/ j \in img.succs[i]
                 \/ ready[j] /\ ~(j = i /\ img.device[i] # "DMA")]

\* release_successors(i); a compute row's own ready flag is cleared before it.
Release(i) ==
  /\ dep' = [j \in Ops |-> IF j \in img.succs[i] THEN dep[j] - 1 ELSE dep[j]]
  /\ ready' = [j \in Ops |->
                 \/ j \in img.succs[i] /\ dep[j] = 1
                 \/ ready[j] /\ ~(j = i /\ img.device[i] # "DMA")]

\* A row has finished: mark it, release its successors, tell the power manager.
\* The ready flag of a DMA row stays up (c_generator.py:574-580, 639-644).
Complete(i) ==
  /\ done' = [done EXCEPT ![i] = TRUE]
  /\ uncompleted' = uncompleted - 1
  /\ progress' = TRUE
  /\ Release(i)
  /\ OnOpComplete(i, img.plan)
  /\ inOrder' = (inOrder /\ \A j \in Ops : j < i => done[j])

\* The frame returns with code s; everything else stays as it is.
Return(s) == pc' = "idle" /\ status' = s

-----------------------------------------------------------------------------
(* Frame start and end. *)

BeginFrame ==
  /\ pc = "idle"
  /\ frames < MaxFrames
  /\ caps' \in Masks
  /\ deadline' \in Deadlines
  /\ frames' = frames + 1
  /\ SimReset
  /\ slotOp' = [k \in Channel |-> -1]
  /\ slotCh' = [k \in Channel |-> -1]
  /\ uncompleted' = img.n
  /\ dep' = [i \in Ops |-> Cardinality(img.preds[i])]
  /\ ready' = [i \in Ops |-> img.preds[i] = {}]
  /\ done' = [i \in Ops |-> FALSE]
  /\ OnFrameStart(img.plan)
  /\ pc' = "loop"
  /\ status' = "running"
  /\ starts' = [i \in Ops |-> 0]
  /\ inOrder' = TRUE
  /\ UNCHANGED <<img, cursor, progress, span>>

\* The head of the while loop: another sweep.
BeginSweep ==
  /\ pc = "loop" /\ uncompleted > 0
  /\ pc' = "poll" /\ cursor' = 0 /\ progress' = FALSE
  /\ UNCHANGED <<engineVars, active, argVars, tableVars, slotVars, status, histVars>>

\* The head of the while loop: nothing left to do.
FinishFrame ==
  /\ pc = "loop" /\ uncompleted <= 0
  /\ OnFrameEnd(img.plan)
  /\ Return("OK")
  /\ span' = IF span = -1 THEN now ELSE span
  /\ UNCHANGED <<engineVars, argVars, cursor, progress, tableVars, slotVars,
                 starts, inOrder>>

-----------------------------------------------------------------------------
(* 3a. Poll in-flight transfers. *)

PollDone(k) == slotOp[k] >= 0 /\ PollResult(slotCh[k])

\* Mutant: the poll loop runs one slot too far.
MutantNextSlot ==
  IF cursor = NumChannels
  THEN pc' = "scan" /\ cursor' = 0
  ELSE pc' = "poll" /\ cursor' = cursor + 1

\* Mutant: the scan starts at row 1.
MutantScanFromOne ==
  IF cursor = NumChannels - 1
  THEN pc' = "scan" /\ cursor' = 1
  ELSE pc' = "poll" /\ cursor' = cursor + 1

NextSlot ==
  IF cursor = NumChannels - 1
  THEN pc' = "scan" /\ cursor' = 0
  ELSE pc' = "poll" /\ cursor' = cursor + 1

PollNothing ==
  /\ pc = "poll" /\ ~PollDone(cursor)
  /\ NextSlot
  /\ UNCHANGED <<engineVars, active, argVars, progress, tableVars, slotVars,
                 status, histVars>>

\* Mutant: the slot is freed without looking at the channel first, so the copy
\* is never made.
MutantPollComplete ==
  /\ pc = "poll" /\ PollDone(cursor)
  /\ slotOp' = [slotOp EXCEPT ![cursor] = -1]
  /\ Complete(slotOp[cursor])
  /\ NextSlot
  /\ UNCHANGED <<engineVars, argVars, slotCh, status, starts, span>>

PollComplete ==
  /\ pc = "poll" /\ PollDone(cursor)
  /\ Poll(slotCh[cursor])
  /\ slotOp' = [slotOp EXCEPT ![cursor] = -1]
  /\ Complete(slotOp[cursor])
  /\ NextSlot
  /\ UNCHANGED <<argVars, slotCh, status, starts, span>>

-----------------------------------------------------------------------------
(* 3b. Scan ready rows. *)

\* Mutant: a row whose transfer is on the wire is not skipped.
MutantStartable(i) == ready[i] /\ ~done[i]

Startable(i) == ready[i] /\ ~done[i] /\ ~InFlight(i)

Scanning == pc = "scan" /\ cursor < img.n

AtRow(i) == Scanning /\ cursor = i /\ Startable(i) /\ img.device[i] \in caps

NextRow == pc' = "scan" /\ cursor' = cursor + 1

SkipRow ==
  /\ Scanning /\ ~Startable(cursor)
  /\ NextRow
  /\ UNCHANGED <<engineVars, active, argVars, progress, tableVars, slotVars,
                 status, histVars>>

DenyCapability ==
  /\ Scanning /\ Startable(cursor) /\ img.device[cursor] \notin caps
  /\ Return("ERR_CAPABILITY")
  /\ UNCHANGED <<engineVars, active, argVars, cursor, progress, tableVars,
                 slotVars, histVars>>

\* A DMA row goes on the wire; its slot is recorded if there is one to record
\* it in, which there always is (WireAgreement).
SubmitTransfer ==
  \E i \in Ops, c \in Channel :
    /\ AtRow(i) /\ img.device[i] = "DMA"
    /\ Submit(c, i, img.bytes[i])
    /\ IF \A k \in Channel : slotOp[k] >= 0
       THEN UNCHANGED <<slotVars, progress>>
       ELSE \E k \in Channel :
              /\ IsFirstFreeSlot(k)
              /\ slotOp' = [slotOp EXCEPT ![k] = i]
              /\ slotCh' = [slotCh EXCEPT ![k] = c]
              /\ progress' = TRUE
    /\ NextRow
    /\ starts' = [starts EXCEPT ![i] = @ + 1]
    /\ UNCHANGED <<active, argVars, tableVars, status, inOrder, span>>

\* Every channel is busy: dma_submit returns -1 and the row waits its turn.
SubmitRefused ==
  \E i \in Ops :
    /\ AtRow(i) /\ img.device[i] = "DMA" /\ AllBusy
    /\ NextRow
    /\ UNCHANGED <<engineVars, active, argVars, progress, tableVars, slotVars,
                   status, histVars>>

\* The channels a compute row waits for before its kernel runs.
InputChannels(i) ==
  {slotCh[k] : k \in {l \in Channel : slotOp[l] \in img.preds[i]}}

\* Mutant: the deadline is compared with the clock before the kernel.
MutantLate(t) == deadline # 0 /\ now > deadline

Late(t) == deadline # 0 /\ t > deadline

\* Wait for the inputs, run the kernel, advance by its WCET.
Execute(i) ==
  /\ AtRow(i) /\ img.device[i] # "DMA"
  /\ WaitThenAdvance(InputChannels(i), img.wcet[i])
  /\ starts' = [starts EXCEPT ![i] = @ + 1]
  /\ UNCHANGED <<argVars, slotVars, span>>

RunKernel ==
  \E i \in Ops :
    /\ Execute(i)
    /\ ~Late(now')
    /\ Complete(i)
    /\ NextRow
    /\ UNCHANGED status

MissDeadline ==
  \E i \in Ops :
    /\ Execute(i)
    /\ Late(now')
    /\ Return("ERR_DEADLINE")
    /\ UNCHANGED <<active, cursor, progress, tableVars, inOrder>>

EndSweep ==
  /\ pc = "scan" /\ cursor >= img.n
  /\ progress \/ uncompleted <= 0
  /\ pc' = "loop"
  /\ UNCHANGED <<engineVars, active, argVars, cursor, progress, tableVars,
                 slotVars, status, histVars>>

-----------------------------------------------------------------------------
(* 3c. No progress. *)

Waiting(k) == slotOp[k] >= 0 /\ ~DmaDone(slotCh[k])

\* The loop over the slots leaves the last waiting one in "waiting".
IsLastWaiting(k) == Waiting(k) /\ \A l \in Channel : l > k => ~Waiting(l)

\* Mutant: the absolute completion cycle is taken for a duration.
MutantStallCycles(k) == chan[slotCh[k]].doneAt

\* Mutant: the clock is not advanced at all.
MutantNoStallCycles(k) == 0

StallCycles(k) == chan[slotCh[k]].doneAt - now

\* Nothing moved in a whole sweep: jump to the completion of the last waiting
\* slot, or give up if no slot is waiting.
Stall ==
  /\ pc = "scan" /\ cursor >= img.n
  /\ ~progress /\ uncompleted > 0
  /\ IF \E k \in Channel : Waiting(k)
     THEN /\ \E k \in Channel :
               /\ IsLastWaiting(k)
               /\ SimAdvance(StallCycles(k))
          /\ pc' = "loop"
          /\ UNCHANGED status
     ELSE Return("ERR_DEADLOCK") /\ UNCHANGED engineVars
  /\ UNCHANGED <<active, argVars, cursor, progress, tableVars, slotVars, histVars>>

-----------------------------------------------------------------------------
Scheduler ==
  \/ BeginSweep \/ FinishFrame
  \/ PollNothing \/ PollComplete
  \/ SkipRow \/ DenyCapability \/ SubmitTransfer \/ SubmitRefused
  \/ RunKernel \/ MissDeadline \/ EndSweep
  \/ Stall

Next == BeginFrame \/ Scheduler

Spec == Init /\ [][Next]_vars

\* The scheduler is one C function with nothing to block it: it keeps running.
\* Whether another frame is started is the caller's choice.
FairSpec == Spec /\ WF_vars(Scheduler)

-----------------------------------------------------------------------------
(* Properties. *)

Running == pc # "idle"

Undone == {i \in Ops : ~done[i]}

\* The predecessors of a row that are still to come.
Pending(i) == img.preds[i] \cap Undone

TypeOK ==
  /\ EngineTypeOK(Ops)
  /\ active \subseteq Device
  /\ caps \subseteq Device
  /\ deadline \in Nat
  /\ pc \in {"idle", "loop", "poll", "scan"}
  /\ cursor \in Nat
  /\ pc = "poll" => cursor \in Channel
  /\ progress \in BOOLEAN
  /\ uncompleted \in Int
  /\ dep \in [Ops -> Int]
  /\ ready \in [Ops -> BOOLEAN]
  /\ done \in [Ops -> BOOLEAN]
  /\ slotOp \in [Channel -> Int]
  /\ slotCh \in [Channel -> Channel \cup {-1}]
  /\ status \in Statuses
  /\ frames \in Nat
  /\ starts \in [Ops -> Nat]
  /\ inOrder \in BOOLEAN

\* The scheduler's slots and the fabric's channels are two records of the same
\* transfers, kept by two pieces of code: during a frame they agree, one to
\* one.  A slot leaked, or freed twice, would break this.
WireAgreement ==
  Running =>
    /\ \A k \in Channel : slotOp[k] >= 0 =>
         /\ slotCh[k] \in Channel
         /\ chan[slotCh[k]].busy
         /\ chan[slotCh[k]].job = slotOp[k]
    /\ \A c \in Channel : chan[c].busy =>
         \E k \in Channel : slotOp[k] >= 0 /\ slotCh[k] = c
    /\ \A k, l \in Channel :
         slotOp[k] >= 0 /\ slotOp[l] >= 0 /\ (slotCh[k] = slotCh[l] \/ slotOp[k] = slotOp[l])
           => k = l

\* Nothing starts before its data is there: every predecessor of a row that
\* was started is complete, and a staged operand has really been copied
\* (README.md:75-78).
InputsResident ==
  \A i \in Ops : starts[i] > 0 =>
    \A p \in img.preds[i] : done[p] /\ (img.device[p] = "DMA" => p \in landed)

\* The run-time counters never drift from the graph, whatever the order rows
\* complete in: a row is started at most once, its dependency count is the
\* number of its predecessors still to come, and "uncompleted" the number of
\* rows.
CountersExact ==
  Running =>
    /\ \A i \in Ops : starts[i] <= 1 /\ (done[i] => starts[i] = 1)
    /\ \A i \in Ops : dep[i] = Cardinality(Pending(i))
    /\ uncompleted = Cardinality(Undone)

\* The status a frame returns tells the truth: OK means every row ran and the
\* whole frame met its deadline, ERR_DEADLINE that the clock is past it,
\* ERR_CAPABILITY that some runnable row needs a device the mask withholds,
\* and ERR_DEADLOCK is never seen with an image the compiler emits.
StatusIsTruthful ==
  /\ status = "OK" =>
       /\ \A i \in Ops : done[i]
       /\ deadline # 0 => now <= deadline
  /\ status = "ERR_DEADLINE" => deadline # 0 /\ now > deadline
  /\ status = "ERR_CAPABILITY" =>
       \E i \in Ops : /\ img.device[i] \notin caps /\ ~done[i]
                      /\ \A p \in img.preds[i] : done[p]
  /\ status # "ERR_DEADLOCK"

Cost(i) ==
  IF img.device[i] = "DMA" THEN TransferCycles(img.bytes[i]) ELSE img.wcet[i]

CostOf(S) == SumFunctionOnSet([i \in Ops |-> Cost(i)], S)

\* The clock can be trusted: it has advanced by at least the kernels that ran
\* and by each transfer that landed, and by no more than if everything started
\* so far had run one after the other (README.md:78-79).
MakespanBounds ==
  Running \/ status = "OK" =>
    /\ CostOf({i \in Ops : done[i] /\ img.device[i] # "DMA"}) <= now
    /\ \A i \in Ops : done[i] => Cost(i) <= now
    /\ now <= CostOf({i \in Ops : starts[i] > 0})

\* A frame owes nothing to the one before it, even one that faulted with
\* transfers on the wire: every frame that returns OK takes the same number of
\* cycles ("deterministic clock", README.md:78).
FramesAreIndependent == status = "OK" => now = span

\* As long as rows have completed in ascending order, the row that comes next
\* finds its power domain on (the assumption of README.md:123-124).
PoweredInOrder ==
  \A i \in Ops :
    pc = "scan" /\ inOrder /\ cursor = i /\ Startable(i) /\ (\A j \in Ops : j < i => done[j])
      => img.device[i] \in active

\* Between frames only the CPU is powered, unless the last frame faulted, and a
\* frame that returns OK clears what a faulted one left on; the CPU is never
\* gated off (README.md:88).
SleepsBetweenFrames ==
  /\ "CPU" \in active
  /\ status \in {"none", "OK"} => active = {"CPU"}

\* The clock jumps only when there is nothing to do: at a stall no compute row
\* can be started, and a DMA row that can finds every channel busy.
StallsOnlyWhenStuck ==
  [][Stall => \A i \in Ops : Startable(i) => img.device[i] = "DMA" /\ AllBusy]_vars

\* Every frame returns (under FairSpec): transfers land, blocked rows are
\* released, and no sweep repeats for ever.
FrameTerminates == Running ~> ~Running

\* The dataflow a frame promises: a row has started when it was submitted or
\* its kernel was called.
DF == INSTANCE Dataflow WITH
        started   <- {i \in Ops : starts[i] > 0},
        completed <- {i \in Ops : done[i]},
        verdict   <- status

\* The scheduler with its sweeps, slots, counters and channels is an
\* implementation of the dataflow: each step starts or completes at most one
\* row, in an order the dependencies allow, and nothing is left when a frame
\* returns OK (README.md:75-82, c_generator.py:510-667).
ImplementsDataflow == DF!Spec

-----------------------------------------------------------------------------
(* What the documentation says and the code does not do. *)

\* "the runtime enables a domain just before its first op and gates it off
\* after its last" (README.md:86-87): a device that is carrying out a row is
\* powered.
PoweredWhileUsed ==
  /\ \A k \in Channel : Running /\ slotOp[k] >= 0 => "DMA" \in active
  /\ \A i \in Ops : AtRow(i) => img.device[i] \in active
=============================================================================
