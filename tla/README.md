# Graph-Native OS in TLA+

Specifications of the graph-native inference runtime in `src/`: the compiler
that turns an ONNX graph into a C image, and the scheduler, DMA fabric and power
manager that run the image. The modules are checked by TLC on small instances;
what matters most is proved by TLAPS for every value of the constants.

## 1. Inventory

The compiler is a pipeline of passes over one mutable graph; its output is a set
of ROM tables and one C function, `model_exec_run_ctx`. At run time everything is
sequential C, but DMA transfers are in flight beside it, and time is a counter
that only software advances. That is where the hard behaviour is: rows complete
out of index order while a transfer is on the wire, and several tables computed
offline (live ranges, power windows) are in terms of row indices.

| component | state | operations | correct when |
|---|---|---|---|
| DMA fabric, `runtime/dispatch/dma_engine.c` | clock, channels (busy, done_at, src, dst), counters | reset, advance, submit, poll, wait | each payload is copied once, not before its time; bandwidth is respected |
| dispatch scheduler, emitted at `codegen/c_generator.py:510-667` | dependency counts, ready and complete flags, in-flight slots | frame, sweep (poll, scan, stall) | rows run once, after their data; status codes are truthful; every frame returns |
| power manager, `runtime/power/power_mgr.c` | mask of powered domains | frame start, row complete, frame end | a domain is on while it is used, off between frames |
| power analysis, `passes/power_analysis.py` | none (graph to plan) | analyse | each window spans the rows that use the domain |
| device assignment, `passes/device_assignment.py` | operator list, staging map | run | each large constant is fetched once, each reader waits for it, no data changes |
| code generator, `codegen/c_generator.py` | none (graph to tables) | limits, tensor table, parameters, exec table, scheduler | tables describe the graph |
| arena allocator, `memory/arena.py` | allocations, arena size | allocate (two orders), verify, peak_live_bytes | tensors live together share no byte |
| liveness, `memory/liveness.py` | live ranges | compute_liveness (with alias folding) | a range covers every access to the storage |
| alias analysis, `passes/alias_analysis.py` | alias_of | run | no reader sees an in-place overwrite |
| fusion, BatchNorm absorption, constant folding, pruning | operator list, tensors | run | the function computed by the graph is unchanged |
| IR validation, `frontend/ir.py` | none | validate, validate_topological | rejects what later passes do not expect, and nothing else |
| ONNX ingestion, `frontend/onnx_ingest.py` | graph | ingest (topological sort, shapes) | operators come in topological order |
| cost model, `passes/cost_model.py` | none | analyse | a row is charged with the work its kernel does |
| reference kernels, `runtime/kernels/cpu_ref` | none | one per operator | each result is computed from the elements ONNX prescribes |

Interactions: the scheduler calls the fabric (`dma_submit`, `dma_poll`,
`dma_wait`, `sim_advance`) and the power manager (three callbacks); it reads the
tables the generator wrote. The passes share the graph, in the order of
`compiler/main.py:25-75`. The arena planner consumes the live ranges, which
consume the aliases.

The hazards of the code, each with the line where it bites and the property that
covers it, are listed in `PROJECT.json`.

## 2. Modules

| module | models | correspondence |
|---|---|---|
| `DmaEngine` | `dma_engine.c` | one operator per function; `chan[c]` is `s_channels[c]`, `now` is `g_cycle_count`, a transfer is named by its job and `landed` holds the jobs whose memcpy has run |
| `DmaService` | an arbitrary caller of the fabric | actions Reset, Advance, SubmitJob, PollChannel, WaitChannel |
| `DmaContract` | what a user of the fabric may rely on | abstract: pending transfers with due cycles, delivered payloads; no channels |
| `ExecImage` | the ROM tables (`sunit_t`, `power_domain_entry_t`) and what makes them well formed | `WellFormed` is the interface between compiler and runtime |
| `PowerMgr` | `power_mgr.c` | one operator per callback; `active` is the mask |
| `DeviceAssignment` | `device_assignment.py` | `AssignDevices` is `run`, by recursion over the operators |
| `ExecTable` | the exec table (`c_generator.py:418-508`) and `power_analysis.py` | `ImageOf` |
| `Dispatch` | `model_exec_run_ctx` with `DmaEngine` and `PowerMgr` | one action per turn of a loop, see below |
| `ArenaAlloc` | `arena.py` | Pick, Break, Pass, Place, FinishLayout |
| `Dataflow` | what a frame promises | abstract: rows started and completed, a verdict; no clock, channels or sweeps |
| `ArenaAllocProofs`, `DispatchProofs`, `DmaProofs`, `FrontEndProofs`, `LoweringProofs`, `KernelProofs` | theorems | section 5 |
| `MemoryProofs`, `DataInduction` | lemmas the theorems share | section 5 |
| `AliasAnalysis` | `alias_analysis.py` | `AliasOf` is the `alias_of` that `run` sets, `RootsOf` the end of each chain |
| `Liveness` | `liveness.py` | `LiveRanges` is `compute_liveness`, folding included |
| `ArenaLayout` | `arena.py` as one function, the tensor table (`c_generator.py:367-405`) | `Allocate`, `TensorTable`, in aligned blocks |
| `ArenaMemory` | what the arena's blocks hold while rows run | `Compute` is a kernel call or a landed copy, `FillInputs` the caller |
| `MemoryPlan` | the planner of `main.py:42-62` | actions Route, Alias, PruneTable, ComputeLiveness, PlanArena |
| `Lowering` | `MemoryPlan` and the tables of `main.py:66-73` | action Emit: the image, or a refusal |
| `MemoryDispatch` | `Dispatch` over the arena | each action of `Dispatch` with what it does to `mem` |
| `Ingest` | the sort of `onnx_ingest.py:243-302` and the validation after it | `Pop` takes a ready node, `Finish` reports and validates |
| `GraphIR` | `ir.py`: the graph, its validation, and what it computes | `Outputs` is the value of each graph output, a term |
| `ConstantFold`, `BnAbsorb`, `Fusion`, `Prune` | the passes of that name | `FoldSweep`, `Absorb`, `FuseSweep`, `Kept`: one traversal of the operators |
| `Codegen` | what the generator freezes and refuses (`c_generator.py:110-330`) | `Refused`, `SlotMissing`, `Emitted` |
| `Pipeline` | the front half of `main.py` on one graph | Fold, AbsorbBatchNorms, Fuse, PruneTensors, Validate, Emit |
| `Kernels` | `kernels_ref.c`: which elements a result is computed from | `Turn` is a turn of the odometer, `Run` a kernel that indexes from its counters |
| `KernelMeaning` | the operators in coordinates, without strides; `IsCall`, the calls there are | the reference `Kernels` is compared with |
| `CostModel` | `cost_model.py` | `Estimate` of a call beside the work of its kernel |
| `MC*` | constants for TLC; `MCGraphs` holds the small graphs | |

**Dispatch.** `pc` is the position in the function: `idle` (not called), `loop`
(the head of the while), `poll` (3a), `scan` (3b and, once the row index is past
the last row, 3c). `cursor` is the index `k` or `i` of the loop in progress.
`dep`, `ready`, `done` are the three fields of `g_sunit_states`; `slotOp` and
`slotCh` are `s_inflight_op` and `s_inflight_ch`. A frame is one call, with its
own capability mask and deadline; `BeginFrame` resets what lines 549-559 reset
and nothing else, so whatever a faulted frame leaves behind is still there.
`starts`, `inOrder` and `span` are history for the properties. The waits before
a kernel, the kernel, the advance and the deadline test are one action
(`RunKernel` or `MissDeadline`), since nothing runs in between. A computation's
data, the shape guard (which the generator makes unreachable) and telemetry are
left out.

**Dataflow.** The refinement maps the started rows to the rows with a start in
`starts`, the completed rows to those that are `done`, and the verdict to the
status of the frame. Every turn of a loop that starts or completes no row is a
stutter.

**MemoryPlan, Lowering and MemoryDispatch.** A graph is its operators with the shapes of
its activations. A value is named by the tensor it belongs to, so a block of the
arena holds "the value of t" or garbage: a row whose operands hold what they stand
for writes what its result stands for, any other row writes garbage. That is all
the properties need to tell whether a buffer was given away too early, and it
leaves the arithmetic out. A view stands for the same value as its operand
(`kernels_ref.c:130-151`). `MemoryPlan` makes the tables, and validates after pruning
as `main.py:56-57` does: every name has a tensor (`NamesKnown`), each tensor one writer,
which comes first (`IsValid`). `SequentiallySound` says that rows run by index compute
the graph's outputs with the tables, each operand being held from the row that writes
it to the last that reads it. `MemoryDispatch` runs the same tables in the order of
the scheduler. The operand has to be held because
a kernel that misses the deadline may be one that started out of turn: its row
never completes, so the frame still counts as one whose rows complete in order.

`ArenaLayout` says what `ArenaAlloc` computes: each buffer at the lowest offset that
fits, first the foremost of those that are left. Among buffers of equal size or
range any fixed order stands for the code's order of names.

**Pipeline.** Data is symbolic: a value is the term of operators it results from,
and fused operators, absorbed weights and folded constants are read back as the
terms they stand for. So `Outputs(g)` can be compared before and after each pass.
The key under which a tensor is stored and the name it carries are two things, as
in the code, since absorption changes one of them. A constant records the element
type its bytes are laid out in beside the one it declares. The sweeps of folding
and fusion repeat until nothing changes, and each sweep is a step. `IsIngested` says
what graphs ingestion leaves, over all eight element types of `ir.py`; operands and
results have the types that ONNX's type constraints allow (`HasType`).

**ConstantFold.** Folding fails in two places, and both are modelled: the bytes of an
operand may not make an array of its type and shape (`Readable`), and numpy may refuse
to evaluate. Element types follow numpy: the quotient of integers is a float64, a Cast
to a type outside the table is a float32. The folded tensor takes the shape of the array.
Values stay terms, so the arithmetic on shapes in `_eval_op` is not worked out: two
parameters say for which terms numpy raises (`EvalRaises`) and for which it computes
something else than ONNX defines, and of what shape (`EvalShapes`). The runs give
them a Reshape with a 0 among its dimensions, a Flatten with a negative axis and an
Unsqueeze with negative axes; the theorems hold whatever they are. That Shape
ignores its attributes is modelled as such.

**Ingest.** The code takes ready nodes first come, first served; the model takes
any of them, so what holds does not depend on the order of the queue. The validation
that ends ingestion looks up the inputs and the outputs of every node, so an unnamed
optional one of either kind is an unknown tensor (`NoneAbsent`); and it refuses an
activation without a static shape (`StaticShapes`).

**Kernels.** Arithmetic is left out: the result of a call maps each flat index to
the set of its terms, a term being the flat indices of the operands that are
multiplied or combined. Kernels that walk an odometer keep offsets by adding
strides and subtracting them at a carry; these are variables of the model, and
one action is one turn. `KernelMeaning` says in coordinates what the operator is, and
in `IsCall` what a call is: operands and attributes the ONNX checker lets through, and a
result of the shape its inference gives. `CostModel` charges the same calls.

**ArenaAlloc.** Sorting is modelled by its effect: `Pick` takes the least
unplaced tensor of the order, `Pass` and `Break` the lowest block still ahead.

## 3. Runs

| run | instance | shows |
|---|---|---|
| `dma_service` | 2 channels, 3 jobs, sizes 0, 16, 33 at 16 bytes a cycle, horizon 5, one reset | exactly-once copies, bandwidth, refinement of `DmaContract` |
| `lowering` | 7588 graphs of three operators, of two kinds. Over a vector and a scalar: unary, binary (broadcast or not), views, products with a staged weight, every choice of operands, an inner tensor that is an output or not. Over NPU and CPU operators: weights that are shared, private, repeated, one byte under and exactly at the threshold | no pass raises and both validations pass; the plan is sound; images are well formed; constants are fetched once and awaited; no data changes |
| `dispatch` | the 251 images of `DispatchGraphs`, 2 channels, two frames, three masks, deadlines none and 80 | the scheduler's twelve properties, refinement of `Dataflow` among them |
| `arena` | 4 tensors, sizes 0, 64, 100, four live ranges | no overlap, lowest offset, bound below the arena |
| `memory_dispatch` | the 81 images planned from graphs of three operators, with up to three loads; two frames, two masks, deadlines none and 80 | ordered frames are exact |
| `pipeline` | graphs of three operators, convolutions or products, with normalisation, elementwise and constant operators over every choice of operands; operators on constants of each element type, among them every way in which numpy raises or deviates, whose results are folded further; fans of one tensor | each pass keeps the function, no needless refusal, the compiler ends |
| `ingest` | models of three nodes over every choice of inputs and outputs, unnamed inputs and outputs, tensors with two producers and a result of dynamic shape included | the sort is topological and complete, or the model is stuck |
| `kernels` | small calls of every kernel modelled: ranks up to 3 or 4, dimensions 1 to 3, all permutations, axes, groups, pads before and behind, windows, and slices whose bounds and steps are negative, out of range or too wide | every element from the right operands, means over the right number, the cost covers the work |
| `gated_too_early` | one frame, full mask | finding 1 |
| `view_overwritten` | the graphs of `lowering` | finding 2 |
| `reused_too_early` | the images of `memory_dispatch`, one frame | finding 3 |
| `attributes_frozen` | a convolution with pads, then Relu | finding 4 |

Why the bounds are enough: two channels and up to four loads give full channels,
refused submits, transfers that land in either order and stalls with one and two
waiting slots; two frames give a fault followed by a clean frame, with every kind
of fault; a deadline of 80 falls between the spans of the images. Three jobs on
two channels give reuse of a channel. Four tensors give a gap between blocks that
may overlap each other. The last row of a graph reads both earlier ones, so a row
is released by either predecessor last. Three operators are enough for the
aliasing cases: a view, an in-place write through one of its names, and a reader of
the other; chains of two aliases; and a buffer that is free after its reader and
taken by the next row. Sizes of one, two, four and more blocks make gaps that fit and
gaps that do not.

Three operators are also what the rewrites look at: a producer, the operator merged
into it, and somebody else who reads what they share.

Numbers that stand for larger ones: `MaxSuccessors` is 2 with a tensor of three
readers, for 16 with 17; `IntSpan` is 16 and the bound "to the end" 31, for 2^32 and
the largest 64-bit integer, which wraps to -1 in both; `ElemsPerCycle` and
`MacsPerCycle` are 2, for 8 and 4, which rounds away less of a small call.

`CHECK_DEADLOCK FALSE` is set where the system stops by design: the compiler when
the image is written or refused, the sort when every node is sorted or stuck, a
kernel and the allocator when they return, the dispatcher's caller after the last
frame of the bound.

**Fairness.** `FrameTerminates` is checked under weak fairness of `Scheduler`, all
actions of the function together: it is straight-line C that nothing blocks, so
while it can take a step it will. `BeginFrame` has no fairness, since whether the
caller runs another frame is its own choice. `CompilerTerminates` is checked under
weak fairness of `Next`: the compiler is one sequential process.

**Properties worth a word.**

* `WireAgreement`: slots and channels, kept in two files, agree one to one.
* `InputsResident`: nothing starts before its predecessors are complete and its
  staged operands copied.
* `CountersExact`: dependency counts equal the number of predecessors to come,
  in every order of completion; a row starts at most once.
* `StatusIsTruthful`: OK means all rows ran in time, each error code its cause,
  and `ERR_DEADLOCK` never happens with a compiled image.
* `MakespanBounds`: the clock lies between the work done and the serial sum.
* `FramesAreIndependent`: every frame that returns OK takes the same time, also
  after a fault with transfers on the wire.
* `StallsOnlyWhenStuck`: the clock jumps only if no compute row can start.
* `ImplementsDataflow`: a frame is a frame of `Dataflow`, whatever the clock, the
  channels, the power mask and earlier faults do.
* `PlanningNeverRaises`: no graph of the instance trips a check of the compiler
  after the passes before it have run.
* `PlanIsSound` leaves out two sets of graphs, named in `MemoryPlan`:
  `OverwritesTooEarly` (finding 2) and `InputNotReserved` (section 4). On all others the aliases, the folded
  ranges, both layouts and the table fit together.
* `OrderedFramesAreExact`: if the rows of a frame complete by index, the frame reads
  and returns what the sequential plan does, whatever the transfers, stalls and
  earlier faults. `LoadFreeFramesAreOrdered` says when that is certain. Together
  they are what is true of buffer reuse; finding 3 is what is not.
* `PoweredInOrder`, `SleepsBetweenFrames`: what is true of the power manager.
* `PassesKeepTheFunction`: a step of the compiler changes no output of the graph,
  as a term over the inputs; `RefusesOnlyWhatItMust`: a graph of supported
  operators that fit the tables reaches the image, unless for a reason of section 4.
* `SortIsTopological`, `SortIsComplete`, `OnlyStuckModelsRefused`: the counting sort
  counts an input once per mention and a delivery once per producer. With two
  producers of a tensor a count reaches zero too early; the order is then not
  topological, but every node is still sorted once.
* `OffsetsFollowCoords`: the offset a walking kernel keeps is at each turn the one
  its coordinates have; `ElementsExact` and `MeansExact` compare the result with
  `KernelMeaning`.
* `InPlaceReadsFirst`: at each turn the element read from the first operand is the
  one about to be written, which is what alias analysis relies on.
* `CostCoversWork`: a row is charged for at least the products or elements its kernel
  goes through, so that WCETs are no underestimates at the documented rates.

Several properties except named cases, in which the code does something else. Each
of these cases is needed: TLC refutes the property without it. They are listed in
section 4.

## 4. Findings

Each is a run that TLC ends with a counterexample:

1. `gated_too_early`: `README.md:86-87` and `123-124` of the repository say a
   domain is on from before its first row until after its last, on the ground that
   rows execute in ascending index order. They do not while a DMA row is on the
   wire: rows with higher indices run first. A row then runs on a domain that has
   already been gated or was never woken.
2. `view_overwritten`: `alias_analysis.py:92` and `101` look up the last use of the
   operand's name, not of its buffer. If another name of that buffer (a view taken
   earlier, or the tensor the operand is a view of) is read later or returned, the
   in-place operator destroys it. Lines 15-16 promise a dead operand.
3. `reused_too_early`: live ranges are in row indices, and the scheduler does not run
   rows by index while a load is on the wire. A row that waits for its weights can
   find its operand overwritten by a row with a higher index to which the arena gave
   the same bytes. `liveness.py:12-13` says the slot can be reused after the last
   reader by index.
4. `attributes_frozen`: `_emit_params` (`c_generator.py:213`) has a case for Conv and
   none for Conv_Relu, so a fused convolution is emitted with NULL parameters.
   `README.md:71-74` says that attributes reach the kernel and that NULL means the
   ONNX defaults.

Deviations that the passing properties name as exceptions, all needed:

| exception | code | what happens |
|---|---|---|
| `InputNotReserved` | `liveness.py:135` | the -1 of a graph input is taken for "unset" and replaced by the first row of an alias, so the input's bytes look free before that row, after the caller has written them |
| `RewritesShared` | `bn_absorb.py:139` | a weight or bias that is read elsewhere, by another operator or as another operand, is scaled there too |
| `LeavesBias` | `bn_absorb.py:143` | a bias computed at run time stays as it is |
| `ScalesBias` | `bn_absorb.py:144` | the new bias of a Gemm with a beta is scaled by it |
| the producer's output is a graph output (in `AbsorbsWrongly`) | `bn_absorb.py:154` | the caller gets the normalised value under the producer's name |
| `AbsorbsUnfused` | `bn_absorb.py:154-155` | the absorbed output is stored under one key and named by another; unless fusion takes it, a later pass does not find it |
| `EpilogueFits` | `fusion.py:62` | a bias of one element passes for a row of biases, which the kernel indexes by column |
| `Mistyped`, `ReadsMislaid` | `constant_fold.py:81`, `86-90`, `130` | a folded constant has the bytes of numpy's type under the declared one: a quotient of integers, a Cast to a type that is not in the table; whoever reads it misreads it or, if the number of bytes is wrong, raises, although lines 105-106 promise that what can be computed is evaluated |
| `Miscomputed`, `FoldsOtherwise` | `constant_fold.py:49`, `53-54`, `71-72`, `95` | numpy refuses what ONNX allows (a 0 in the shape of a Reshape, a negative axis of Flatten) or computes something else (several negative axes of Unsqueeze, Shape with a start or an end) |
| `Frozen` | `c_generator.py:213` | finding 4, and the other operators without a case |
| `SuccessorsFit` | `c_generator.py:139`, `tinyos.h:193` | the number of successors is not checked against the sixteen a row has room for |
| `NoneAbsent` | `ir.py:166-167` | an absent optional input or output is an unknown tensor, the model is refused |
| `StaticShapes` | `ir.py:174-180` | by design: a shape that is not known is refused |
| `ScalesUp` | `kernels_ref.c:902`, `933` | ReduceMean multiplies by the count |
| `TooWide`, `WrapsAround` | `kernels_ref.c:971`, `995` | a 64-bit slice bound becomes an int: "to the end" becomes -1, and the slice is refused; it is not, and takes the wrong elements, if a start wraps, or the end of a slice backwards, and the extents agree all the same |
| `ColumnBias` | `kernels_ref.c:435` | a column of biases of a Gemm is indexed modulo its length |
| `CountsPadding` | `kernels_ref.c:612` | an average over a window that reaches into the padding, before or behind, is divided by the whole window |
| `BatchOfFirst` | `cost_model.py:71` | a batch that only the second operand of a MatMul has is not charged |
| GlobalAveragePool (in `CostCoversWork`) | `cost_model.py:114` | charged for its output, not for its window |

One more is not a property: the comment at `c_generator.py:648` says that at a stall
the clock advances to the next completion; the loop at 650-653 keeps the last
waiting slot, whose completion can be later. Frames then end later than they need
to, within `MakespanBounds`.

## 5. Theorems

Proved for all constants that satisfy the modules' named assumptions. Each of these
is evaluated by TLC on the instances of section 3.

**The runtime.**

* `DispatchProofs`: `TypeCorrect`, `WiresAgree`, `InputsAreResident`,
  `CountersStayExact`, `StatusTellsTheTruth`, `JumpsOnlyWhenStuck`. They follow from
  one inductive invariant, `IInv`, since none of the properties is inductive alone:
  * `CountsInv` and `StartsInv` (together `TableInv`, once a frame has begun) tie
    counts, ready flags, starts and `landed` to the rows that are done. That a row
    never starts twice needs `StartsInv` and the slots at once: a started row is done
    or in flight, and `Startable` excludes both.
  * `SlotsInv` (`WireInv`) is `WireAgreement` with two additions: a row in a slot is
    a DMA row that is not done. Slots and busy channels being one to one, a free
    channel means a free slot (`SlotForEveryChannel`, by counting), which is why the
    code may drop the index of a submitted transfer if no slot is free: it never is.
  * `ProgressInv` records what a sweep has learnt while `progress` is false: slots
    behind the cursor are on the wire, rows behind it are blocked. At a stall that
    holds of all slots and rows. If no slot were waiting, no row would be startable;
    but the least row not done has all predecessors done (`LeastElement`), so its
    count is 0 and it is. Hence `ERR_DEADLOCK` is never returned.
  * `DeadlineInv` says that a frame with nothing left to run is on time. Kernels
    are checked as they finish, transfers are not: the step that could break it is a
    last row that is a transfer, and `LoadsAreUsed` (every load has a compute row
    that reads it) excludes that.

  Three more rest on `IInv`:
  * `Refines` (`Spec => ImplementsDataflow`), one lemma per action: a row that starts
    had not started (`StartsInv`), its predecessors are done (`CountsInv`), and a
    frame that returns OK has completed all rows.
  * `ClockIsBounded` (`MakespanBounds`). `TimeInv` bounds the due cycle of every
    channel, free or busy, by the cost of the rows that have started, and the clock
    by the same sum, so a stall, which jumps to a due cycle, stays below it.
  * `FramesOweNothing` (`FramesAreIndependent`). It compares two runs, and no state
    holds both. So what a frame does next is written as a function of a view of the
    state (`Turn`: rows done, slots, channels, clock, position), every action is shown
    to be that function, and `EndsAt` is the set of views from which turns end with
    the clock at a given time. Each frame's first view is the same, also after a
    fault, and a turn does not leave `EndsAt` (`SpanInv`).

  Assumptions: at least one channel, a positive bandwidth
  (`EngineAssumption`), masks of devices and natural deadlines (`FramesAssumption`),
  and `WellFormed` images (`ImagesAssumption`). The last is what
  `EmittedImageIsWellFormed` proves of every image the compiler emits.

* `DispatchProofs`, on frames whose rows complete in order: `SleepsInBetween`,
  `PoweredIfOrdered`. In any order of completion, a
  domain is on from the completion of the row before its window to that of the last
  row in it (`WindowsOpen`); that entries name different domains is why closing one
  window cannot gate another's domain. While rows complete in order, the complete ones
  are the first ones (`DoneIsPrefix`), so the next row's window has opened and not
  closed. Finding 1 is what happens without the prefix.
  * `LoadFreeIsOrdered` (`MemorySpec => []LoadFreeFramesAreOrdered`). Nothing is on the
    wire, so behind the cursor all rows are done, and the row at the cursor, whose
    predecessors are behind it, is ready.
  * `FramesAreExact` (`MemorySpec => []OrderedFramesAreExact`). The arena is compared
    with that of the run by index after as many rows as are done (`FollowsTheRun`): it
    has whatever that one has, and may have more, since a transfer lands as soon as
    it can. A row that is ready finds its operands (`ReadyReadsIntact`), because its
    predecessors are done and an operand, once written, is held until its last
    reader; so what it writes is what it writes in the run (`NextOfTheRun`). A copy
    writes what its load stands for at any time (`LandFacts`). That the run is sound
    to the end means it is sound at each row before (`SoundRun`, downwards).
    Assumption: `MapsAssumption`, that loads read nothing of the arena, that a row
    waits for the writers of its operands, and that `sound` is what it claims. TLC
    evaluates it on compiled images, and `TablesFitTheArena` proves it of every image
    the compiler emits.

* `DmaProofs`: `TypeCorrect`, `MovesOnce` (`Spec => []ExactlyOnce`), `WithinCapacity`
  (`Spec => []FabricCapacity`) and `ContractKept` (`Spec => ImplementsContract`).
  `ExactlyOnce` counts landed jobs and busy channels,
  so `IInv` adds that `landed` is finite, and `FreeIsPast`: the due time a free
  channel still holds is in the past, without which waiting for it would move the
  clock and the refinement would fail. Capacity is a sum over the channels of which
  a submit changes one term. The contract's pending transfers are what busy
  channels carry; that there are fewer of them than channels when one is free is by
  counting.
  Assumptions: natural sizes and steps (`ServiceAssumption`), `EngineAssumption`.

**The compiler.**

* `ArenaAllocProofs`: `TypeCorrect` and `ArenaIsSafe` (`Spec => []SlotsAreSound`).
  `SlotsAreSound` is not inductive: while a tensor is being fitted, nothing in it
  says why the final candidate is free. `ScanInv` adds that each conflicting block
  behind the scan ends at or below the candidate, unless the scan has stopped at a
  block that leaves room, and that candidates and block ends are aligned. Blocks
  come by ascending start, so stopping at one clears those above; alignment is why
  rounding up a slot's end cannot reach the block above (`AlignUpStaysBelow`).
  * `FirstFit` (`Spec => LowestOffset`) adds `LowestInv`: every aligned address below the
    candidate is taken. When the scan passes a block, there was no room below it, so
    each address it leaves behind reaches into the block.
  * `PeakIsReached` (`Spec => []PeakIsLowerBound`): tensors live at one time have
    disjoint blocks below the end of the arena, so their sizes add up to no more than
    that; by induction over such a set, taking out the highest.

  Assumptions (`ArenaAssumption`): tensors are finitely many naturals, sizes are
  naturals, ranges are not empty, the alignment is positive.

* `LoweringProofs`, about every graph the planner may be given:
  * `LoadsAreSharedAndAwaited` (`FetchedOnceAndAwaited`) and `RoutingChangesNoData`
    (`ReadsTheSameData`). Routing is an induction over the source rows. What it
    keeps (`Partial`) is more than either property: the rows so far other than loads are
    the operators in order, the loads are those of the constants marked staged, one
    each, and each lies before the readers of its buffer.
  * `EmittedImageIsWellFormed` (`ImageIsWellFormed`): types, the lists of successors and
    predecessors agree, predecessors have lower indices, every load has a reader
    that computes, and every domain's window spans its rows. It follows from what
    routing has made of the rows and from the topological order of the source
    (`RoutedInOrder`).
  * `PlanningSucceeds` (`PlanningNeverRaises`): each name stays in the table, staging
    adding the buffers it names; writers stay single and ahead of their readers; every
    buffer's root is in the arena and survives pruning; a view has its operand's size
    and an in-place result its operand's, so both fit.
  * `PlansAreSound` (`PlanIsSound`), the longest argument, in `MemoryProofs`. The end of a
    tensor's chain of aliases is found by the one pass the code makes
    (`RootsFollow`), and comes first (`RootsComeFirst`), so the folded range reserves
    the buffer from the first row that writes it to the last that reads one of its
    names (`RangesReserve`). Either layout keeps buffers apart whose ranges meet
    (`PlaceAllKeeps`, `AllocateKeeps`). So if the result of a row shares a block with
    something wanted later, the row is a view, which leaves the bytes as they are
    (`OnlyViewsShare`). Then a row of the run
    keeps what later rows want (`RowKeeps`), and the run is sound by induction
    (`ArrangedIsSound`). Each of the two exceptions enters once: `OverwritesTooEarly`
    where a name of a buffer outlives an in-place row, and `InputNotReserved` where a
    graph input must be reserved before row 0.
  * `TablesFitTheArena`: what `FramesAreExact` assumes of an image, for every image
    emitted. With `PlansAreSound` it follows that a graph outside the two exceptions is
    computed exactly by every frame whose rows complete in order.

  Assumptions: `TableAssumption` (sizes and WCETs are naturals); `AlignmentAssumption`;
  `AssignmentAssumption` (constants are tensors with natural sizes and the threshold is
  natural); and `PlanAssumption`, that a graph is one the passes before the planner can leave
  (`IsSource`). Its parts are justified so. Ingestion sorts (`Topological`), the
  passes before the planner keep the order (the `pipeline` run), and a graph
  whose order they broke would be refused anyway (`main.py:57`). Activations have static
  shapes and every name is in the table: ingestion ends with `validate`
  (`onnx_ingest.py:301`, `ir.py:163-180`), which refuses a model without; the passes up to
  fusion keep a tensor for every name (`Sound`, in `PassesInvariant`). That an operator writes no graph input, and that the five view
  operators keep the number of elements, are rules of ONNX. Staging buffers have
  names of their own by the prefix and counter of `device_assignment.py:52-53`.

* `FrontEndProofs`, the sort: `Topological`, `Complete`, `RefusedIsStuck`. The count of a node is at
  most the number of its inputs that nothing sorted produces, and equal to it with
  single producers (`Counted`); that a node is ready or sorted exactly when its count
  is not positive (`Apart`) keeps a node from being sorted twice. A refused model's
  nodes that are not sorted are the stuck set. Assumption: nodes have sequences of
  inputs and sets of outputs (`ModelsAssumption`).

* `FrontEndProofs`, what the passes refuse: `PassesInvariant` (`Spec => []PassInv`) and `Refusals`
  (`Spec => []RefusesOnlyWhatItMust`). That the generator raises is about the graph at
  the end, the excuses are about the source. `PassInv` says what lies between:
  * At every stage the graph is `Sound`: sorted, each name in the table, operators of
    their arity, no constant written. A sweep is a recursion over the operators; for each
    an invariant (`SweptTo`, `AbsorbedTo`, `FusedTo`) says which operators are gone, which
    are merged, and what has become of the tensors. The operators that are left are the
    old ones at ascending indices (`Thinned`). The order survives (`OrderKept`) because a
    merged operator stands where its producer stood, reads what that one read and constants,
    and writes what its partner wrote, further down. No two operators merge
    with the same partner: the tensor between them has one reader and one writer.
  * While folding lasts, `FoldPhase` compares with the source: operators are the
    source's own, a tensor becomes constant only with all that it was computed from, and
    each constant is `Explained`: its bytes are in its type unless the source makes them
    otherwise (`Mislaid`), and if no such tensor is read and numpy computes what ONNX
    defines, it has the value and the shape the source gives it. So what folding
    fails over, to read or to evaluate, is named in terms of the source.
  * When nothing is left to fold (`Settled`), an operator without a kernel is one that
    cannot be computed from constants in the source either (`Unsupported`).
  * After absorption a graph without excuse is `Healthy`: all it reads is supplied, it
    fits the tables, and a tensor carries the name it is stored under, except for
    one that lies between a product and a Relu (`Passing`). Fusion merges every
    such pair (`PassingFuses`), so none is named when it ends (`ProperlyNamed`), pruning drops
    the tensor, and the generator takes the rest (`Accepted`).

  Assumptions: `SourceAssumption`, that a source graph is one ingestion may leave
  (`IsIngested`). Its parts are justified so. Ingestion sorts (`Topological`), validates
  names (`onnx_ingest.py:241-302`) and stores each tensor under its own name. That a tensor
  has one writer, and none if it is an input or an initializer, that graph outputs are
  computed, how many operands an operator has and of what types they may be are rules of ONNX,
  for which ingestion relies on the model; types of results are those of shape inference
  (`onnx_ingest.py:176`), and any of the eight that `ir.py:47-56` accepts. A name
  that starts with `__bn_absorbed_bias_` is absorption's (`bn_absorb.py:148`).
  `LimitsAssumption`: an operator may have three operands, as fused ones do (`MAX_OP_INPUTS`
  is 16).

* `FrontEndProofs`, what the passes keep: `FunctionKept` (`Spec =>
  PassesKeepTheFunction`), from `PassInv` and the same assumptions.
  * `Values` computes operator by operator; the proof works with what comes out:
    `Means(graph, V)` says that V agrees with every operator at once. In a sound graph
    `Values` does (`ValuesMean`), and nothing else does (`OneMeaning`), both by induction
    over the list, since an operator reads only what stands before it. A pass keeps the
    function if the values of the old graph, where the new one still computes them,
    and its constants elsewhere (`Carried`), agree with the operators that are left and
    with the old values at the outputs (`CarriedOver`).
  * Folding: what is folded into a constant is what the operator computes
    (`FoldMeans`), if every constant is in the type its tensor declares (not `Mistyped`) and
    none is something numpy computes otherwise (not `Miscomputed`).
  * Absorption writes to tables that other operators read. Outside `AbsorbsWrongly` the weight
    and the bias of an absorbing operator have no other reader, and the bias that it makes
    up is named after its output (`NewNames`, `PaintsApart`), so one rewrite spoils no other
    (`PaintStep`): each weight is scaled, and each bias shifted, once, by the figures of its own
    BatchNorm. The product of those is the BatchNorm of the old product
    (`ProductAbsorbs`, `ProductWithBias`).
  * Fusion: what a merged operator no longer writes only its partner read
    (`FusionHides`), and the merged operator computes what the partner computed (`FusionComputes`).
  * Pruning drops what no operator reads; emission is the identity outside `EmitsWrongly`.

* `KernelProofs`, about every call there is, of any rank, extents and attributes:
  * `OffsetsFollow` (`OffsetsFollowCoords`). A row-major stride is the number of elements
    behind its dimension (`WeightFacts`), so a flat index is a number with a digit for each
    dimension, below the number of elements (`FlatInRange`) and one for each element
    (`FlatInjective`). `OdometerInv` says that the offsets are those of the coordinates
    and that the coordinates are the digits of the count of turns. A turn adds the
    stride where the carry stops and takes back one less than that many elements
    (`TurnDot`, `WrappedCounts`), so the count goes up by 1 and each offset follows. That
    offsets stay inside is kernel by kernel (`StaysInside`): a stride of 0 is
    a dimension stretched, reduced or left out, and the other strides are a shape's own.
  * `InPlaceSafe` (`InPlaceReadsFirst`): an operand of the result's shape has the result's
    strides, so its offset is the count of turns.
  * `Exact` (`ElementsExact`). One lemma per kernel says that the offsets of a turn, or the
    loop counters of the others, name the elements of `Meaning`: `BroadcastMeans`,
    `TransposeMeans`, `SliceMeans`, `ReduceMeans`, `BatchedMeans`, `GemmMeans`, `ConvMeans`,
    `PoolMeans`, `GlobalMeans`, `SoftmaxMeans`, `ConcatMeans`. `DataInv` then says what has
    been written after so many turns: all elements up to the count, or, for a
    mean, the terms whose own index is below it. Slices are the longest part: which
    positions are selected from bounds of either sign that become ints, how many
    they are (`SelectedPositions`), and that a refused one goes backwards or is too wide
    (`OnlyRefuses`).
  * `MeanDivides` (`MeansExact`). `DivisorInv` says what each element is divided by when the
    kernel returns. A window that stays off the padding has one element for each tap
    (`WindowCounts`), since a tap is found again from the position under it.
  * `CostCovers` (`CostCoversWork`). `CostInv` says that an element written so far has taken no
    more than its share of the charge (`Light`), garbage included, and that the elements
    of a mean have together read one input per turn; the rest is a sum over the elements
    and the product of the extents it is charged with (`ChargesAll`, `ChargesElements`).

  Assumptions: `CallsAssumption` (shapes are sequences of naturals, an int has some width);
  `RatesAssumption` (both rates are positive); and `ShapesAssumption`, that calls are calls
  (`IsCall`). The rules in `IsCall` are those of the ONNX checker and shape inference, which
  ingestion runs first. That no extent is 0 is the code's own: ingestion turns one into
  -1 (`onnx_ingest.py:82-85`) and `validate` refuses it (`ir.py:174-180`). That MatMul has
  matrices, not vectors, is what its kernel documents (`kernels_ref.c:293-294`). The
  extents that a Slice selects from fit an int.

**Induction.** The library's induction theorems take a predicate as a parameter, which
the provers at hand cannot instantiate. `DataInduction` states induction with the
hypothesis as a set (`NatInductive`, `FiniteInductive`): to prove P for all naturals,
apply it to {n \in Nat : P}. From that come the functions defined by recursion
(`RecursionExists`), the folds of the community modules (`FoldExists`) and sums over
finite sets (`SumUnfolds`, `SumChanged`, `SumMonotone`), which is what the bounds on
clock, wire, arena and cost are about, the products and dot products of the kernels
(`NumelUnfolds`, `AddingUp`), and the passes over operators and rows.

**What stays with TLC.**

* Liveness, `FrameTerminates` and `CompilerTerminates`: fairness and ENABLED are out of
  the prover's reach. Everything else that a passing run checks is also proved.

## 6. Not modelled, and what is left

Not modelled, and why:

* The text of the C source, reports and identifiers: `c_generator.py:697` maps two
  tensor names that differ only in punctuation to one identifier, which the C
  compiler then refuses; the rest is layout.
* Where an operator's attributes are, which depends on the opset
  (`c_generator.py:298`): attributes are part of an operator here.
* Protobuf parsing and shape inference of `onnx_ingest.py`: the work of the onnx
  package; models and graphs have shapes from the start.
* Floating-point arithmetic: values are terms. The kernels that touch one element at
  a time (activations, elementwise functions) and the two normalisations have no
  index arithmetic of their own and are left out.
* Tests, build files and sample output.

Every safety and action property of a passing run has a theorem in section 5. Left to do:
the attributes that moved to operands in later opsets, and the index arithmetic of the
kernels that are left out.
