--------------------------- MODULE DispatchProofs ----------------------------
(***************************************************************************)
(* What the scheduler guarantees for every image that is well formed,      *)
(* every number of channels, bandwidth, capability mask and deadline:      *)
(* types, agreement of slots and channels, operands in place before a row  *)
(* starts, exact counters, and truthful status codes, among them that      *)
(* ERR_DEADLOCK is never returned.                                         *)
(*                                                                         *)
(* The inductive invariant has one part per piece of state.  TableInv ties *)
(* the dependency counters to the rows that are done; WireInv ties the     *)
(* slots to the channels; ProgressInv says what a sweep without progress   *)
(* has established so far: every slot behind the cursor is still on the    *)
(* wire, every row behind it is blocked.  At the end of such a sweep the   *)
(* least row not done would be startable if nothing were on the wire, so   *)
(* something is, and there is no deadlock (StallHasWaiting).               *)
(*                                                                         *)
(* From the same invariant: frames implement Dataflow, one lemma per       *)
(* action; the clock stays within the work done and the cost of what was   *)
(* started, by sums over the rows; and frames that return OK all take the  *)
(* same time, since what a frame does depends on nothing but its view of   *)
(* rows, slots, channels and the clock.                                    *)
(*                                                                         *)
(* Last, frames whose rows complete in ascending order, and which frames   *)
(* those are (the ones without loads): power domains are on when they are  *)
(* used, and operands are in the arena when they are read.                 *)
(***************************************************************************)
EXTENDS MemoryDispatch, MemoryProofs

StatusInv ==
  /\ Running <=> status = "running"
  /\ status = "none" => \A i \in Ops : starts[i] = 0

CountsInv ==
  /\ \A i \in Ops : dep[i] = Cardinality(Pending(i))
  /\ \A i \in Ops : ready[i] => dep[i] = 0
  /\ \A i \in Ops : dep[i] = 0 => ready[i] \/ done[i]
  /\ uncompleted = Cardinality(Undone)

StartsInv ==
  /\ \A i \in Ops : starts[i] > 0 => dep[i] = 0 /\ starts[i] = 1
  /\ \A i \in Ops : done[i] => starts[i] = 1 /\ (img.device[i] = "DMA" => i \in landed)
  /\ \A i \in Ops : InFlight(i) => starts[i] = 1
  /\ \A i \in Ops : Running /\ starts[i] > 0 => done[i] \/ InFlight(i)

TableInv == status # "none" => CountsInv /\ StartsInv

SlotsInv ==
  /\ \A k \in Channel : slotOp[k] >= 0 =>
       /\ slotOp[k] \in Ops /\ img.device[slotOp[k]] = "DMA" /\ ~done[slotOp[k]]
       /\ slotCh[k] \in Channel
       /\ chan[slotCh[k]].busy
       /\ chan[slotCh[k]].job = slotOp[k]
  /\ \A c \in Channel : chan[c].busy =>
       \E k \in Channel : slotOp[k] >= 0 /\ slotCh[k] = c
  /\ \A k, l \in Channel :
       slotOp[k] >= 0 /\ slotOp[l] >= 0 /\ (slotCh[k] = slotCh[l] \/ slotOp[k] = slotOp[l])
         => k = l

WireInv == status # "none" => SlotsInv

OnTheWire(k) == slotOp[k] >= 0 => now < chan[slotCh[k]].doneAt

\* Not a row to start now, or one with no channel to go on.
Blocked(j) == Startable(j) => img.device[j] = "DMA" /\ AllBusy

ProgressInv ==
  /\ pc = "poll" /\ ~progress => \A k \in Channel : k < cursor => OnTheWire(k)
  /\ pc = "scan" /\ ~progress =>
       /\ \A k \in Channel : OnTheWire(k)
       /\ \A j \in Ops : j < cursor => Blocked(j)

DeadlineInv == Running /\ deadline # 0 /\ Undone = {} => now <= deadline

IInv ==
  /\ img \in Images
  /\ TypeOK
  /\ StatusInv
  /\ TableInv
  /\ WireInv
  /\ ProgressInv
  /\ DeadlineInv
  /\ StatusIsTruthful

-----------------------------------------------------------------------------
\* Sets of rows.

\* Sets of rows are finite, and removing a row counts one down.
LEMMA RowSets ==
  ASSUME NEW n \in Nat, NEW S \in SUBSET (0 .. n - 1)
  PROVE  /\ IsFiniteSet(S)
         /\ Cardinality(S) \in Nat
         /\ Cardinality(S) = 0 <=> S = {}
         /\ \A x \in S : Cardinality(S \ {x}) = Cardinality(S) - 1
<1>1. IsFiniteSet(0 .. n - 1)
  BY FS_Interval
<1>2. IsFiniteSet(S)
  BY <1>1, FS_Subset
<1> QED
  BY <1>2, FS_CardinalityType, FS_EmptySet, FS_RemoveElement

\* What the assumption on images says of the one that is linked in.
LEMMA ImageFacts ==
  ASSUME img \in Images
  PROVE  /\ img.n \in Nat /\ Ops = 0 .. img.n - 1
         /\ img.device \in [Ops -> Device]
         /\ img.preds \in [Ops -> SUBSET Ops]
         /\ img.succs \in [Ops -> SUBSET Ops]
         /\ img.wcet \in [Ops -> Nat]
         /\ img.bytes \in [Ops -> Nat]
         /\ \A e \in img.plan : e.domain \in Device
         /\ \A i \in Ops : \A p \in img.preds[i] : p < i
         /\ \A i, j \in Ops : j \in img.succs[i] <=> i \in img.preds[j]
         /\ \A i \in Ops : img.device[i] = "DMA" =>
              \E j \in img.succs[i] : img.device[j] # "DMA"
<1>1. WellFormed(img)
  BY ImagesAssumption
<1>2. WellTyped(img) /\ Topological(img) /\ ListsAgree(img) /\ LoadsAreUsed(img)
  BY <1>1 DEF WellFormed
<1>3. \A e \in img.plan : e.domain \in Device
  BY <1>2 DEF WellTyped, PlanEntry
<1> QED
  BY <1>2, <1>3 DEF WellTyped, Topological, ListsAgree, LoadsAreUsed, Ops, RowsOf

\* There is at least one channel, and they are numbered from 0.
LEMMA ChannelFacts ==
  /\ Channel = 0 .. NumChannels - 1 /\ NumChannels \in Nat \ {0} /\ Channel \subseteq Nat
  /\ IsFiniteSet(Channel) /\ 0 \in Channel
  BY EngineAssumption, FS_Interval DEF Channel

\* The rows yet to run, counted.
LEMMA PendingFacts ==
  ASSUME img \in Images
  PROVE  /\ Undone \subseteq Ops
         /\ Cardinality(Undone) \in Nat
         /\ Cardinality(Undone) = 0 <=> Undone = {}
         /\ \A i \in Undone : Cardinality(Undone \ {i}) = Cardinality(Undone) - 1
         /\ \A j \in Ops :
              /\ Pending(j) \subseteq Ops
              /\ Cardinality(Pending(j)) \in Nat
              /\ Cardinality(Pending(j)) = 0 <=> Pending(j) = {}
              /\ \A i \in Pending(j) :
                   Cardinality(Pending(j) \ {i}) = Cardinality(Pending(j)) - 1
<1>1. img.n \in Nat /\ Ops = 0 .. img.n - 1
  BY ImageFacts
<1>2. Undone \in SUBSET (0 .. img.n - 1)
  BY <1>1 DEF Undone
<1>3. ASSUME NEW j \in Ops PROVE Pending(j) \in SUBSET (0 .. img.n - 1)
  BY <1>2 DEF Pending
<1> HIDE DEF Undone, Pending
<1> QED
  BY <1>1, <1>2, <1>3, RowSets

-----------------------------------------------------------------------------
\* Complete(i) keeps the counters exact.
LEMMA CompleteCounts ==
  ASSUME img \in Images, UNCHANGED img, TypeOK, CountsInv,
         NEW i \in Ops, ~done[i], dep[i] = 0, Complete(i)
  PROVE  /\ CountsInv'
         /\ \A j \in Ops : dep[j] = 0 => dep'[j] = 0
         /\ Undone' = Undone \ {i}
         /\ \A j \in Ops : done'[j] <=> done[j] \/ j = i
         /\ dep' \in [Ops -> Int] /\ ready' \in [Ops -> BOOLEAN] /\ done' \in [Ops -> BOOLEAN]
         /\ uncompleted' \in Int /\ progress' = TRUE /\ active' \subseteq Device
         /\ inOrder' \in BOOLEAN
<1> DEFINE isSucc(j) == j \in img.succs[i]
<1>1. /\ dep \in [Ops -> Int] /\ ready \in [Ops -> BOOLEAN] /\ done \in [Ops -> BOOLEAN]
      /\ uncompleted \in Int /\ active \subseteq Device /\ inOrder \in BOOLEAN
  BY DEF TypeOK
<1>2. /\ done' = [done EXCEPT ![i] = TRUE]
      /\ uncompleted' = uncompleted - 1
      /\ progress' = TRUE
      /\ dep' = [j \in Ops |-> IF isSucc(j) THEN dep[j] - 1 ELSE dep[j]]
      /\ ready' = [j \in Ops |-> \/ isSucc(j) /\ dep[j] = 1
                                 \/ ready[j] /\ ~(j = i /\ img.device[i] # "DMA")]
  BY DEF Complete, Release
<1>3. active' \subseteq Device /\ inOrder' \in BOOLEAN
  BY <1>1, ImageFacts DEF Complete, OnOpComplete, Domains
<1>4. dep' \in [Ops -> Int] /\ ready' \in [Ops -> BOOLEAN] /\ done' \in [Ops -> BOOLEAN]
  BY <1>1, <1>2
<1>5. \A j \in Ops : done'[j] <=> done[j] \/ j = i
  BY <1>1, <1>2
<1>6. Ops' = Ops
  BY DEF Ops
<1>7. Undone' = Undone \ {i} /\ i \in Undone
  BY <1>5, <1>6 DEF Undone
<1>8. uncompleted' = Cardinality(Undone')
  BY <1>2, <1>7, PendingFacts DEF CountsInv
<1>9. \A j \in Ops : isSucc(j) <=> i \in Pending(j)
  BY <1>7, ImageFacts DEF Pending
<1>10. \A j \in Ops : Pending(j)' = Pending(j) \ {i}
  BY <1>7 DEF Pending
<1> HIDE DEF isSucc
<1>11. ASSUME NEW j \in Ops
       PROVE  /\ dep'[j] = Cardinality(Pending(j)')
              /\ dep[j] = 0 => ~isSucc(j) /\ dep'[j] = 0
              /\ ready'[j] => dep'[j] = 0
              /\ dep'[j] = 0 => ready'[j] \/ done'[j]
  <2>1. dep[j] = Cardinality(Pending(j)) /\ dep[j] \in Nat
    BY PendingFacts DEF CountsInv
  <2>2. dep[j] = 0 => ~isSucc(j)
    BY <2>1, <1>9, PendingFacts
  <2>3. dep'[j] = Cardinality(Pending(j)')
    <3>1. CASE isSucc(j)
      <4>1. Cardinality(Pending(j) \ {i}) = dep[j] - 1
        BY <2>1, <3>1, <1>9, PendingFacts
      <4> QED
        BY <4>1, <3>1, <1>2, <1>10
    <3>2. CASE ~isSucc(j)
      <4>1. Pending(j)' = Pending(j)
        BY <3>2, <1>9, <1>10
      <4> QED
        BY <4>1, <3>2, <2>1, <1>2
    <3> QED
      BY <3>1, <3>2
  <2>4. ready[j] => dep[j] = 0
    BY DEF CountsInv
  <2>5. dep[j] = 0 => ready[j] \/ done[j]
    BY DEF CountsInv
  <2>6. /\ dep'[j] = IF isSucc(j) THEN dep[j] - 1 ELSE dep[j]
        /\ ready'[j] <=> \/ isSucc(j) /\ dep[j] = 1
                         \/ ready[j] /\ ~(j = i /\ img.device[i] # "DMA")
    BY <1>2
  <2> QED
    BY <2>1, <2>2, <2>3, <2>4, <2>5, <2>6, <1>5
<1>12. CountsInv'
  BY <1>6, <1>8, <1>11 DEF CountsInv
<1> QED
  BY <1>1, <1>2, <1>3, <1>4, <1>5, <1>7, <1>11, <1>12

\* A row that can be started has nothing left to wait for.
LEMMA StartableFacts ==
  ASSUME IInv, status = "running", NEW i \in Ops, Startable(i)
  PROVE  /\ dep[i] = 0 /\ starts[i] = 0 /\ ~done[i] /\ ~InFlight(i)
         /\ \A p \in img.preds[i] : done[p]
         /\ InputChannels(i) = {}
<1>1. ready[i] /\ ~done[i] /\ ~InFlight(i)
  BY DEF Startable
<1>2. CountsInv /\ StartsInv /\ SlotsInv /\ Running /\ img \in Images /\ TypeOK
  BY DEF IInv, TableInv, WireInv, StatusInv
<1>3. dep[i] = 0
  BY <1>1, <1>2 DEF CountsInv
<1>4. starts[i] = 0
  BY <1>1, <1>2 DEF StartsInv, TypeOK
<1>5. Pending(i) = {}
  BY <1>2, <1>3, PendingFacts DEF CountsInv
<1>6. img.preds[i] \subseteq Ops
  BY <1>2, ImageFacts
<1>7. \A p \in img.preds[i] : done[p]
  BY <1>5, <1>6 DEF Pending, Undone
<1>8. ASSUME NEW k \in Channel PROVE slotOp[k] \notin img.preds[i]
  <2>1. CASE slotOp[k] >= 0
    BY <2>1, <1>2, <1>7 DEF SlotsInv
  <2>2. CASE ~(slotOp[k] >= 0)
    BY <2>2, <1>2, <1>6, ImageFacts DEF TypeOK
  <2> QED
    BY <2>1, <2>2
<1>9. InputChannels(i) = {}
  BY <1>8 DEF InputChannels
<1> QED
  BY <1>1, <1>3, <1>4, <1>7, <1>9

\* Waiting on no channel at all is just an advance of the clock.
LEMMA WaitOnNothing ==
  ASSUME TypeOK, NEW cycles \in Nat, WaitThenAdvance({}, cycles)
  PROVE  now' = now + cycles /\ UNCHANGED <<chan, landed, copies, submits, xferCycles>>
<1>1. AfterWait({}) = now
  BY DEF AfterWait, TypeOK, EngineTypeOK
<1>2. now' = now + cycles /\ CompleteIfReady({}, now) /\ UNCHANGED <<submits, xferCycles>>
  BY <1>1 DEF WaitThenAdvance
<1>3. Due({}, now) = {}
  BY DEF Due
<1>4. chan' = [c \in Channel |-> chan[c]] /\ landed' = landed /\ copies' = copies + Cardinality({})
  BY <1>2, <1>3 DEF CompleteIfReady
<1>5. chan' = chan
  BY <1>4 DEF TypeOK, EngineTypeOK
<1>6. copies' = copies
  BY <1>4, FS_EmptySet DEF TypeOK, EngineTypeOK
<1> QED
  BY <1>2, <1>4, <1>5, <1>6

-----------------------------------------------------------------------------
\* The initial state.

\* Before the first frame no table has a meaning yet; nothing has been started.
LEMMA InitIInv == Init => IInv
<1> SUFFICES ASSUME Init PROVE IInv
  OBVIOUS
<1> USE DEF Init
<1>1. img \in Images
  OBVIOUS
<1>2. 0 \in Channel /\ NumChannels \in Nat
  BY ChannelFacts
<1>3. EngineTypeOK(Ops)
  <2>1. chan \in [Channel -> [busy : BOOLEAN, doneAt : Nat, job : Ops \cup {NoJob}]]
    BY DEF EngineInit, IdleChannel
  <2> QED
    BY <2>1 DEF EngineInit, EngineTypeOK
<1>4. active \subseteq Device
  BY DEF PowerInit, Device
<1>5. TypeOK
  <2>1. /\ dep \in [Ops -> Int] /\ ready \in [Ops -> BOOLEAN] /\ done \in [Ops -> BOOLEAN]
        /\ slotOp \in [Channel -> Int] /\ starts \in [Ops -> Nat]
    OBVIOUS
  <2>2. slotCh \in [Channel -> Channel \cup {-1}]
    BY <1>2
  <2>3. /\ caps \subseteq Device /\ deadline \in Nat /\ frames \in Nat
        /\ pc \in {"idle", "loop", "poll", "scan"} /\ pc # "poll"
        /\ cursor \in Nat /\ uncompleted \in Int /\ status \in Statuses
    BY DEF Statuses
  <2>4. progress \in BOOLEAN /\ inOrder \in BOOLEAN
    BY Zenon
  <2> HIDE DEF Init
  <2> QED
    BY <1>3, <1>4, <2>1, <2>2, <2>3, <2>4 DEF TypeOK
<1>6. StatusInv
  BY DEF StatusInv, Running
<1>7. TableInv /\ WireInv /\ ProgressInv /\ DeadlineInv /\ StatusIsTruthful
  BY DEF TableInv, WireInv, ProgressInv, DeadlineInv, StatusIsTruthful, Running
<1> QED
  BY <1>1, <1>5, <1>6, <1>7 DEF IInv

-----------------------------------------------------------------------------
\* The actions.

\* What an action leaves alone that only moves the program counter.
moved == <<engineVars, active, argVars, tableVars, slotVars, histVars>>

\* Such an action keeps the parts of the invariant that do not mention it.
LEMMA MoveKeeps ==
  ASSUME IInv, UNCHANGED moved, Running', status' = "running", status = "running"
  PROVE  /\ (img \in Images)' /\ StatusInv' /\ TableInv' /\ WireInv' /\ DeadlineInv'
         /\ StatusIsTruthful'
<1> USE DEF moved, engineVars, argVars, tableVars, slotVars, histVars
<1>1. Running /\ CountsInv /\ StartsInv /\ SlotsInv
  BY DEF IInv, StatusInv, TableInv, WireInv
<1>2. (img \in Images)' /\ StatusInv'
  BY DEF IInv, StatusInv
<1>3. CountsInv'
  BY <1>1 DEF CountsInv, Ops, Pending, Undone
<1>4. StartsInv'
  BY <1>1 DEF StartsInv, Ops, InFlight
<1>5. SlotsInv'
  BY <1>1 DEF SlotsInv, Ops
<1>6. DeadlineInv'
  BY <1>1 DEF IInv, DeadlineInv, Undone, Ops
<1>7. StatusIsTruthful'
  BY DEF StatusIsTruthful
<1> QED
  BY <1>2, <1>3, <1>4, <1>5, <1>6, <1>7 DEF TableInv, WireInv

\* The types after such an action.
LEMMA MoveTypes ==
  ASSUME TypeOK, UNCHANGED moved, status' \in Statuses,
         pc' \in {"idle", "loop", "poll", "scan"}, cursor' \in Nat,
         pc' = "poll" => cursor' \in Channel, progress' \in BOOLEAN
  PROVE  TypeOK'
<1> USE DEF moved, engineVars, argVars, tableVars, slotVars, histVars
<1>1. Ops' = Ops
  BY DEF Ops
<1>2. EngineTypeOK(Ops)'
  BY <1>1 DEF TypeOK, EngineTypeOK
<1> QED
  BY <1>1, <1>2 DEF TypeOK

\* NextSlot stays inside the loop's range.
LEMMA NextSlotTypes ==
  ASSUME TypeOK, pc = "poll", NextSlot
  PROVE  /\ pc' \in {"poll", "scan"} /\ cursor' \in Nat
         /\ pc' = "poll" => cursor' \in Channel /\ cursor' = cursor + 1
         /\ pc' = "scan" => cursor' = 0 /\ cursor = NumChannels - 1
<1>1. cursor \in 0 .. NumChannels - 1 /\ NumChannels \in Nat
  BY ChannelFacts DEF TypeOK
<1> QED
  BY <1>1, ChannelFacts DEF NextSlot

\* A sweep begins with no slot looked at and no progress.
LEMMA BeginSweepIInv == IInv /\ BeginSweep => IInv'
<1> SUFFICES ASSUME IInv, BeginSweep PROVE IInv'
  OBVIOUS
<1>1. /\ UNCHANGED moved /\ status' = status /\ pc # "idle"
      /\ pc' = "poll" /\ cursor' = 0 /\ progress' = FALSE
  BY DEF BeginSweep, moved
<1>2. status = "running" /\ Running'
  BY <1>1 DEF IInv, StatusInv, Running
<1>3. TypeOK'
  BY <1>1, <1>2, MoveTypes, ChannelFacts DEF IInv, Statuses
<1>4. ProgressInv'
  BY <1>1, ChannelFacts DEF ProgressInv
<1> QED
  BY <1>1, <1>2, <1>3, <1>4, MoveKeeps DEF IInv

\* A slot that is skipped is free, or its transfer is still on the wire.
LEMMA PollNothingIInv == IInv /\ PollNothing => IInv'
<1> SUFFICES ASSUME IInv, PollNothing PROVE IInv'
  OBVIOUS
<1>1. UNCHANGED moved /\ status' = status /\ progress' = progress /\ pc = "poll" /\ NextSlot
  BY DEF PollNothing, moved
<1>2. TypeOK /\ status = "running" /\ CountsInv /\ SlotsInv
  BY <1>1 DEF IInv, StatusInv, Running, TableInv, WireInv
<1>3. /\ pc' \in {"poll", "scan"} /\ cursor' \in Nat
      /\ pc' = "poll" => cursor' \in Channel /\ cursor' = cursor + 1
      /\ pc' = "scan" => cursor' = 0 /\ cursor = NumChannels - 1
  BY <1>1, <1>2, NextSlotTypes
<1>4. TypeOK'
  BY <1>1, <1>2, <1>3, MoveTypes DEF TypeOK
<1>5. cursor \in Channel
  BY <1>1, <1>2 DEF TypeOK
<1>6. OnTheWire(cursor)
  <2> SUFFICES ASSUME slotOp[cursor] >= 0 PROVE now < chan[slotCh[cursor]].doneAt
    BY DEF OnTheWire
  <2>1. slotCh[cursor] \in Channel /\ ~PollResult(slotCh[cursor])
    BY <1>2, <1>5 DEF PollNothing, PollDone, SlotsInv
  <2>2. chan[slotCh[cursor]].doneAt \in Nat /\ now \in Nat
    BY <1>2, <2>1 DEF TypeOK, EngineTypeOK
  <2> QED
    BY <2>1, <2>2 DEF PollResult
<1>7. ~progress => \A k \in Channel : k <= cursor => OnTheWire(k)
  <2> SUFFICES ASSUME ~progress, NEW k \in Channel, k <= cursor PROVE OnTheWire(k)
    OBVIOUS
  <2>1. k < cursor \/ k = cursor
    BY <1>5, ChannelFacts
  <2>2. k < cursor => OnTheWire(k)
    BY <1>1 DEF IInv, ProgressInv
  <2> QED
    BY <2>1, <2>2, <1>6
<1>8. \A k \in Channel : OnTheWire(k)' <=> OnTheWire(k)
  BY <1>1 DEF moved, engineVars, slotVars, OnTheWire
<1> HIDE DEF OnTheWire
<1>9. ProgressInv'
  <2>1. CASE pc' = "poll"
    <3>1. \A k \in Channel : k < cursor + 1 => k <= cursor
      BY <1>5, ChannelFacts
    <3> QED
      BY <2>1, <3>1, <1>1, <1>3, <1>7, <1>8 DEF ProgressInv
  <2>2. CASE pc' = "scan"
    <3>1. \A k \in Channel : k <= cursor
      BY <2>2, <1>3, ChannelFacts
    <3>2. \A j \in Ops' : ~(j < cursor')
      BY <2>2, <1>1, <1>3, ImageFacts DEF IInv, moved, argVars, Ops, RowsOf
    <3> QED
      BY <2>2, <3>1, <3>2, <1>1, <1>7, <1>8 DEF ProgressInv
  <2> QED
    BY <2>1, <2>2, <1>3
<1>10. Running'
  BY <1>3 DEF Running
<1> QED
  BY <1>1, <1>2, <1>4, <1>9, <1>10, MoveKeeps DEF IInv

\* The scan moves past a row that is done, waits for others or is on the wire.
LEMMA NextRowProgress ==
  ASSUME IInv, UNCHANGED moved, status = "running", pc = "scan", NextRow,
         progress' = progress,
         ~progress /\ cursor \in Ops => Blocked(cursor)
  PROVE  ProgressInv'
<1> USE DEF moved, engineVars, argVars, tableVars, slotVars
<1>1. pc' = "scan" /\ cursor' = cursor + 1 /\ cursor \in Nat /\ Ops' = Ops
  BY DEF NextRow, IInv, TypeOK, Ops
<1>2. \A k \in Channel : OnTheWire(k)' <=> OnTheWire(k)
  BY DEF OnTheWire
<1>3. ASSUME ~progress, NEW j \in Ops, j < cursor'
      PROVE  Blocked(j)
  <2>1. j < cursor \/ j = cursor
    BY <1>1, <1>3, ImageFacts DEF IInv
  <2> QED
    BY <2>1, <1>3 DEF IInv, ProgressInv
<1>4. \A j \in Ops : Blocked(j)' <=> Blocked(j)
  BY DEF Blocked, Startable, InFlight, AllBusy
<1> HIDE DEF OnTheWire, Blocked
<1> QED
  BY <1>1, <1>2, <1>3, <1>4 DEF IInv, ProgressInv

\* A row that is skipped is not startable, hence blocked.
LEMMA SkipRowIInv == IInv /\ SkipRow => IInv'
<1> SUFFICES ASSUME IInv, SkipRow PROVE IInv'
  OBVIOUS
<1>1. /\ UNCHANGED moved /\ status' = status /\ progress' = progress
      /\ pc = "scan" /\ pc' = "scan" /\ cursor' = cursor + 1 /\ NextRow
  BY DEF SkipRow, Scanning, NextRow, moved
<1>2. TypeOK /\ status = "running"
  BY <1>1 DEF IInv, StatusInv, Running
<1>3. TypeOK'
  BY <1>1, <1>2, MoveTypes DEF TypeOK
<1>4. Blocked(cursor)
  BY DEF SkipRow, Blocked
<1>5. ProgressInv'
  BY <1>1, <1>2, <1>4, NextRowProgress
<1>6. Running'
  BY <1>1 DEF Running
<1> QED
  BY <1>1, <1>2, <1>3, <1>5, <1>6, MoveKeeps DEF IInv

\* A refused row is blocked for want of a channel.
LEMMA SubmitRefusedIInv == IInv /\ SubmitRefused => IInv'
<1> SUFFICES ASSUME IInv, SubmitRefused PROVE IInv'
  OBVIOUS
<1>1. /\ UNCHANGED moved /\ status' = status /\ progress' = progress
      /\ pc = "scan" /\ pc' = "scan" /\ cursor' = cursor + 1 /\ NextRow /\ AllBusy
  BY DEF SubmitRefused, AtRow, Scanning, NextRow, moved
<1>2. TypeOK /\ status = "running" /\ SlotsInv
  BY <1>1 DEF IInv, StatusInv, Running, WireInv
<1>3. TypeOK'
  BY <1>1, <1>2, MoveTypes DEF TypeOK
<1>4. Blocked(cursor)
  BY DEF SubmitRefused, AtRow, Blocked
<1>5. ProgressInv'
  BY <1>1, <1>2, <1>4, NextRowProgress
<1>6. Running'
  BY <1>1 DEF Running
<1> QED
  BY <1>1, <1>2, <1>3, <1>5, <1>6, MoveKeeps DEF IInv

\* A sweep that made progress leads to another one.
LEMMA EndSweepIInv == IInv /\ EndSweep => IInv'
<1> SUFFICES ASSUME IInv, EndSweep PROVE IInv'
  OBVIOUS
<1>1. /\ UNCHANGED moved /\ status' = status /\ progress' = progress
      /\ pc = "scan" /\ pc' = "loop" /\ cursor' = cursor
  BY DEF EndSweep, moved
<1>2. TypeOK /\ status = "running"
  BY <1>1 DEF IInv, StatusInv, Running
<1>3. TypeOK'
  BY <1>1, <1>2, MoveTypes DEF TypeOK
<1>4. ProgressInv' /\ Running'
  BY <1>1 DEF ProgressInv, Running
<1> QED
  BY <1>1, <1>2, <1>3, <1>4, MoveKeeps DEF IInv

-----------------------------------------------------------------------------
\* The actions that end a frame.

\* What an action that only returns keeps.
LEMMA ReturnKeeps ==
  ASSUME IInv, status = "running", Running, UNCHANGED <<engineVars, img, tableVars, slotVars, starts>>,
         pc' = "idle", status' \notin {"none", "running"}
  PROVE  /\ (img \in Images)' /\ StatusInv' /\ TableInv' /\ WireInv' /\ DeadlineInv'
         /\ ProgressInv'
<1> USE DEF engineVars, tableVars, slotVars
<1>1. CountsInv /\ StartsInv /\ SlotsInv
  BY DEF IInv, StatusInv, TableInv, WireInv
<1>2. (img \in Images)' /\ StatusInv' /\ DeadlineInv' /\ ProgressInv'
  BY DEF IInv, StatusInv, Running, DeadlineInv, ProgressInv
<1>3. CountsInv'
  BY <1>1 DEF CountsInv, Ops, Pending, Undone
<1>4. StartsInv'
  BY <1>1 DEF StartsInv, Ops, InFlight, Running
<1>5. SlotsInv'
  BY <1>1 DEF SlotsInv, Ops
<1> QED
  BY <1>2, <1>3, <1>4, <1>5 DEF TableInv, WireInv

\* OK is returned when "uncompleted" is 0, and then every row is done, in time.
LEMMA FinishFrameIInv == IInv /\ FinishFrame => IInv'
<1> SUFFICES ASSUME IInv, FinishFrame PROVE IInv'
  OBVIOUS
<1>1. /\ pc = "loop" /\ uncompleted <= 0 /\ pc' = "idle" /\ status' = "OK"
      /\ UNCHANGED <<engineVars, argVars, cursor, progress, tableVars, slotVars, starts, inOrder>>
  BY DEF FinishFrame, Return
<1>2. TypeOK /\ img \in Images /\ Running /\ status = "running" /\ CountsInv
  BY <1>1 DEF IInv, StatusInv, Running, TableInv
<1>3. Undone = {}
  BY <1>1, <1>2, PendingFacts DEF CountsInv
<1>4. /\ \A i \in Ops : done[i]
      /\ deadline # 0 => now <= deadline
  BY <1>2, <1>3 DEF Undone, IInv, DeadlineInv
<1>5. StatusIsTruthful'
  BY <1>1, <1>4 DEF StatusIsTruthful, Ops, argVars, tableVars, engineVars
<1>6. active' \subseteq Device
  BY <1>2 DEF FinishFrame, OnFrameEnd, TypeOK
<1>7. TypeOK'
  <2> USE DEF engineVars, argVars, tableVars, slotVars
  <2>1. Ops' = Ops /\ EngineTypeOK(Ops)'
    BY <1>1, <1>2 DEF Ops, TypeOK, EngineTypeOK
  <2> QED
    BY <2>1, <1>1, <1>2, <1>6 DEF TypeOK, Statuses
<1> QED
  BY <1>1, <1>2, <1>5, <1>7, ReturnKeeps DEF IInv, argVars

\* A denied row is startable, so its predecessors are done.
LEMMA DenyCapabilityIInv == IInv /\ DenyCapability => IInv'
<1> SUFFICES ASSUME IInv, DenyCapability PROVE IInv'
  OBVIOUS
<1>1. /\ pc = "scan" /\ pc' = "idle" /\ status' = "ERR_CAPABILITY"
      /\ UNCHANGED moved /\ UNCHANGED <<cursor, progress>>
      /\ cursor < img.n /\ Startable(cursor) /\ img.device[cursor] \notin caps
  BY DEF DenyCapability, Scanning, Return, moved
<1>2. TypeOK /\ img \in Images /\ Running /\ status = "running"
  BY <1>1 DEF IInv, StatusInv, Running
<1>3. cursor \in Ops
  BY <1>1, <1>2, ImageFacts DEF TypeOK
<1>4. ~done[cursor] /\ \A p \in img.preds[cursor] : done[p]
  BY <1>1, <1>2, <1>3, StartableFacts
<1>5. StatusIsTruthful'
  BY <1>1, <1>3, <1>4 DEF StatusIsTruthful, Ops, moved, argVars, tableVars
<1>6. TypeOK'
  BY <1>1, <1>2, MoveTypes DEF TypeOK, Statuses
<1> QED
  BY <1>1, <1>2, <1>5, <1>6, ReturnKeeps DEF IInv, moved, argVars, histVars

\* With every row that is ready done, all rows are done: the first that is not
\* would have all its predecessors done, and so be ready.
LEMMA NothingReadyIsAllDone ==
  ASSUME img \in Images, TypeOK, CountsInv, \A j \in Ops : ready[j] => done[j]
  PROVE  Undone = {}
<1> SUFFICES ASSUME Undone # {} PROVE FALSE
  OBVIOUS
<1>1. Undone \subseteq Ops /\ Ops \subseteq Nat
  BY ImageFacts, PendingFacts
<1>2. PICK m \in Undone : \A j \in Undone : m <= j
  BY <1>1, LeastElement
<1>3. m \in Ops /\ ~done[m]
  BY <1>2 DEF Undone
<1>4. ASSUME NEW p \in img.preds[m] PROVE p \notin Undone
  <2>1. p \in Ops /\ p < m
    BY <1>3, ImageFacts
  <2>2. p \in Nat /\ m \in Nat
    BY <2>1, <1>1, <1>3
  <2> QED
    BY <2>1, <2>2, <1>2
<1>5. Pending(m) = {}
  BY <1>4 DEF Pending
<1>6. dep[m] = 0
  BY <1>3, <1>5, PendingFacts DEF CountsInv
<1> QED
  BY <1>3, <1>6 DEF CountsInv

\* At a stall some transfer is on the wire: ERR_DEADLOCK is never returned.
LEMMA StallHasWaiting == IInv /\ Stall => \E k \in Channel : Waiting(k)
<1> SUFFICES ASSUME IInv, Stall, \A k \in Channel : ~Waiting(k) PROVE FALSE
  OBVIOUS
<1>1. pc = "scan" /\ cursor >= img.n /\ ~progress /\ uncompleted > 0
  BY DEF Stall
<1>2. TypeOK /\ img \in Images /\ CountsInv /\ SlotsInv
  BY <1>1 DEF IInv, StatusInv, Running, TableInv, WireInv
<1>3. ASSUME NEW k \in Channel PROVE ~(slotOp[k] >= 0)
  <2> SUFFICES ASSUME slotOp[k] >= 0 PROVE FALSE
    OBVIOUS
  <2>1. now < chan[slotCh[k]].doneAt /\ slotCh[k] \in Channel
    BY <1>1, <1>2 DEF IInv, ProgressInv, OnTheWire, SlotsInv
  <2>2. now \in Nat /\ chan[slotCh[k]].doneAt \in Nat
    BY <1>2, <2>1 DEF TypeOK, EngineTypeOK
  <2> QED
    BY <2>1, <2>2 DEF Waiting, DmaDone
<1>4. \A j \in Ops : j < cursor
  BY <1>1, <1>2, ImageFacts DEF TypeOK
<1>5. ASSUME NEW j \in Ops, ready[j] PROVE done[j]
  <2>1. Blocked(j)
    BY <1>1, <1>4 DEF IInv, ProgressInv
  <2>2. ~AllBusy
    BY <1>2, <1>3, ChannelFacts DEF AllBusy, SlotsInv
  <2>3. ~InFlight(j)
    BY <1>2, <1>3, ImageFacts DEF InFlight
  <2> QED
    BY <1>5, <2>1, <2>2, <2>3 DEF Blocked, Startable
<1>6. Undone = {}
  BY <1>2, <1>5, NothingReadyIsAllDone
<1> QED
  BY <1>1, <1>2, <1>6, PendingFacts DEF CountsInv

\* The clock only goes forward at a stall, which is no harm to slots or deadline.
LEMMA StallIInv == IInv /\ Stall => IInv'
<1> SUFFICES ASSUME IInv, Stall PROVE IInv'
  OBVIOUS
<1> USE DEF argVars, tableVars, slotVars, histVars
<1>1. PICK k \in Channel : Waiting(k) /\ SimAdvance(StallCycles(k))
  BY StallHasWaiting DEF Stall, IsLastWaiting
<1>2. /\ pc = "scan" /\ pc' = "loop" /\ status' = status /\ uncompleted > 0
      /\ UNCHANGED <<active, argVars, cursor, progress, tableVars, slotVars, histVars>>
  BY StallHasWaiting DEF Stall
<1>3. /\ TypeOK /\ img \in Images /\ status = "running"
      /\ CountsInv /\ StartsInv /\ SlotsInv
  BY <1>2 DEF IInv, StatusInv, Running, TableInv, WireInv
<1>4. slotCh[k] \in Channel
  BY <1>1, <1>3 DEF Waiting, SlotsInv
<1>5. chan[slotCh[k]].doneAt \in Nat /\ now \in Nat
  BY <1>3, <1>4 DEF TypeOK, EngineTypeOK
<1>6. now' \in Nat /\ UNCHANGED <<chan, landed, submits, copies, xferCycles>>
  BY <1>1, <1>5 DEF SimAdvance, StallCycles
<1>7. Ops' = Ops
  BY <1>2 DEF Ops
<1>8. TypeOK'
  <2>1. EngineTypeOK(Ops)'
    BY <1>3, <1>6, <1>7 DEF TypeOK, EngineTypeOK
  <2> QED
    BY <2>1, <1>2, <1>3, <1>7 DEF TypeOK
<1>9. StatusInv' /\ ProgressInv' /\ StatusIsTruthful'
  BY <1>2, <1>3 DEF StatusInv, ProgressInv, StatusIsTruthful, Running
<1>10. TableInv'
  <2>1. CountsInv'
    BY <1>2, <1>3 DEF CountsInv, Ops, Pending, Undone
  <2>2. StartsInv'
    BY <1>2, <1>3, <1>6 DEF StartsInv, Ops, InFlight, Running
  <2> QED
    BY <2>1, <2>2 DEF TableInv
<1>11. WireInv'
  BY <1>2, <1>3, <1>6 DEF WireInv, SlotsInv, Ops
<1>12. DeadlineInv'
  <2>1. Undone # {}
    BY <1>2, <1>3, PendingFacts DEF CountsInv
  <2> QED
    BY <2>1, <1>2, <1>7 DEF DeadlineInv, Undone
<1> QED
  BY <1>2, <1>3, <1>8, <1>9, <1>10, <1>11, <1>12 DEF IInv

-----------------------------------------------------------------------------
\* Running a kernel.

\* What both outcomes of Execute share.
LEMMA ExecuteFacts ==
  ASSUME IInv, NEW i \in Ops, Execute(i)
  PROVE  /\ pc = "scan" /\ Running /\ status = "running" /\ i = cursor
         /\ img.device[i] # "DMA" /\ Startable(i)
         /\ TypeOK /\ img \in Images /\ CountsInv /\ StartsInv /\ SlotsInv
         /\ dep[i] = 0 /\ starts[i] = 0 /\ ~done[i] /\ ~InFlight(i)
         /\ now' \in Nat /\ UNCHANGED <<chan, landed, copies, submits, xferCycles>>
         /\ UNCHANGED <<argVars, slotVars, span>> /\ Ops' = Ops
         /\ starts' \in [Ops -> Nat] /\ starts'[i] = 1
         /\ \A j \in Ops : j # i => starts'[j] = starts[j]
         /\ EngineTypeOK(Ops)'
<1>1. /\ pc = "scan" /\ i = cursor /\ Startable(i) /\ img.device[i] # "DMA"
      /\ WaitThenAdvance(InputChannels(i), img.wcet[i])
      /\ starts' = [starts EXCEPT ![i] = @ + 1]
      /\ UNCHANGED <<argVars, slotVars, span>>
  BY DEF Execute, AtRow, Scanning
<1>2. /\ Running /\ status = "running" /\ TypeOK /\ img \in Images
      /\ CountsInv /\ StartsInv /\ SlotsInv
  BY <1>1 DEF IInv, StatusInv, Running, TableInv, WireInv
<1>3. /\ dep[i] = 0 /\ starts[i] = 0 /\ ~done[i] /\ ~InFlight(i) /\ InputChannels(i) = {}
  BY <1>1, <1>2, StartableFacts
<1>4. img.wcet[i] \in Nat
  BY <1>2, ImageFacts
<1>5. now' = now + img.wcet[i] /\ UNCHANGED <<chan, landed, copies, submits, xferCycles>>
  BY <1>1, <1>2, <1>3, <1>4, WaitOnNothing
<1>6. now' \in Nat
  BY <1>2, <1>4, <1>5 DEF TypeOK, EngineTypeOK
<1>7. Ops' = Ops
  BY <1>1 DEF Ops, argVars
<1>8. EngineTypeOK(Ops)'
  BY <1>2, <1>5, <1>6, <1>7 DEF TypeOK, EngineTypeOK
<1>9. /\ starts' \in [Ops -> Nat] /\ starts'[i] = 1
      /\ \A j \in Ops : j # i => starts'[j] = starts[j]
  BY <1>1, <1>2, <1>3 DEF TypeOK
<1> QED
  BY <1>1, <1>2, <1>3, <1>5, <1>6, <1>7, <1>8, <1>9

\* A late kernel ends the frame with the clock past the deadline.
LEMMA MissDeadlineIInv == IInv /\ MissDeadline => IInv'
<1> SUFFICES ASSUME IInv, MissDeadline PROVE IInv'
  OBVIOUS
<1> USE DEF argVars, tableVars, slotVars
<1>1. PICK i \in Ops :
        /\ Execute(i) /\ Late(now') /\ pc' = "idle" /\ status' = "ERR_DEADLINE"
        /\ UNCHANGED <<active, cursor, progress, tableVars, inOrder>>
  BY DEF MissDeadline, Return
<1>2. /\ TypeOK /\ img \in Images /\ CountsInv /\ StartsInv /\ SlotsInv
      /\ dep[i] = 0 /\ ~done[i] /\ ~InFlight(i)
      /\ UNCHANGED <<chan, landed, copies, submits, xferCycles>>
      /\ UNCHANGED <<argVars, slotVars, span>> /\ Ops' = Ops
      /\ starts' \in [Ops -> Nat] /\ starts'[i] = 1
      /\ \A j \in Ops : j # i => starts'[j] = starts[j]
      /\ EngineTypeOK(Ops)'
  BY <1>1, ExecuteFacts
<1>3. TypeOK'
  BY <1>1, <1>2 DEF TypeOK, Statuses
<1>4. StatusInv' /\ ProgressInv' /\ DeadlineInv'
  BY <1>1 DEF StatusInv, ProgressInv, DeadlineInv, Running
<1>5. StatusIsTruthful'
  BY <1>1, <1>2 DEF StatusIsTruthful, Late
<1>6. CountsInv'
  BY <1>1, <1>2 DEF CountsInv, Pending, Undone
<1>7. StartsInv'
  <2>1. \A j \in Ops : InFlight(j)' <=> InFlight(j)
    BY <1>2 DEF InFlight
  <2> QED
    BY <2>1, <1>1, <1>2 DEF StartsInv, Running
<1>8. SlotsInv'
  BY <1>1, <1>2 DEF SlotsInv
<1> QED
  BY <1>2, <1>3, <1>4, <1>5, <1>6, <1>7, <1>8 DEF IInv, TableInv, WireInv

\* A compute row that runs in time: its inputs land first, then it completes.
LEMMA RunKernelIInv == IInv /\ RunKernel => IInv'
<1> SUFFICES ASSUME IInv, RunKernel PROVE IInv'
  OBVIOUS
<1> USE DEF argVars, slotVars
<1>1. PICK i \in Ops :
        Execute(i) /\ ~Late(now') /\ Complete(i) /\ NextRow /\ status' = status
  BY DEF RunKernel
<1>2. /\ pc = "scan" /\ status = "running" /\ img.device[i] # "DMA"
      /\ TypeOK /\ img \in Images /\ CountsInv /\ StartsInv /\ SlotsInv
      /\ dep[i] = 0 /\ ~done[i] /\ ~InFlight(i)
      /\ UNCHANGED <<chan, landed, copies, submits, xferCycles>>
      /\ UNCHANGED <<argVars, slotVars, span>> /\ Ops' = Ops
      /\ starts' \in [Ops -> Nat] /\ starts'[i] = 1
      /\ \A j \in Ops : j # i => starts'[j] = starts[j]
      /\ EngineTypeOK(Ops)' /\ now' \in Nat
  BY <1>1, ExecuteFacts
<1>3. /\ CountsInv'
      /\ \A j \in Ops : dep[j] = 0 => dep'[j] = 0
      /\ \A j \in Ops : done'[j] <=> done[j] \/ j = i
      /\ dep' \in [Ops -> Int] /\ ready' \in [Ops -> BOOLEAN] /\ done' \in [Ops -> BOOLEAN]
      /\ uncompleted' \in Int /\ progress' = TRUE /\ active' \subseteq Device
      /\ inOrder' \in BOOLEAN
  BY <1>1, <1>2, CompleteCounts
<1>4. pc' = "scan" /\ cursor' \in Nat
  BY <1>1, <1>2 DEF NextRow, TypeOK
<1>5. TypeOK'
  BY <1>1, <1>2, <1>3, <1>4 DEF TypeOK
<1>6. StatusInv' /\ ProgressInv' /\ StatusIsTruthful'
  BY <1>1, <1>2, <1>3, <1>4 DEF StatusInv, ProgressInv, StatusIsTruthful, Running
<1>7. StartsInv'
  <2>1. \A j \in Ops : InFlight(j)' <=> InFlight(j)
    BY <1>2 DEF InFlight
  <2>2. Running /\ Running'
    BY <1>2, <1>4 DEF Running
  <2>3. ASSUME NEW j \in Ops
        PROVE  /\ starts'[j] > 0 => dep'[j] = 0 /\ starts'[j] = 1
               /\ done'[j] => starts'[j] = 1 /\ (img.device[j] = "DMA" => j \in landed)
               /\ InFlight(j) => starts'[j] = 1
               /\ starts'[j] > 0 => done'[j] \/ InFlight(j)
    <3>1. CASE j = i
      BY <3>1, <1>2, <1>3
    <3>2. CASE j # i
      BY <3>2, <2>2, <1>2, <1>3 DEF StartsInv
    <3> QED
      BY <3>1, <3>2
  <2> QED
    BY <2>1, <2>3, <1>2 DEF StartsInv
<1>8. SlotsInv'
  <2>1. \A k \in Channel : slotOp[k] >= 0 => slotOp[k] # i
    BY <1>2 DEF InFlight
  <2>2. \A k \in Channel : slotOp[k] >= 0 => ~done'[slotOp[k]]
    BY <2>1, <1>2, <1>3 DEF SlotsInv
  <2> QED
    BY <2>2, <1>2 DEF SlotsInv
<1>9. DeadlineInv'
  <2>1. deadline' # 0 => ~(now' > deadline')
    BY <1>1, <1>2 DEF Late
  <2>2. deadline' \in Nat
    BY <1>5 DEF TypeOK
  <2> QED
    BY <2>1, <2>2, <1>2 DEF DeadlineInv
<1> QED
  BY <1>2, <1>3, <1>5, <1>6, <1>7, <1>8, <1>9 DEF IInv, TableInv, WireInv

-----------------------------------------------------------------------------
\* DMA rows.

\* While a channel is free so is a slot: the channels in use by slots are all
\* busy and all different.
LEMMA SlotForEveryChannel ==
  ASSUME TypeOK, SlotsInv, NEW c \in Channel, ~chan[c].busy
  PROVE  \E k \in Channel : ~(slotOp[k] >= 0)
<1> SUFFICES ASSUME \A k \in Channel : slotOp[k] >= 0 PROVE FALSE
  OBVIOUS
<1>1. \A k \in Channel : slotCh[k] \in Channel \ {c}
  BY DEF SlotsInv
<1>2. slotCh \in [Channel -> Channel \ {c}]
  BY <1>1 DEF TypeOK
<1>3. /\ IsFiniteSet(Channel) /\ IsFiniteSet(Channel \ {c})
      /\ Cardinality(Channel \ {c}) = Cardinality(Channel) - 1
      /\ Cardinality(Channel) \in Nat
  BY ChannelFacts, FS_RemoveElement, FS_CardinalityType
<1>4. Cardinality(Channel \ {c}) < Cardinality(Channel)
  BY <1>3
<1>5. PICK k, l \in Channel : k # l /\ slotCh[k] = slotCh[l]
  BY <1>2, <1>3, <1>4, FS_PigeonHole
<1> QED
  BY <1>5 DEF SlotsInv

\* A row goes on a free channel, and there is a free slot to record it in.
LEMMA SubmitTransferIInv == IInv /\ SubmitTransfer => IInv'
<1> SUFFICES ASSUME IInv, SubmitTransfer PROVE IInv'
  OBVIOUS
<1> USE DEF argVars, tableVars
<1>1. PICK i \in Ops, c \in Channel :
        /\ AtRow(i) /\ img.device[i] = "DMA"
        /\ Submit(c, i, img.bytes[i])
        /\ IF \A k \in Channel : slotOp[k] >= 0
           THEN UNCHANGED <<slotVars, progress>>
           ELSE \E k \in Channel :
                  /\ IsFirstFreeSlot(k)
                  /\ slotOp' = [slotOp EXCEPT ![k] = i]
                  /\ slotCh' = [slotCh EXCEPT ![k] = c]
                  /\ progress' = TRUE
        /\ NextRow
        /\ starts' = [starts EXCEPT ![i] = @ + 1]
        /\ UNCHANGED <<active, argVars, tableVars, status, inOrder, span>>
  BY DEF SubmitTransfer
<1>2. pc = "scan" /\ Startable(i)
  BY <1>1 DEF AtRow, Scanning
<1>3. /\ Running /\ status = "running" /\ TypeOK /\ img \in Images
      /\ CountsInv /\ StartsInv /\ SlotsInv
  BY <1>2 DEF IInv, StatusInv, Running, TableInv, WireInv
<1>4. dep[i] = 0 /\ starts[i] = 0 /\ ~done[i] /\ ~InFlight(i)
  BY <1>2, <1>3, StartableFacts
<1>5. ~chan[c].busy
  BY <1>1 DEF Submit, IsFirstFree
<1>6. PICK k \in Channel :
        /\ ~(slotOp[k] >= 0)
        /\ slotOp' = [slotOp EXCEPT ![k] = i]
        /\ slotCh' = [slotCh EXCEPT ![k] = c]
        /\ progress' = TRUE
  <2>1. ~(\A k \in Channel : slotOp[k] >= 0)
    BY <1>3, <1>5, SlotForEveryChannel
  <2>2. PICK k \in Channel :
          /\ IsFirstFreeSlot(k)
          /\ slotOp' = [slotOp EXCEPT ![k] = i]
          /\ slotCh' = [slotCh EXCEPT ![k] = c]
          /\ progress' = TRUE
    BY <1>1, <2>1
  <2>3. ~(slotOp[k] >= 0)
    BY <2>2, <1>3 DEF IsFirstFreeSlot, TypeOK
  <2> QED
    BY <2>2, <2>3
<1>7. /\ i \in Int /\ i >= 0 /\ Ops' = Ops
  BY <1>1, <1>3, ImageFacts DEF Ops
<1>8. TransferCycles(img.bytes[i]) \in Nat /\ StartOn(c) \in Nat
  <2>1. img.bytes[i] \in Nat
    BY <1>3, ImageFacts
  <2>2. img.bytes[i] + Bandwidth - 1 \in Nat
    BY <2>1, EngineAssumption
  <2>3. (img.bytes[i] + Bandwidth - 1) \div Bandwidth \in Nat
    BY <2>2, EngineAssumption
  <2>4. chan[c].doneAt \in Nat /\ now \in Nat
    BY <1>3 DEF TypeOK, EngineTypeOK
  <2> QED
    BY <2>3, <2>4 DEF TransferCycles, StartOn
<1>9. /\ chan' = [chan EXCEPT ![c] =
                    [busy |-> TRUE, doneAt |-> StartOn(c) + TransferCycles(img.bytes[i]), job |-> i]]
      /\ submits' = submits + 1 /\ xferCycles' = xferCycles + TransferCycles(img.bytes[i])
      /\ UNCHANGED <<now, landed, copies>>
  BY <1>1 DEF Submit
<1>10. /\ chan'[c].busy /\ chan'[c].job = i
       /\ \A d \in Channel : d # c => chan'[d] = chan[d]
  BY <1>3, <1>9 DEF TypeOK, EngineTypeOK
<1>11. EngineTypeOK(Ops)'
  <2>1. chan' \in [Channel -> [busy : BOOLEAN, doneAt : Nat, job : Ops \cup {NoJob}]]
    BY <1>3, <1>8, <1>9 DEF TypeOK, EngineTypeOK
  <2>2. submits' \in Nat /\ xferCycles' \in Nat
    BY <1>3, <1>8, <1>9 DEF TypeOK, EngineTypeOK
  <2> HIDE DEF EngineTypeOK
  <2> QED
    BY <2>1, <2>2, <1>3, <1>7, <1>9 DEF TypeOK, EngineTypeOK
<1>12. /\ slotOp' \in [Channel -> Int] /\ slotOp'[k] = i
       /\ slotCh' \in [Channel -> Channel \cup {-1}] /\ slotCh'[k] = c
       /\ \A l \in Channel : l # k => slotOp'[l] = slotOp[l] /\ slotCh'[l] = slotCh[l]
  BY <1>3, <1>6, <1>7 DEF TypeOK
<1>13. /\ starts' \in [Ops -> Nat] /\ starts'[i] = 1
       /\ \A j \in Ops : j # i => starts'[j] = starts[j]
  BY <1>1, <1>3, <1>4 DEF TypeOK
<1>14. pc' = "scan" /\ cursor' \in Nat
  BY <1>1, <1>3 DEF NextRow, TypeOK
<1>15. TypeOK'
  BY <1>1, <1>3, <1>6, <1>7, <1>11, <1>12, <1>13, <1>14 DEF TypeOK
<1>16. StatusInv' /\ ProgressInv' /\ StatusIsTruthful'
  BY <1>1, <1>3, <1>6, <1>14 DEF StatusInv, ProgressInv, StatusIsTruthful, Running
<1>17. CountsInv'
  BY <1>1, <1>3, <1>7 DEF CountsInv, Pending, Undone
<1>18. \A j \in Ops : InFlight(j)' <=> InFlight(j) \/ j = i
  <2>1. \A j \in Ops : j >= 0
    BY <1>3, ImageFacts
  <2> QED
    BY <2>1, <1>6, <1>12 DEF InFlight
<1>19. StartsInv'
  <2>1. ASSUME NEW j \in Ops
        PROVE  /\ starts'[j] > 0 => dep[j] = 0 /\ starts'[j] = 1
               /\ done[j] => starts'[j] = 1 /\ (img.device[j] = "DMA" => j \in landed)
               /\ InFlight(j)' => starts'[j] = 1
               /\ starts'[j] > 0 => done[j] \/ InFlight(j)'
    <3>1. CASE j = i
      BY <3>1, <1>4, <1>13, <1>18
    <3>2. CASE j # i
      BY <3>2, <1>3, <1>13, <1>18 DEF StartsInv
    <3> QED
      BY <3>1, <3>2
  <2> QED
    BY <2>1, <1>1, <1>7, <1>9 DEF StartsInv
<1>20. SlotsInv'
  <2>1. ASSUME NEW l \in Channel, l # k, slotOp[l] >= 0
        PROVE  slotCh[l] # c /\ slotOp[l] # i
    BY <2>1, <1>3, <1>4, <1>5 DEF SlotsInv, InFlight
  <2>2. ASSUME NEW l \in Channel, slotOp'[l] >= 0
        PROVE  /\ slotOp'[l] \in Ops /\ img.device[slotOp'[l]] = "DMA" /\ ~done[slotOp'[l]]
               /\ slotCh'[l] \in Channel
               /\ chan'[slotCh'[l]].busy
               /\ chan'[slotCh'[l]].job = slotOp'[l]
    <3>1. CASE l = k
      BY <3>1, <1>1, <1>4, <1>10, <1>12
    <3>2. CASE l # k
      BY <3>2, <2>1, <2>2, <1>3, <1>10, <1>12 DEF SlotsInv
    <3> QED
      BY <3>1, <3>2
  <2>3. ASSUME NEW d \in Channel, chan'[d].busy
        PROVE  \E l \in Channel : slotOp'[l] >= 0 /\ slotCh'[l] = d
    <3>1. CASE d = c
      BY <3>1, <1>7, <1>12
    <3>2. CASE d # c
      <4>1. PICK l \in Channel : slotOp[l] >= 0 /\ slotCh[l] = d
        BY <3>2, <2>3, <1>3, <1>10 DEF SlotsInv
      <4>2. l # k
        BY <4>1, <1>6
      <4> QED
        BY <4>1, <4>2, <1>12
    <3> QED
      BY <3>1, <3>2
  <2>4. ASSUME NEW l \in Channel, NEW m \in Channel, slotOp'[l] >= 0, slotOp'[m] >= 0,
               slotCh'[l] = slotCh'[m] \/ slotOp'[l] = slotOp'[m]
        PROVE  l = m
    <3>1. CASE l # k /\ m # k
      BY <3>1, <2>4, <1>3, <1>12 DEF SlotsInv
    <3>2. CASE l = k /\ m # k
      BY <3>2, <2>1, <2>4, <1>12
    <3>3. CASE l # k /\ m = k
      BY <3>3, <2>1, <2>4, <1>12
    <3> QED
      BY <3>1, <3>2, <3>3
  <2> QED
    BY <2>2, <2>3, <2>4, <1>1, <1>7 DEF SlotsInv
<1>21. DeadlineInv'
  BY <1>1, <1>3, <1>7, <1>9, <1>14 DEF IInv, DeadlineInv, Running, Undone
<1> QED
  BY <1>1, <1>3, <1>15, <1>16, <1>17, <1>19, <1>20, <1>21 DEF IInv, TableInv, WireInv

\* A transfer that has landed frees its slot and channel and completes its row.
LEMMA PollCompleteIInv == IInv /\ PollComplete => IInv'
<1> SUFFICES ASSUME IInv, PollComplete PROVE IInv'
  OBVIOUS
<1> USE DEF argVars
<1> DEFINE k == cursor
           i == slotOp[cursor]
           c == slotCh[cursor]
<1>1. /\ pc = "poll" /\ slotOp[k] >= 0 /\ PollResult(c)
      /\ Poll(c) /\ slotOp' = [slotOp EXCEPT ![k] = -1]
      /\ Complete(i) /\ NextSlot
      /\ UNCHANGED <<argVars, slotCh, status, starts, span>>
  BY DEF PollComplete, PollDone
<1>2. /\ Running /\ status = "running" /\ TypeOK /\ img \in Images
      /\ CountsInv /\ StartsInv /\ SlotsInv
  BY <1>1 DEF IInv, StatusInv, Running, TableInv, WireInv
<1>3. k \in Channel
  BY <1>1, <1>2 DEF TypeOK
<1>4. /\ i \in Ops /\ img.device[i] = "DMA" /\ ~done[i] /\ c \in Channel
      /\ chan[c].busy /\ chan[c].job = i
  BY <1>1, <1>2, <1>3 DEF SlotsInv
<1> HIDE DEF k, i, c
<1>5. InFlight(i) /\ starts[i] = 1 /\ dep[i] = 0
  <2>1. InFlight(i)
    BY <1>3 DEF InFlight, i, k
  <2>2. starts[i] = 1
    BY <2>1, <1>2, <1>4 DEF StartsInv
  <2> QED
    BY <2>1, <2>2, <1>2, <1>4 DEF StartsInv
<1>6. Due({c}, now) = {c}
  BY <1>1, <1>4 DEF PollResult, Due
<1>7. /\ chan' = [d \in Channel |-> IF d \in {c} THEN [chan[d] EXCEPT !.busy = FALSE] ELSE chan[d]]
      /\ landed' = landed \cup {i} /\ copies' = copies + 1
      /\ UNCHANGED <<now, submits, xferCycles>>
  <2>1. {chan[d].job : d \in {c}} = {i}
    BY <1>4
  <2>2. Cardinality({c}) = 1
    BY FS_Singleton
  <2> QED
    BY <2>1, <2>2, <1>1, <1>6 DEF Poll, CompleteIfReady
<1>8. /\ chan' \in [Channel -> [busy : BOOLEAN, doneAt : Nat, job : Ops \cup {NoJob}]]
      /\ ~chan'[c].busy
      /\ \A d \in Channel : d # c => chan'[d] = chan[d]
  BY <1>2, <1>4, <1>7 DEF TypeOK, EngineTypeOK
<1>9. Ops' = Ops
  BY <1>1 DEF Ops
<1>10. EngineTypeOK(Ops)'
  BY <1>2, <1>4, <1>7, <1>8, <1>9 DEF TypeOK, EngineTypeOK
<1>11. /\ CountsInv'
       /\ \A j \in Ops : dep[j] = 0 => dep'[j] = 0
       /\ Undone' = Undone \ {i}
       /\ \A j \in Ops : done'[j] <=> done[j] \/ j = i
       /\ dep' \in [Ops -> Int] /\ ready' \in [Ops -> BOOLEAN] /\ done' \in [Ops -> BOOLEAN]
       /\ uncompleted' \in Int /\ progress' = TRUE /\ active' \subseteq Device
       /\ inOrder' \in BOOLEAN
  BY <1>1, <1>2, <1>4, <1>5, CompleteCounts
<1>12. /\ pc' \in {"poll", "scan"} /\ cursor' \in Nat
       /\ pc' = "poll" => cursor' \in Channel
  BY <1>1, <1>2, NextSlotTypes
<1>13. /\ slotOp' \in [Channel -> Int] /\ slotOp'[k] = -1 /\ slotCh' = slotCh
       /\ \A l \in Channel : l # k => slotOp'[l] = slotOp[l]
  BY <1>1, <1>2, <1>3 DEF TypeOK
<1>14. TypeOK'
  BY <1>1, <1>2, <1>9, <1>10, <1>11, <1>12, <1>13 DEF TypeOK
<1>15. StatusInv' /\ ProgressInv' /\ StatusIsTruthful'
  BY <1>1, <1>2, <1>11, <1>12 DEF StatusInv, ProgressInv, StatusIsTruthful, Running
<1>16. ASSUME NEW l \in Channel, slotOp[l] >= 0, l # k
       PROVE  slotOp[l] # i /\ slotCh[l] # c
  BY <1>1, <1>2, <1>3, <1>16 DEF SlotsInv, i, c, k
<1>17. \A j \in Ops : j # i => (InFlight(j)' <=> InFlight(j))
  <2>1. \A j \in Ops : j >= 0
    BY <1>2, ImageFacts
  <2>2. slotOp[k] = i
    BY DEF i, k
  <2> QED
    BY <2>1, <2>2, <1>13 DEF InFlight
<1>18. StartsInv'
  <2>1. ASSUME NEW j \in Ops
        PROVE  /\ starts[j] > 0 => dep'[j] = 0 /\ starts[j] = 1
               /\ done'[j] => starts[j] = 1 /\ (img.device[j] = "DMA" => j \in landed')
               /\ InFlight(j)' => starts[j] = 1
               /\ starts[j] > 0 => done'[j] \/ InFlight(j)'
    <3>1. CASE j = i
      BY <3>1, <1>4, <1>5, <1>7, <1>11
    <3>2. CASE j # i
      BY <3>2, <1>2, <1>7, <1>11, <1>17 DEF StartsInv
    <3> QED
      BY <3>1, <3>2
  <2> QED
    BY <2>1, <1>1, <1>9 DEF StartsInv
<1>19. SlotsInv'
  <2>1. ASSUME NEW l \in Channel, slotOp'[l] >= 0
        PROVE  l # k /\ slotOp[l] >= 0 /\ slotOp'[l] = slotOp[l]
    BY <2>1, <1>13
  <2>2. ASSUME NEW l \in Channel, slotOp'[l] >= 0
        PROVE  /\ slotOp'[l] \in Ops /\ img.device[slotOp'[l]] = "DMA" /\ ~done'[slotOp'[l]]
               /\ slotCh[l] \in Channel
               /\ chan'[slotCh[l]].busy
               /\ chan'[slotCh[l]].job = slotOp'[l]
    <3>1. slotOp[l] \in Ops /\ img.device[slotOp[l]] = "DMA" /\ ~done[slotOp[l]]
      BY <2>1, <2>2, <1>2 DEF SlotsInv
    <3>2. /\ slotCh[l] \in Channel
          /\ chan[slotCh[l]].busy /\ chan[slotCh[l]].job = slotOp[l]
      BY <2>1, <2>2, <1>2 DEF SlotsInv
    <3>3. slotOp[l] # i /\ slotCh[l] # c /\ slotOp'[l] = slotOp[l]
      BY <2>1, <2>2, <1>16
    <3> QED
      BY <3>1, <3>2, <3>3, <1>8, <1>11
  <2>3. ASSUME NEW d \in Channel, chan'[d].busy
        PROVE  \E l \in Channel : slotOp'[l] >= 0 /\ slotCh[l] = d
    <3>1. d # c /\ chan[d].busy
      BY <2>3, <1>8
    <3>2. PICK l \in Channel : slotOp[l] >= 0 /\ slotCh[l] = d
      BY <3>1, <1>2 DEF SlotsInv
    <3>3. l # k
      BY <3>1, <3>2 DEF c, k
    <3> QED
      BY <3>2, <3>3, <1>13
  <2>4. ASSUME NEW l \in Channel, NEW m \in Channel, slotOp'[l] >= 0, slotOp'[m] >= 0,
               slotCh[l] = slotCh[m] \/ slotOp'[l] = slotOp'[m]
        PROVE  l = m
    BY <2>1, <2>4, <1>2 DEF SlotsInv
  <2> QED
    BY <2>2, <2>3, <2>4, <1>1, <1>9 DEF SlotsInv
\* A compute row is still waiting for the one that has just landed.
<1>20. DeadlineInv'
  <2>1. PICK j \in img.succs[i] : img.device[j] # "DMA"
    BY <1>2, <1>4, ImageFacts
  <2>2. j \in Ops /\ i \in img.preds[j] /\ j # i
    BY <2>1, <1>2, <1>4, ImageFacts
  <2>3. i \in Pending(j)
    BY <2>2, <1>4 DEF Pending, Undone
  <2>4. dep[j] # 0
    BY <2>2, <2>3, <1>2, PendingFacts DEF CountsInv
  <2>5. ~done[j]
    BY <2>2, <2>4, <1>2 DEF StartsInv
  <2>6. j \in Undone'
    BY <2>2, <2>5, <1>11 DEF Undone
  <2> QED
    BY <2>6 DEF DeadlineInv
<1> QED
  BY <1>1, <1>2, <1>11, <1>14, <1>15, <1>18, <1>19, <1>20 DEF IInv, TableInv, WireInv

-----------------------------------------------------------------------------
\* A new frame starts from clean tables, slots and channels.
LEMMA BeginFrameIInv == IInv /\ BeginFrame => IInv'
<1> SUFFICES ASSUME IInv, BeginFrame PROVE IInv'
  OBVIOUS
<1>1. /\ caps' \in Masks /\ deadline' \in Deadlines /\ frames' = frames + 1
      /\ SimReset /\ OnFrameStart(img.plan)
      /\ slotOp' = [k \in Channel |-> -1] /\ slotCh' = [k \in Channel |-> -1]
      /\ uncompleted' = img.n
      /\ dep' = [i \in Ops |-> Cardinality(img.preds[i])]
      /\ ready' = [i \in Ops |-> img.preds[i] = {}]
      /\ done' = [i \in Ops |-> FALSE]
      /\ starts' = [i \in Ops |-> 0]
      /\ pc' = "loop" /\ status' = "running" /\ inOrder' = TRUE
      /\ UNCHANGED <<img, cursor, progress, span>>
  BY DEF BeginFrame
<1>2. TypeOK /\ img \in Images /\ Ops' = Ops
  BY <1>1 DEF IInv, Ops
<1>3. img.n \in Nat /\ Ops = 0 .. img.n - 1
  BY <1>2, ImageFacts
<1>4. ASSUME NEW i \in Ops
      PROVE  /\ Cardinality(img.preds[i]) \in Nat
             /\ Cardinality(img.preds[i]) = 0 <=> img.preds[i] = {}
             /\ img.preds[i] \subseteq Ops
  <2>1. img.preds[i] \in SUBSET (0 .. img.n - 1)
    BY <1>2, <1>3, ImageFacts
  <2> QED
    BY <2>1, <1>3, RowSets
<1>5. EngineTypeOK(Ops)'
  <2>1. chan' \in [Channel -> [busy : BOOLEAN, doneAt : Nat, job : Ops \cup {NoJob}]]
    BY <1>1 DEF SimReset, IdleChannel
  <2> QED
    BY <2>1, <1>1, <1>2 DEF SimReset, EngineTypeOK
<1>6. active' \subseteq Device
  BY <1>1, <1>2, ImageFacts DEF OnFrameStart, Domains, TypeOK
<1>7. TypeOK'
  <2>1. /\ dep' \in [Ops -> Int] /\ done' \in [Ops -> BOOLEAN]
        /\ slotOp' \in [Channel -> Int] /\ slotCh' \in [Channel -> Channel \cup {-1}]
        /\ starts' \in [Ops -> Nat]
    BY <1>1, <1>4
  <2>2. ready' \in [Ops -> BOOLEAN]
    BY <1>1
  <2>3. /\ caps' \subseteq Device /\ deadline' \in Nat /\ frames' \in Nat
        /\ uncompleted' \in Int
    BY <1>1, <1>2, <1>3, FramesAssumption DEF TypeOK
  <2> QED
    BY <2>1, <2>2, <2>3, <1>1, <1>2, <1>5, <1>6 DEF TypeOK, Statuses
<1>8. Undone' = Ops /\ \A i \in Ops : Pending(i)' = img.preds[i]
  BY <1>1, <1>2, <1>4 DEF Undone, Pending
<1>9. CountsInv'
  <2>1. Cardinality(Ops) = img.n
    BY <1>3, FS_Interval
  <2> QED
    BY <2>1, <1>1, <1>2, <1>4, <1>8 DEF CountsInv
<1>10. StartsInv'
  <2>1. \A i \in Ops : ~InFlight(i)'
    BY <1>1, <1>3 DEF InFlight
  <2> QED
    BY <2>1, <1>1, <1>2 DEF StartsInv
<1>11. SlotsInv'
  BY <1>1 DEF SlotsInv, SimReset, IdleChannel
<1>12. DeadlineInv'
  <2>1. now' = 0 /\ deadline' \in Nat
    BY <1>1, FramesAssumption DEF SimReset
  <2> QED
    BY <2>1 DEF DeadlineInv
<1>13. StatusInv' /\ ProgressInv' /\ StatusIsTruthful'
  BY <1>1 DEF StatusInv, ProgressInv, StatusIsTruthful, Running
<1> QED
  BY <1>1, <1>2, <1>7, <1>9, <1>10, <1>11, <1>12, <1>13 DEF IInv, TableInv, WireInv

-----------------------------------------------------------------------------
\* Every step preserves the invariant.
LEMMA NextIInv == IInv /\ [Next]_vars => IInv'
<1> SUFFICES ASSUME IInv, [Next]_vars PROVE IInv'
  OBVIOUS
<1>1. CASE UNCHANGED vars
  <2> USE <1>1 DEF vars, engineVars, argVars, tableVars, slotVars, histVars
  <2>1. Ops' = Ops /\ (img \in Images)'
    BY DEF Ops, IInv
  <2>2. TypeOK'
    BY <2>1 DEF IInv, TypeOK, EngineTypeOK
  <2>3. StatusInv' /\ DeadlineInv' /\ StatusIsTruthful'
    BY <2>1 DEF IInv, StatusInv, DeadlineInv, StatusIsTruthful, Running, Undone
  <2>4. TableInv'
    BY <2>1 DEF IInv, TableInv, CountsInv, StartsInv, Pending, Undone, InFlight, Running
  <2>5. WireInv'
    BY <2>1 DEF IInv, WireInv, SlotsInv
  <2>6. ProgressInv'
    BY <2>1 DEF IInv, ProgressInv, OnTheWire, Blocked, Startable, InFlight, AllBusy
  <2> QED
    BY <2>1, <2>2, <2>3, <2>4, <2>5, <2>6 DEF IInv
<1>2. CASE Next
  BY <1>2, BeginFrameIInv, BeginSweepIInv, FinishFrameIInv, PollNothingIInv,
     PollCompleteIInv, SkipRowIInv, DenyCapabilityIInv, SubmitTransferIInv,
     SubmitRefusedIInv, RunKernelIInv, MissDeadlineIInv, EndSweepIInv, StallIInv
  DEF Next, Scheduler
<1> QED
  BY <1>1, <1>2

\* The invariant holds in every state of every behaviour.
LEMMA Inductive == Spec => []IInv
  BY InitIInv, NextIInv, PTL DEF Spec

-----------------------------------------------------------------------------
\* Types: every variable stays in its range, the cursor of the poll loop on a
\* slot, every row number in a slot or a channel a row of the image.
THEOREM TypeCorrect == Spec => []TypeOK
<1>1. IInv => TypeOK
  BY DEF IInv
<1> QED
  BY <1>1, Inductive, PTL

\* The slots of the scheduler and the channels of the fabric are one record of
\* the transfers, in every frame, also one that follows a frame that faulted.
THEOREM WiresAgree == Spec => []WireAgreement
<1>1. IInv => WireAgreement
  <2> SUFFICES ASSUME IInv, Running PROVE WireAgreement
    BY DEF WireAgreement
  <2>1. SlotsInv
    BY DEF IInv, StatusInv, WireInv
  <2> QED
    BY <2>1 DEF SlotsInv, WireAgreement
<1> QED
  BY <1>1, Inductive, PTL

\* A row is started only when its predecessors are complete and its staged
\* operands have been copied.
THEOREM InputsAreResident == Spec => []InputsResident
<1>1. IInv => InputsResident
  <2> SUFFICES ASSUME IInv, NEW i \in Ops, starts[i] > 0, NEW p \in img.preds[i]
               PROVE  done[p] /\ (img.device[p] = "DMA" => p \in landed)
    BY DEF InputsResident
  <2>1. CountsInv /\ StartsInv /\ img \in Images
    BY DEF IInv, StatusInv, TableInv
  <2>2. p \in Ops
    BY <2>1, ImageFacts
  <2>3. Pending(i) = {}
    BY <2>1, PendingFacts DEF StartsInv, CountsInv
  <2>4. done[p]
    BY <2>2, <2>3 DEF Pending, Undone
  <2> QED
    BY <2>1, <2>2, <2>4 DEF StartsInv
<1> QED
  BY <1>1, Inductive, PTL

\* The counters are exact: no row starts twice, none completes unstarted, and
\* current_dep_count and "uncompleted" count what is left.
THEOREM CountersStayExact == Spec => []CountersExact
<1>1. IInv => CountersExact
  <2> SUFFICES ASSUME IInv, Running PROVE CountersExact
    BY DEF CountersExact
  <2>1. CountsInv /\ StartsInv /\ TypeOK
    BY DEF IInv, StatusInv, TableInv
  <2>2. ASSUME NEW i \in Ops PROVE starts[i] <= 1 /\ (done[i] => starts[i] = 1)
    BY <2>1 DEF StartsInv, TypeOK
  <2> QED
    BY <2>1, <2>2 DEF CountsInv, CountersExact
<1> QED
  BY <1>1, Inductive, PTL

\* What a frame returns is true, and it is never ERR_DEADLOCK.
THEOREM StatusTellsTheTruth == Spec => []StatusIsTruthful
<1>1. IInv => StatusIsTruthful
  BY DEF IInv
<1> QED
  BY <1>1, Inductive, PTL

\* The clock jumps at a stall only when no compute row can be started and no
\* channel is free for a DMA row that can.
THEOREM JumpsOnlyWhenStuck == Spec => StallsOnlyWhenStuck
<1>1. IInv /\ Stall => \A i \in Ops : Startable(i) => img.device[i] = "DMA" /\ AllBusy
  <2> SUFFICES ASSUME IInv, Stall, NEW i \in Ops PROVE Blocked(i)
    BY DEF Blocked
  <2>1. pc = "scan" /\ cursor >= img.n /\ ~progress
    BY DEF Stall
  <2>2. i < cursor
    BY <2>1, ImageFacts DEF IInv, TypeOK
  <2> QED
    BY <2>1, <2>2 DEF IInv, ProgressInv
<1>2. IInv /\ [Next]_vars
        => [Stall => \A i \in Ops : Startable(i) => img.device[i] = "DMA" /\ AllBusy]_vars
  BY <1>1
<1> QED
  BY <1>2, Inductive, PTL DEF Spec, StallsOnlyWhenStuck

-----------------------------------------------------------------------------
(* A frame as a whole carries out the image's dataflow, its clock can be   *)
(* trusted, and it owes nothing to the frames before it.                   *)

Started == {i \in Ops : starts[i] > 0}

-----------------------------------------------------------------------------
(* The dataflow.  The inductive invariant of DispatchProofs says that what *)
(* a step starts can start, and that the stall never ends a frame.         *)

Completed == {i \in Ops : done[i]}

\* Nothing the dataflow speaks of changes.
Invisible == UNCHANGED <<img, starts, done, status>>

LEMMA InvisibleStutters == Invisible => UNCHANGED DF!vars
BY DEF Invisible, DF!vars, Ops

\* The rows of the image are the rows of the dataflow.
LEMMA RowsAreOps == DF!Rows = Ops
BY DEF DF!Rows, DF!RowsOf, Ops, RowsOf

\* A row that the scan finds startable can start in the dataflow.
LEMMA StartableCanStart ==
  ASSUME IInv, status = "running", NEW i \in Ops, Startable(i)
  PROVE  DF!CanStart(i)
<1>1. starts[i] = 0 /\ \A p \in img.preds[i] : done[p]
  BY StartableFacts
<1>2. img.preds[i] \subseteq Ops
  BY ImageFacts DEF IInv
<1> QED BY <1>1, <1>2, RowsAreOps DEF DF!CanStart

LEMMA InitRefines == Init => DF!Init
BY DEF Init, DF!Init

LEMMA BeginFrameRefines == IInv /\ BeginFrame => DF!BeginFrame
<1> SUFFICES ASSUME IInv, BeginFrame PROVE DF!BeginFrame
  OBVIOUS
<1>1. /\ pc = "idle" /\ img' = img /\ status' = "running"
      /\ done' = [i \in Ops |-> FALSE] /\ starts' = [i \in Ops |-> 0]
  BY DEF BeginFrame
<1>2. Ops' = Ops /\ status # "running"
  BY <1>1 DEF Ops, IInv, StatusInv, Running
<1>3. Started' = {} /\ Completed' = {}
  BY <1>1, <1>2 DEF Started, Completed
<1> QED BY <1>1, <1>2, <1>3 DEF DF!BeginFrame, Started, Completed

LEMMA FinishFrameRefines == IInv /\ FinishFrame => DF!Return
<1> SUFFICES ASSUME IInv, FinishFrame PROVE DF!Return
  OBVIOUS
<1>1. /\ pc = "loop" /\ uncompleted <= 0 /\ status' = "OK"
      /\ UNCHANGED <<img, starts, done>>
  BY DEF FinishFrame, Return, argVars, tableVars
<1>2. status = "running" /\ CountsInv /\ img \in Images
  BY <1>1 DEF IInv, StatusInv, TableInv, Running
<1>3. Undone = {}
  BY <1>1, <1>2, PendingFacts DEF CountsInv
<1>4. Completed = Ops
  BY <1>3 DEF Completed, Undone
<1>5. Ops' = Ops
  BY <1>1 DEF Ops
<1> QED BY <1>1, <1>2, <1>4, <1>5, RowsAreOps DEF DF!Return, Completed

LEMMA DenyCapabilityRefines == IInv /\ DenyCapability => DF!Deny
<1> SUFFICES ASSUME IInv, DenyCapability PROVE DF!Deny
  OBVIOUS
<1>1. /\ Scanning /\ Startable(cursor) /\ status' = "ERR_CAPABILITY"
      /\ UNCHANGED <<img, starts, done>>
  BY DEF DenyCapability, Return, argVars, tableVars, histVars
<1>2. status = "running" /\ cursor \in Ops
  BY <1>1, ImageFacts DEF IInv, StatusInv, Running, Scanning, TypeOK
<1>3. DF!CanStart(cursor)
  BY <1>1, <1>2, StartableCanStart
<1>4. Ops' = Ops
  BY <1>1 DEF Ops
<1> QED BY <1>1, <1>2, <1>3, <1>4, RowsAreOps DEF DF!Deny

LEMMA RunKernelRefines == IInv /\ RunKernel => \E i \in DF!Rows : DF!Start(i)
<1> SUFFICES ASSUME IInv, RunKernel PROVE \E i \in DF!Rows : DF!Start(i)
  OBVIOUS
<1>1. PICK i \in Ops : Execute(i) /\ Complete(i) /\ status' = status
  BY DEF RunKernel
<1>2. /\ status = "running" /\ Startable(i) /\ TypeOK /\ img' = img /\ Ops' = Ops
      /\ starts'[i] = 1 /\ \A j \in Ops : j # i => starts'[j] = starts[j]
  BY <1>1, ExecuteFacts DEF argVars
<1>3. DF!CanStart(i)
  BY <1>2, StartableCanStart
<1>4. \A j \in Ops : done'[j] <=> done[j] \/ j = i
  BY <1>1, <1>2 DEF Complete, TypeOK
<1>5. Started' = Started \cup {i}
  BY <1>2 DEF Started
<1>6. Completed' = Completed \cup {i}
  BY <1>2, <1>4 DEF Completed
<1> QED BY <1>1, <1>2, <1>3, <1>5, <1>6, RowsAreOps DEF DF!Start, Started, Completed

LEMMA MissDeadlineRefines == IInv /\ MissDeadline => \E i \in DF!Rows : DF!Miss(i)
<1> SUFFICES ASSUME IInv, MissDeadline PROVE \E i \in DF!Rows : DF!Miss(i)
  OBVIOUS
<1>1. PICK i \in Ops : Execute(i) /\ done' = done /\ status' = "ERR_DEADLINE"
  BY DEF MissDeadline, Return, tableVars
<1>2. /\ status = "running" /\ Startable(i) /\ img' = img /\ Ops' = Ops
      /\ starts'[i] = 1 /\ \A j \in Ops : j # i => starts'[j] = starts[j]
  BY <1>1, ExecuteFacts DEF argVars
<1>3. DF!CanStart(i)
  BY <1>2, StartableCanStart
<1>4. Started' = Started \cup {i} /\ Completed' = Completed
  BY <1>1, <1>2 DEF Started, Completed
<1> QED BY <1>1, <1>2, <1>3, <1>4, RowsAreOps DEF DF!Miss, Started, Completed

LEMMA SubmitTransferRefines == IInv /\ SubmitTransfer => \E i \in DF!Rows : DF!Start(i)
<1> SUFFICES ASSUME IInv, SubmitTransfer PROVE \E i \in DF!Rows : DF!Start(i)
  OBVIOUS
<1>1. PICK i \in Ops :
        /\ AtRow(i) /\ starts' = [starts EXCEPT ![i] = @ + 1]
        /\ img' = img /\ done' = done /\ status' = status
  BY DEF SubmitTransfer, argVars, tableVars
<1>2. status = "running" /\ Startable(i) /\ TypeOK
  BY <1>1 DEF AtRow, Scanning, IInv, StatusInv, Running
<1>3. DF!CanStart(i) /\ starts[i] = 0
  BY <1>2, StartableCanStart, StartableFacts
<1>4. Ops' = Ops
  BY <1>1 DEF Ops
<1>5. Started' = Started \cup {i} /\ Completed' = Completed
  BY <1>1, <1>2, <1>3, <1>4 DEF Started, Completed, TypeOK
<1> QED BY <1>1, <1>2, <1>3, <1>5, RowsAreOps DEF DF!Start, Started, Completed

\* The row of a slot that is polled has started and is not complete.
LEMMA PollCompleteRefines == IInv /\ PollComplete => \E i \in DF!Rows : DF!Complete(i)
<1> SUFFICES ASSUME IInv, PollComplete PROVE \E i \in DF!Rows : DF!Complete(i)
  OBVIOUS
<1> DEFINE i == slotOp[cursor]
<1>1. /\ pc = "poll" /\ i >= 0 /\ Complete(i)
      /\ img' = img /\ starts' = starts /\ status' = status
  BY DEF PollComplete, PollDone, argVars
<1>2. TypeOK /\ status = "running" /\ StartsInv /\ SlotsInv /\ cursor \in Channel
  BY <1>1 DEF IInv, StatusInv, Running, TableInv, WireInv, TypeOK
<1>3. i \in Ops /\ ~done[i] /\ InFlight(i)
  BY <1>1, <1>2 DEF SlotsInv, InFlight
<1>4. starts[i] = 1
  BY <1>2, <1>3 DEF StartsInv
<1>5. i \in Started \ Completed
  BY <1>3, <1>4 DEF Started, Completed
<1>6. Ops' = Ops
  BY <1>1 DEF Ops
<1>7. \A j \in Ops : done'[j] <=> done[j] \/ j = i
  BY <1>1, <1>2 DEF Complete, TypeOK
<1>8. Started' = Started /\ Completed' = Completed \cup {i}
  BY <1>1, <1>3, <1>6, <1>7 DEF Started, Completed
<1> QED BY <1>1, <1>2, <1>3, <1>5, <1>8, RowsAreOps DEF DF!Complete, Started, Completed

\* The sweeps, the stall and the rows passed over are not seen by the dataflow.
LEMMA InvisibleSteps ==
  ASSUME IInv,
         BeginSweep \/ PollNothing \/ SkipRow \/ SubmitRefused \/ EndSweep \/ Stall
  PROVE  UNCHANGED DF!vars
<1> USE DEF argVars, tableVars, histVars
<1>1. CASE BeginSweep
  BY <1>1, InvisibleStutters DEF BeginSweep, Invisible
<1>2. CASE PollNothing
  BY <1>2, InvisibleStutters DEF PollNothing, Invisible
<1>3. CASE SkipRow
  BY <1>3, InvisibleStutters DEF SkipRow, Invisible
<1>4. CASE SubmitRefused
  BY <1>4, InvisibleStutters DEF SubmitRefused, Invisible
<1>5. CASE EndSweep
  BY <1>5, InvisibleStutters DEF EndSweep, Invisible
<1>6. CASE Stall
  BY <1>6, StallHasWaiting, InvisibleStutters DEF Stall, Invisible
<1> QED BY <1>1, <1>2, <1>3, <1>4, <1>5, <1>6

\* Every step of the scheduler is a step of the dataflow or none of it.
LEMMA StepRefines == IInv /\ [Next]_vars => [DF!Next]_(DF!vars)
<1> SUFFICES ASSUME IInv, [Next]_vars PROVE DF!Next \/ UNCHANGED DF!vars
  OBVIOUS
<1>1. CASE BeginFrame
  BY <1>1, BeginFrameRefines DEF DF!Next
<1>2. CASE FinishFrame
  BY <1>2, FinishFrameRefines DEF DF!Next
<1>3. CASE DenyCapability
  BY <1>3, DenyCapabilityRefines DEF DF!Next
<1>4. CASE RunKernel
  BY <1>4, RunKernelRefines DEF DF!Next
<1>5. CASE SubmitTransfer
  BY <1>5, SubmitTransferRefines DEF DF!Next
<1>6. CASE MissDeadline
  BY <1>6, MissDeadlineRefines DEF DF!Next
<1>7. CASE PollComplete
  BY <1>7, PollCompleteRefines DEF DF!Next
<1>8. CASE BeginSweep \/ PollNothing \/ SkipRow \/ SubmitRefused \/ EndSweep \/ Stall
  BY <1>8, InvisibleSteps
<1>9. CASE UNCHANGED vars
  BY <1>9, InvisibleStutters DEF vars, argVars, tableVars, histVars, Invisible
<1> QED
  BY <1>1, <1>2, <1>3, <1>4, <1>5, <1>6, <1>7, <1>8, <1>9 DEF Next, Scheduler

\* Every execution of the scheduler is one of the dataflow: a row starts once
\* and only after the rows it depends on, and OK is returned when all are
\* complete (README.md:75-82, c_generator.py:510-667).
THEOREM Refines == Spec => ImplementsDataflow
<1>1. Init => DF!Init
  BY InitRefines
<1>2. IInv /\ [Next]_vars => [DF!Next]_(DF!vars)
  BY StepRefines
<1> QED
  BY <1>1, <1>2, Inductive, PTL DEF Spec, ImplementsDataflow, DF!Spec

-----------------------------------------------------------------------------
(* The clock.  A frame takes at least what its kernels and each of its     *)
(* transfers take, and never more than all of it one after the other.      *)
(*                                                                         *)
(* MakespanBounds speaks of the clock alone, and the clock follows the     *)
(* channels: a stall moves it to a completion cycle.  TimeInv bounds those *)
(* too, from above by the work started, from below by the transfer each    *)
(* busy channel carries.                                                   *)

Computed == {i \in Ops : done[i] /\ img.device[i] # "DMA"}

TimeInv ==
  /\ now <= CostOf(Started)
  /\ \A c \in Channel : chan[c].doneAt <= CostOf(Started)
  /\ CostOf(Computed) <= now
  /\ \A i \in Ops : done[i] => Cost(i) <= now
  /\ \A c \in Channel : chan[c].busy =>
       \A i \in Ops : chan[c].job = i => Cost(i) <= chan[c].doneAt

-----------------------------------------------------------------------------
\* A transfer takes at least one cycle.
LEMMA TransferTakesTime ==
  ASSUME NEW b \in Nat
  PROVE  TransferCycles(b) \in Nat \ {0}
<1>1. b + Bandwidth - 1 \in Nat /\ Bandwidth \in Nat \ {0}
  BY EngineAssumption
<1>2. (b + Bandwidth - 1) \div Bandwidth \in Nat
  BY <1>1
<1> QED
  BY <1>2 DEF TransferCycles

\* The cost of a row is a natural, that of a set of rows their sum.
LEMMA CostFacts ==
  ASSUME img \in Images
  PROVE  /\ \A i \in Ops : Cost(i) \in Nat
         /\ CostOf({}) = 0
         /\ \A S \in SUBSET Ops : CostOf(S) \in Nat
         /\ \A S \in SUBSET Ops : \A i \in Ops \ S : CostOf(S \cup {i}) = CostOf(S) + Cost(i)
<1> DEFINE f == [i \in Ops |-> Cost(i)]
<1>1. IsFiniteSet(Ops)
  BY ImageFacts, FS_Interval
<1>2. \A i \in Ops : Cost(i) \in Nat
  <2>1. \A i \in Ops : img.bytes[i] \in Nat /\ img.wcet[i] \in Nat
    BY ImageFacts
  <2> QED
    BY <2>1, TransferTakesTime DEF Cost
<1>3. \A i \in Ops : f[i] = Cost(i) /\ f[i] \in Nat
  BY <1>2
<1>4. \A S : CostOf(S) = SumFunctionOnSet(f, S)
  BY DEF CostOf
<1> HIDE DEF f
<1>5. \A S \in SUBSET Ops : SumFunctionOnSet(f, S) \in Nat
  BY <1>1, <1>3, SumNatural
<1>6. SumFunctionOnSet(f, {}) = 0
  BY <1>1, <1>3, SumFacts
<1>7. ASSUME NEW S \in SUBSET Ops, NEW i \in Ops \ S
      PROVE  SumFunctionOnSet(f, S \cup {i}) = SumFunctionOnSet(f, S) + f[i]
  <2> DEFINE T == S \cup {i}
  <2>1. IsFiniteSet(T) /\ i \in T /\ \A x \in T : f[x] \in Int
    BY <1>1, <1>3, FS_Subset
  <2>2. SumFunctionOnSet(f, T) = f[i] + SumFunctionOnSet(f, T \ {i})
    BY <2>1, SumFacts
  <2>3. T \ {i} = S
    OBVIOUS
  <2> QED
    BY <1>3, <1>5, <2>2, <2>3
<1> QED
  BY <1>2, <1>3, <1>4, <1>5, <1>6, <1>7

\* Costs are those of the image, which never changes.
LEMMA CostsFixed ==
  ASSUME img' = img
  PROVE  /\ \A i : Cost(i)' = Cost(i) /\ \A S : CostOf(S)' = CostOf(S)
         /\ Ops' = Ops
<1>1. \A i : Cost(i)' = Cost(i)
  BY DEF Cost
<1>2. Ops' = Ops
  BY DEF Ops
<1>3. [i \in Ops' |-> Cost(i)'] = [i \in Ops |-> Cost(i)]
  BY <1>1, <1>2
<1> QED
  BY <1>1, <1>2, <1>3 DEF CostOf

\* A step that starts nothing and completes nothing keeps the bounds, if it
\* leaves the clock between where it was and the latest completion cycle.
LEMMA NothingStarted ==
  ASSUME IInv, TimeInv, img' = img, UNCHANGED <<starts, done, chan>>,
         now' \in Nat, now <= now', now' <= CostOf(Started)
  PROVE  TimeInv'
<1>1. /\ \A i : Cost(i)' = Cost(i) /\ \A S : CostOf(S)' = CostOf(S)
      /\ Ops' = Ops
  BY CostsFixed
<1>2. Started' = Started /\ Computed' = Computed /\ Computed \in SUBSET Ops
  BY <1>1 DEF Started, Computed
<1>3. CostOf(Started)' = CostOf(Started) /\ CostOf(Computed)' = CostOf(Computed)
  BY <1>1, <1>2
<1>4. /\ now \in Nat /\ img \in Images
      /\ \A i \in Ops : Cost(i) \in Nat
      /\ CostOf(Computed) \in Nat
  BY <1>2, CostFacts DEF IInv, TypeOK, EngineTypeOK
<1>5. (now <= CostOf(Started))' /\ (CostOf(Computed) <= now)'
  BY <1>3, <1>4 DEF TimeInv
<1>6. \A c \in Channel : chan'[c].doneAt <= CostOf(Started)'
  BY <1>3 DEF TimeInv
<1>7. \A i \in Ops' : done'[i] => Cost(i)' <= now'
  BY <1>1, <1>4 DEF TimeInv
<1>8. \A c \in Channel : chan'[c].busy =>
        \A i \in Ops' : chan'[c].job = i => Cost(i)' <= chan'[c].doneAt
  BY <1>1 DEF TimeInv
<1> QED
  BY <1>5, <1>6, <1>7, <1>8 DEF TimeInv

\* A row starts and takes its time, on the clock or on a channel: what was not
\* later than all that had started is not later than all that has.
LEMMA OneStarted ==
  ASSUME IInv, img' = img, NEW i \in Ops, starts[i] = 0, starts'[i] = 1,
         \A j \in Ops : j # i => starts'[j] = starts[j]
  PROVE  CostOf(Started)' = CostOf(Started) + Cost(i) /\ CostOf(Started) \in Nat /\ Cost(i) \in Nat
<1>1. Ops' = Ops /\ CostOf(Started)' = CostOf(Started') /\ img \in Images
  BY CostsFixed DEF IInv
<1>2. Started \in SUBSET Ops /\ i \in Ops \ Started /\ Started' = Started \cup {i}
  BY <1>1 DEF Started
<1> QED
  BY <1>1, <1>2, CostFacts

-----------------------------------------------------------------------------
\* Before the first frame no row has run and no time has passed.
LEMMA InitTime == Init => TimeInv
<1> SUFFICES ASSUME Init PROVE TimeInv
  OBVIOUS
<1>1. img \in Images /\ now = 0
  BY DEF Init, EngineInit
<1>2. Started = {} /\ Computed = {} /\ CostOf({}) = 0
  BY <1>1, CostFacts DEF Init, Started, Computed
<1>3. \A c \in Channel : chan[c].doneAt = 0 /\ ~chan[c].busy
  BY DEF Init, EngineInit, IdleChannel
<1>4. \A i \in Ops : ~done[i]
  BY DEF Init
<1> QED
  BY <1>1, <1>2, <1>3, <1>4 DEF TimeInv

\* A new frame begins at cycle 0 with idle channels.
LEMMA BeginFrameTime == IInv /\ TimeInv /\ BeginFrame => TimeInv'
<1> SUFFICES ASSUME IInv, BeginFrame PROVE TimeInv'
  OBVIOUS
<1>1. /\ img' = img /\ now' = 0 /\ chan' = [c \in Channel |-> IdleChannel]
      /\ done' = [i \in Ops |-> FALSE] /\ starts' = [i \in Ops |-> 0]
  BY DEF BeginFrame, SimReset
<1>2. Ops' = Ops /\ \A S : CostOf(S)' = CostOf(S)
  BY <1>1, CostsFixed
<1>3. Started' = {} /\ Computed' = {}
  BY <1>1, <1>2 DEF Started, Computed
<1>4. CostOf(Started)' = 0 /\ CostOf(Computed)' = 0
  BY <1>2, <1>3, CostFacts DEF IInv
<1>5. \A c \in Channel : chan'[c].doneAt = 0 /\ ~chan'[c].busy
  BY <1>1 DEF IdleChannel
<1>6. \A i \in Ops' : ~done'[i]
  BY <1>1, <1>2
<1>7. (now <= CostOf(Started))' /\ (CostOf(Computed) <= now)'
  BY <1>1, <1>4
<1>8. \A c \in Channel : chan'[c].doneAt <= CostOf(Started)'
  BY <1>4, <1>5
<1> QED
  BY <1>5, <1>6, <1>7, <1>8 DEF TimeInv

\* A stall moves the clock on to the completion cycle of a transfer.
LEMMA StallTime == IInv /\ TimeInv /\ Stall => TimeInv'
<1> SUFFICES ASSUME IInv, TimeInv, Stall PROVE TimeInv'
  OBVIOUS
<1>1. PICK k \in Channel : Waiting(k) /\ SimAdvance(StallCycles(k))
  BY StallHasWaiting DEF Stall, IsLastWaiting
<1>2. status # "none"
  BY DEF Stall, IInv, StatusInv, Running
<1>3. slotCh[k] \in Channel /\ ~DmaDone(slotCh[k])
  BY <1>1, <1>2 DEF Waiting, IInv, WireInv, SlotsInv
<1>4. now \in Nat /\ chan[slotCh[k]].doneAt \in Nat
  BY <1>3 DEF IInv, TypeOK, EngineTypeOK
<1>5. now' = chan[slotCh[k]].doneAt /\ now < chan[slotCh[k]].doneAt
  BY <1>1, <1>3, <1>4 DEF SimAdvance, StallCycles, DmaDone
<1>6. /\ img' = img /\ UNCHANGED <<starts, done, chan>>
  BY <1>1 DEF Stall, SimAdvance, argVars, tableVars, histVars
<1>7. now' <= CostOf(Started)
  BY <1>3, <1>5 DEF TimeInv
<1> QED
  BY <1>4, <1>5, <1>6, <1>7, NothingStarted

\* A finished transfer has taken its time by the clock.
LEMMA PollCompleteTime == IInv /\ TimeInv /\ PollComplete => TimeInv'
<1> SUFFICES ASSUME IInv, TimeInv, PollComplete PROVE TimeInv'
  OBVIOUS
<1> DEFINE k == cursor
           i == slotOp[k]
           c == slotCh[k]
<1>1. k \in Channel /\ slotOp[k] >= 0 /\ status # "none"
  BY DEF PollComplete, PollDone, IInv, TypeOK, StatusInv, Running
<1>2. i \in Ops /\ img.device[i] = "DMA" /\ c \in Channel /\ chan[c].busy /\ chan[c].job = i
  BY <1>1 DEF IInv, WireInv, SlotsInv
<1>3. /\ now \in Nat /\ img \in Images /\ done \in [Ops -> BOOLEAN]
      /\ chan \in [Channel -> [busy : BOOLEAN, doneAt : Nat, job : Ops \cup {NoJob}]]
  BY DEF IInv, TypeOK, EngineTypeOK
<1>4. chan[c].doneAt <= now
  BY <1>2 DEF PollComplete, PollDone, PollResult
<1>5. Cost(i) <= now
  <2>1. Cost(i) \in Nat /\ Cost(i) <= chan[c].doneAt
    BY <1>2, <1>3, CostFacts DEF TimeInv
  <2> QED
    BY <1>2, <1>3, <1>4, <2>1
<1>6. /\ img' = img /\ UNCHANGED <<now, starts>> /\ CompleteIfReady({c}, now)
      /\ done' = [done EXCEPT ![i] = TRUE]
  BY DEF PollComplete, Poll, Complete, argVars
<1>7. /\ \A d \in Channel : chan'[d].doneAt = chan[d].doneAt /\ chan'[d].job = chan[d].job
      /\ \A d \in Channel : chan'[d].busy => chan[d].busy
  BY <1>3, <1>6 DEF CompleteIfReady
<1> HIDE DEF i, c, k
<1>8. /\ \A j : Cost(j)' = Cost(j) /\ \A S : CostOf(S)' = CostOf(S)
      /\ Ops' = Ops
  BY <1>6, CostsFixed
<1>9. \A j \in Ops : done'[j] <=> done[j] \/ j = i
  BY <1>3, <1>6
<1>10. Started' = Started /\ Computed' = Computed
  BY <1>2, <1>6, <1>8, <1>9 DEF Started, Computed
<1>11. CostOf(Started)' = CostOf(Started) /\ CostOf(Computed)' = CostOf(Computed)
  BY <1>8, <1>10
<1>12. (now <= CostOf(Started))' /\ (CostOf(Computed) <= now)'
  BY <1>6, <1>11 DEF TimeInv
<1>13. \A d \in Channel : chan'[d].doneAt <= CostOf(Started)'
  BY <1>7, <1>11 DEF TimeInv
<1>14. \A j \in Ops' : done'[j] => Cost(j)' <= now'
  BY <1>5, <1>6, <1>8, <1>9 DEF TimeInv
<1>15. \A d \in Channel : chan'[d].busy =>
        \A j \in Ops' : chan'[d].job = j => Cost(j)' <= chan'[d].doneAt
  BY <1>7, <1>8 DEF TimeInv
<1> QED
  BY <1>12, <1>13, <1>14, <1>15 DEF TimeInv

\* A submission fixes a completion cycle no later than if it were the only
\* transfer left to wait for.
LEMMA SubmitTransferTime == IInv /\ TimeInv /\ SubmitTransfer => TimeInv'
<1> SUFFICES ASSUME IInv, TimeInv, SubmitTransfer PROVE TimeInv'
  OBVIOUS
<1>1. PICK i \in Ops, c \in Channel :
        /\ AtRow(i) /\ img.device[i] = "DMA" /\ Submit(c, i, img.bytes[i])
        /\ starts' = [starts EXCEPT ![i] = @ + 1]
  BY DEF SubmitTransfer
<1>2. status = "running" /\ Startable(i)
  BY <1>1 DEF AtRow, Scanning, IInv, StatusInv, Running
<1>3. starts[i] = 0
  BY <1>2, StartableFacts
<1>4. /\ now \in Nat /\ img \in Images /\ starts \in [Ops -> Nat]
      /\ chan \in [Channel -> [busy : BOOLEAN, doneAt : Nat, job : Ops \cup {NoJob}]]
  BY DEF IInv, TypeOK, EngineTypeOK
<1>5. img' = img /\ UNCHANGED <<now, done>>
  BY <1>1 DEF SubmitTransfer, argVars, tableVars, Submit
<1>6. starts'[i] = 1 /\ \A j \in Ops : j # i => starts'[j] = starts[j]
  BY <1>1, <1>3, <1>4
<1>7. CostOf(Started)' = CostOf(Started) + Cost(i) /\ CostOf(Started) \in Nat /\ Cost(i) \in Nat
  BY <1>3, <1>5, <1>6, OneStarted
<1>8. Cost(i) = TransferCycles(img.bytes[i])
  BY <1>1 DEF Cost
<1>9. /\ chan'[c].doneAt = StartOn(c) + Cost(i) /\ chan'[c].job = i
      /\ \A d \in Channel : d # c => chan'[d] = chan[d]
  BY <1>1, <1>4, <1>8 DEF Submit
<1>10. StartOn(c) \in Nat /\ StartOn(c) <= CostOf(Started)
  BY <1>4 DEF StartOn, TimeInv
<1>11. /\ \A j : Cost(j)' = Cost(j) /\ \A S : CostOf(S)' = CostOf(S)
       /\ Ops' = Ops
  BY <1>5, CostsFixed
<1>12. Computed' = Computed /\ CostOf(Computed)' = CostOf(Computed)
  BY <1>5, <1>11 DEF Computed
<1>13. (now <= CostOf(Started))' /\ (CostOf(Computed) <= now)'
  BY <1>4, <1>5, <1>7, <1>12 DEF TimeInv
<1>14. \A d \in Channel : chan'[d].doneAt <= CostOf(Started)'
  <2>1. ASSUME NEW d \in Channel, d # c PROVE chan'[d].doneAt <= CostOf(Started)'
    <3>1. chan'[d].doneAt = chan[d].doneAt /\ chan[d].doneAt \in Nat
      BY <1>4, <1>9, <2>1
    <3> QED
      BY <1>7, <3>1 DEF TimeInv
  <2>2. chan'[c].doneAt <= CostOf(Started)'
    BY <1>7, <1>9, <1>10
  <2> QED
    BY <2>1, <2>2
<1>15. \A j \in Ops' : done'[j] => Cost(j)' <= now'
  BY <1>5, <1>11 DEF TimeInv
<1>16. \A d \in Channel : chan'[d].busy =>
        \A j \in Ops' : chan'[d].job = j => Cost(j)' <= chan'[d].doneAt
  <2>1. ASSUME NEW d \in Channel, d # c, chan'[d].busy, NEW j \in Ops, chan'[d].job = j
        PROVE  Cost(j)' <= chan'[d].doneAt
    BY <1>9, <1>11, <2>1 DEF TimeInv
  <2>2. Cost(i)' <= chan'[c].doneAt
    BY <1>7, <1>9, <1>10, <1>11
  <2> QED
    BY <1>9, <1>11, <2>1, <2>2
<1> QED
  BY <1>13, <1>14, <1>15, <1>16 DEF TimeInv

\* Before a kernel no input is left to wait for, so it costs its own time.
LEMMA ExecuteTime ==
  ASSUME IInv, TimeInv, NEW i \in Ops, Execute(i)
  PROVE  /\ img' = img /\ chan' = chan /\ ~done[i] /\ img.device[i] # "DMA"
         /\ CostOf(Started)' = CostOf(Started) + Cost(i)
         /\ CostOf(Started) \in Nat /\ Cost(i) \in Nat /\ now \in Nat
         /\ now' = now + Cost(i)
<1>1. /\ status = "running" /\ Startable(i) /\ img \in Images /\ img' = img /\ chan' = chan
      /\ starts[i] = 0 /\ starts'[i] = 1 /\ \A j \in Ops : j # i => starts'[j] = starts[j]
      /\ ~done[i] /\ img.device[i] # "DMA"
  BY ExecuteFacts DEF argVars
<1>2. InputChannels(i) = {}
  BY <1>1, StartableFacts
<1>3. img.wcet[i] \in Nat /\ TypeOK /\ now \in Nat
  BY <1>1, ImageFacts DEF IInv, TypeOK, EngineTypeOK
<1>4. WaitThenAdvance({}, img.wcet[i])
  BY <1>2 DEF Execute
<1>5. now' = now + img.wcet[i]
  BY <1>3, <1>4, WaitOnNothing
<1>6. Cost(i) = img.wcet[i]
  BY <1>1 DEF Cost
<1> QED
  BY <1>1, <1>3, <1>5, <1>6, OneStarted

\* A kernel adds its time to the clock.
LEMMA RunKernelTime == IInv /\ TimeInv /\ RunKernel => TimeInv'
<1> SUFFICES ASSUME IInv, TimeInv, RunKernel PROVE TimeInv'
  OBVIOUS
<1>1. PICK i \in Ops : Execute(i) /\ Complete(i)
  BY DEF RunKernel
<1>2. /\ img' = img /\ chan' = chan /\ ~done[i] /\ img.device[i] # "DMA"
      /\ CostOf(Started)' = CostOf(Started) + Cost(i)
      /\ CostOf(Started) \in Nat /\ Cost(i) \in Nat /\ now \in Nat
      /\ now' = now + Cost(i)
  BY <1>1, ExecuteTime
<1>3. /\ \A j : Cost(j)' = Cost(j) /\ \A S : CostOf(S)' = CostOf(S)
      /\ Ops' = Ops
  BY <1>2, CostsFixed
<1>4. /\ img \in Images /\ done \in [Ops -> BOOLEAN]
      /\ chan \in [Channel -> [busy : BOOLEAN, doneAt : Nat, job : Ops \cup {NoJob}]]
  BY DEF IInv, TypeOK, EngineTypeOK
<1>5. \A j \in Ops : done'[j] <=> done[j] \/ j = i
  BY <1>1, <1>4 DEF Complete
<1>6. Computed' = Computed \cup {i} /\ i \in Ops \ Computed /\ Computed \in SUBSET Ops
  BY <1>2, <1>3, <1>5 DEF Computed
<1>7. CostOf(Computed)' = CostOf(Computed) + Cost(i) /\ CostOf(Computed) \in Nat
  BY <1>3, <1>4, <1>6, CostFacts
<1>8. (now <= CostOf(Started))' /\ (CostOf(Computed) <= now)'
  BY <1>2, <1>7 DEF TimeInv
<1>9. \A c \in Channel : chan'[c].doneAt <= CostOf(Started)'
  <2> SUFFICES ASSUME NEW c \in Channel PROVE chan[c].doneAt <= CostOf(Started)'
    BY <1>2
  <2>1. chan[c].doneAt \in Nat /\ chan[c].doneAt <= CostOf(Started)
    BY <1>4 DEF TimeInv
  <2> QED
    BY <1>2, <2>1
<1>10. \A j \in Ops' : done'[j] => Cost(j)' <= now'
  <2> SUFFICES ASSUME NEW j \in Ops, done'[j] PROVE Cost(j) <= now'
    BY <1>3
  <2>1. Cost(j) \in Nat
    BY <1>4, CostFacts
  <2>2. CASE j = i
    BY <1>2, <2>2
  <2>3. CASE j # i
    <3>1. Cost(j) <= now
      BY <1>5, <2>3 DEF TimeInv
    <3> QED
      BY <1>2, <2>1, <3>1
  <2> QED
    BY <2>2, <2>3
<1>11. \A c \in Channel : chan'[c].busy =>
        \A j \in Ops' : chan'[c].job = j => Cost(j)' <= chan'[c].doneAt
  BY <1>2, <1>3 DEF TimeInv
<1> QED
  BY <1>8, <1>9, <1>10, <1>11 DEF TimeInv

\* So does one that ends too late; its row is not complete.
LEMMA MissDeadlineTime == IInv /\ TimeInv /\ MissDeadline => TimeInv'
<1> SUFFICES ASSUME IInv, TimeInv, MissDeadline PROVE TimeInv'
  OBVIOUS
<1>1. PICK i \in Ops : Execute(i)
  BY DEF MissDeadline
<1>2. done' = done
  BY DEF MissDeadline, tableVars
<1>3. /\ img' = img /\ chan' = chan
      /\ CostOf(Started)' = CostOf(Started) + Cost(i)
      /\ CostOf(Started) \in Nat /\ Cost(i) \in Nat /\ now \in Nat
      /\ now' = now + Cost(i)
  BY <1>1, ExecuteTime
<1>4. /\ \A j : Cost(j)' = Cost(j) /\ \A S : CostOf(S)' = CostOf(S)
      /\ Ops' = Ops
  BY <1>3, CostsFixed
<1>5. /\ img \in Images
      /\ chan \in [Channel -> [busy : BOOLEAN, doneAt : Nat, job : Ops \cup {NoJob}]]
  BY DEF IInv, TypeOK, EngineTypeOK
<1>6. Computed' = Computed /\ CostOf(Computed)' = CostOf(Computed) /\ Computed \in SUBSET Ops
  BY <1>2, <1>3, <1>4 DEF Computed
<1>7. CostOf(Computed) \in Nat /\ \A j \in Ops : Cost(j) \in Nat
  BY <1>5, <1>6, CostFacts
<1>8. (now <= CostOf(Started))' /\ (CostOf(Computed) <= now)'
  BY <1>3, <1>6, <1>7 DEF TimeInv
<1>9. \A c \in Channel : chan'[c].doneAt <= CostOf(Started)'
  <2> SUFFICES ASSUME NEW c \in Channel PROVE chan[c].doneAt <= CostOf(Started)'
    BY <1>3
  <2>1. chan[c].doneAt \in Nat /\ chan[c].doneAt <= CostOf(Started)
    BY <1>5 DEF TimeInv
  <2> QED
    BY <1>3, <2>1
<1>10. \A j \in Ops' : done'[j] => Cost(j)' <= now'
  BY <1>2, <1>3, <1>4, <1>7 DEF TimeInv
<1>11. \A c \in Channel : chan'[c].busy =>
        \A j \in Ops' : chan'[c].job = j => Cost(j)' <= chan'[c].doneAt
  BY <1>3, <1>4 DEF TimeInv
<1> QED
  BY <1>8, <1>9, <1>10, <1>11 DEF TimeInv

\* The other steps neither start nor complete a row, and no time passes.
LEMMA QuietTime ==
  ASSUME IInv, TimeInv, UNCHANGED <<img, starts, done, chan, now>>
  PROVE  TimeInv'
<1>1. now \in Nat
  BY DEF IInv, TypeOK, EngineTypeOK
<1> QED
  BY <1>1, NothingStarted DEF TimeInv

LEMMA NextTime == IInv /\ TimeInv /\ [Next]_vars => TimeInv'
<1> SUFFICES ASSUME IInv, TimeInv, [Next]_vars PROVE TimeInv'
  OBVIOUS
<1> USE DEF argVars, engineVars, tableVars, histVars
<1>1. CASE \/ BeginSweep \/ FinishFrame \/ PollNothing \/ SkipRow \/ DenyCapability
           \/ SubmitRefused \/ EndSweep
  BY <1>1, QuietTime DEF BeginSweep, FinishFrame, PollNothing, SkipRow, DenyCapability,
                         SubmitRefused, EndSweep
<1>2. CASE UNCHANGED vars
  BY <1>2, QuietTime DEF vars
<1> QED
  BY <1>1, <1>2, BeginFrameTime, StallTime, PollCompleteTime, SubmitTransferTime,
     RunKernelTime, MissDeadlineTime DEF Next, Scheduler

\* The clock is at least the work done and at most the work started, whatever
\* overlapped with what (README.md:78-79).
THEOREM ClockIsBounded == Spec => []MakespanBounds
<1>1. Init => TimeInv
  BY InitTime
<1>2. IInv /\ TimeInv /\ [Next]_vars => TimeInv'
  BY NextTime
<1>3. TimeInv => MakespanBounds
  BY DEF TimeInv, MakespanBounds, Started, Computed
<1> QED
  BY <1>1, <1>2, <1>3, Inductive, PTL DEF Spec

-----------------------------------------------------------------------------
(* Independence.  What a frame does next depends on nothing but its view:  *)
(* not on the mask or the deadline, which can only end it, nor on counters *)
(* that carry over.  So a frame that is not ended runs through the views   *)
(* that follow from the first one, and there is one clock it can end with. *)

View(where, k, went, fin, ops, chs, t, chns) ==
  [pc |-> where, cursor |-> k, progress |-> went, done |-> fin,
   slotOp |-> ops, slotCh |-> chs, now |-> t, chan |-> chns]

\* The head of the loop resets the cursor and the flag before they are read.
CurrentView ==
  View(pc, IF pc = "loop" THEN 0 ELSE cursor, IF pc = "loop" THEN FALSE ELSE progress,
       done, slotOp, slotCh, now, chan)

Views(image) ==
  [pc : {"idle", "loop", "poll", "scan"}, cursor : Nat, progress : BOOLEAN,
   done : [RowsOf(image) -> BOOLEAN],
   slotOp : [Channel -> Int], slotCh : [Channel -> Channel \cup {-1}], now : Nat,
   chan : [Channel -> [busy : BOOLEAN, doneAt : Nat, job : RowsOf(image) \cup {NoJob}]]]

FirstView(image) ==
  View("loop", 0, FALSE, [i \in RowsOf(image) |-> FALSE],
       [k \in Channel |-> -1], [k \in Channel |-> -1], 0, [c \in Channel |-> IdleChannel])

AllDone(image, v) == \A i \in RowsOf(image) : v.done[i]

Final(image, v) == v.pc = "loop" /\ AllDone(image, v)

\* One turn of the poll loop.
Lands(v) ==
  /\ v.slotOp[v.cursor] >= 0
  /\ LET ch == v.chan[v.slotCh[v.cursor]] IN ~ch.busy \/ ch.doneAt <= v.now

Freed(v, c) ==
  [d \in Channel |-> IF d = c /\ v.chan[d].busy /\ v.chan[d].doneAt <= v.now
                     THEN [v.chan[d] EXCEPT !.busy = FALSE] ELSE v.chan[d]]

PollTurn(v) ==
  LET last  == v.cursor = NumChannels - 1
      where == IF last THEN "scan" ELSE "poll"
      next  == IF last THEN 0 ELSE v.cursor + 1
  IN  IF Lands(v)
      THEN View(where, next, TRUE, [v.done EXCEPT ![v.slotOp[v.cursor]] = TRUE],
                [v.slotOp EXCEPT ![v.cursor] = -1], v.slotCh, v.now,
                Freed(v, v.slotCh[v.cursor]))
      ELSE View(where, next, v.progress, v.done, v.slotOp, v.slotCh, v.now, v.chan)

\* One turn of the scan.
Runnable(image, v, i) ==
  /\ ~v.done[i] /\ \A k \in Channel : v.slotOp[k] # i
  /\ \A p \in image.preds[i] : v.done[p]

FirstFree(v) ==
  CHOOSE c \in Channel : ~v.chan[c].busy /\ \A d \in Channel : d < c => v.chan[d].busy

FirstSlot(v) ==
  CHOOSE k \in Channel : v.slotOp[k] < 0 /\ \A l \in Channel : l < k => v.slotOp[l] >= 0

Later(a, b) == IF a > b THEN a ELSE b

SubmitTurn(image, v) ==
  LET i == v.cursor
      c == FirstFree(v)
      k == FirstSlot(v)
  IN  View("scan", i + 1, TRUE, v.done, [v.slotOp EXCEPT ![k] = i], [v.slotCh EXCEPT ![k] = c],
           v.now,
           [v.chan EXCEPT ![c] =
              [busy   |-> TRUE,
               doneAt |-> Later(v.now, v.chan[c].doneAt) + TransferCycles(image.bytes[i]),
               job    |-> i]])

ScanTurn(image, v) ==
  LET i == v.cursor
  IN  IF ~Runnable(image, v, i) \/ (image.device[i] = "DMA" /\ \A c \in Channel : v.chan[c].busy)
      THEN View("scan", i + 1, v.progress, v.done, v.slotOp, v.slotCh, v.now, v.chan)
      ELSE IF image.device[i] = "DMA"
      THEN SubmitTurn(image, v)
      ELSE View("scan", i + 1, TRUE, [v.done EXCEPT ![i] = TRUE], v.slotOp, v.slotCh,
                v.now + image.wcet[i], v.chan)

\* The end of a sweep, with or without progress.
WaitsFor(v, k) == v.slotOp[k] >= 0 /\ ~(v.now >= v.chan[v.slotCh[k]].doneAt)

LastWait(v) ==
  CHOOSE k \in Channel : WaitsFor(v, k) /\ \A l \in Channel : l > k => ~WaitsFor(v, l)

EndTurn(image, v) ==
  View("loop", 0, FALSE, v.done, v.slotOp, v.slotCh,
       IF v.progress \/ AllDone(image, v) THEN v.now ELSE v.chan[v.slotCh[LastWait(v)]].doneAt,
       v.chan)

Turn(image, v) ==
  IF v.pc = "loop" THEN View("poll", 0, FALSE, v.done, v.slotOp, v.slotCh, v.now, v.chan)
  ELSE IF v.pc = "poll" THEN PollTurn(v)
  ELSE IF v.cursor < image.n THEN ScanTurn(image, v)
  ELSE EndTurn(image, v)

\* The views from which turns lead to a final view with the clock at t.
Closed(image, t, X) ==
  \A v \in Views(image) :
    (IF Final(image, v) THEN v.now = t ELSE Turn(image, v) \in X) => v \in X

EndsAt(image, t) ==
  {v \in Views(image) : \A X \in SUBSET Views(image) : Closed(image, t, X) => v \in X}

-----------------------------------------------------------------------------
\* Whether a view ends at t is settled at the end, and by any view on the way.
LEMMA EndsAtFacts ==
  ASSUME NEW image, NEW t, NEW v \in Views(image)
  PROVE  /\ Final(image, v) => (v \in EndsAt(image, t) <=> v.now = t)
         /\ ~Final(image, v) => (v \in EndsAt(image, t) <=> Turn(image, v) \in EndsAt(image, t))
<1> DEFINE V == Views(image)
           E == EndsAt(image, t)
<1>1. E = {u \in V : \A X \in SUBSET V : Closed(image, t, X) => u \in X}
  BY DEF EndsAt
<1>2. \A X : Closed(image, t, X) <=>
        \A u \in V : (IF Final(image, u) THEN u.now = t ELSE Turn(image, u) \in X) => u \in X
  BY DEF Closed
<1> HIDE DEF V, E
<1>3. v \in V
  BY DEF V
<1>4. ASSUME IF Final(image, v) THEN v.now = t ELSE Turn(image, v) \in E
      PROVE  v \in E
  <2>1. ASSUME NEW X \in SUBSET V, Closed(image, t, X) PROVE v \in X
    <3>1. Turn(image, v) \in E => Turn(image, v) \in X
      BY <1>1, <2>1
    <3> QED
      BY <1>2, <1>3, <1>4, <2>1, <3>1
  <2> QED
    BY <1>1, <1>3, <2>1
<1>5. ASSUME v \in E
      PROVE  IF Final(image, v) THEN v.now = t ELSE Turn(image, v) \in E
  <2> SUFFICES ASSUME ~(IF Final(image, v) THEN v.now = t ELSE Turn(image, v) \in E)
               PROVE  FALSE
    OBVIOUS
  <2>1. \E X \in SUBSET V : Closed(image, t, X)
                          /\ ~(IF Final(image, v) THEN v.now = t ELSE Turn(image, v) \in X)
    <3>1. CASE Final(image, v) \/ Turn(image, v) \notin V
      <4>1. Closed(image, t, V) /\ V \in SUBSET V
        BY <1>2
      <4> QED
        BY <3>1, <4>1
    <3>2. CASE ~Final(image, v) /\ Turn(image, v) \in V
      <4>1. Turn(image, v) \notin E
        BY <3>2
      <4> QED
        BY <1>1, <3>2, <4>1
    <3> QED
      BY <3>1, <3>2
  <2>2. PICK X \in SUBSET V :
          Closed(image, t, X) /\ ~(IF Final(image, v) THEN v.now = t ELSE Turn(image, v) \in X)
    BY <2>1
  <2> DEFINE W == X \ {v}
  <2>3. W \in SUBSET V /\ v \notin W
    OBVIOUS
  <2>4. Closed(image, t, W)
    <3>1. ASSUME NEW u \in V, IF Final(image, u) THEN u.now = t ELSE Turn(image, u) \in W
          PROVE  u \in W
      <4>1. u # v
        BY <2>2, <3>1
      <4>2. u \in X
        BY <1>2, <2>2, <3>1
      <4> QED
        BY <4>1, <4>2
    <3> HIDE DEF W
    <3> QED
      BY <1>2, <3>1
  <2> HIDE DEF W
  <2> QED
    BY <1>1, <1>5, <2>3, <2>4
<1> QED
  BY <1>4, <1>5 DEF E

\* The current view is one.
LEMMA ViewTypes == IInv => CurrentView \in Views(img)
<1> SUFFICES ASSUME IInv PROVE CurrentView \in Views(img)
  OBVIOUS
<1>1. Ops = RowsOf(img)
  BY DEF Ops
<1> QED
  BY <1>1 DEF IInv, TypeOK, EngineTypeOK, CurrentView, View, Views

\* What the view says of rows is what the tables say.
LEMMA ViewFacts ==
  ASSUME IInv, status = "running"
  PROVE  /\ CurrentView.pc = pc /\ (pc # "loop" => CurrentView.cursor = cursor
                                                 /\ CurrentView.progress = progress)
         /\ CurrentView.done = done /\ CurrentView.slotOp = slotOp /\ CurrentView.slotCh = slotCh
         /\ CurrentView.now = now /\ CurrentView.chan = chan
         /\ AllDone(img, CurrentView) <=> uncompleted <= 0
         /\ \A i \in Ops : Runnable(img, CurrentView, i) <=> Startable(i)
<1>1. /\ CurrentView.pc = pc /\ (pc # "loop" => CurrentView.cursor = cursor
                                               /\ CurrentView.progress = progress)
      /\ CurrentView.done = done /\ CurrentView.slotOp = slotOp /\ CurrentView.slotCh = slotCh
      /\ CurrentView.now = now /\ CurrentView.chan = chan
  BY DEF CurrentView, View
<1>2. CountsInv /\ StartsInv /\ img \in Images /\ TypeOK
  BY DEF IInv, TableInv
<1>3. AllDone(img, CurrentView) <=> uncompleted <= 0
  <2>1. AllDone(img, CurrentView) <=> Undone = {}
    BY <1>1 DEF AllDone, Undone, Ops
  <2>2. uncompleted = Cardinality(Undone)
    BY <1>2 DEF CountsInv
  <2> QED
    BY <1>2, <2>1, <2>2, PendingFacts
<1>4. \A i \in Ops : Runnable(img, CurrentView, i) <=> Startable(i)
  <2> SUFFICES ASSUME NEW i \in Ops PROVE Runnable(img, CurrentView, i) <=> Startable(i)
    OBVIOUS
  <2>1. (\A p \in img.preds[i] : done[p]) <=> Pending(i) = {}
    BY <1>2, ImageFacts DEF Pending, Undone
  <2>2. dep[i] = 0 <=> Pending(i) = {}
    BY <1>2, PendingFacts DEF CountsInv
  <2>3. ~done[i] => (ready[i] <=> dep[i] = 0)
    BY <1>2 DEF CountsInv
  <2> QED
    BY <1>1, <2>1, <2>2, <2>3 DEF Runnable, Startable, InFlight
<1> QED
  BY <1>1, <1>3, <1>4

-----------------------------------------------------------------------------
\* A step of the scheduler that does not end the frame is a turn of its view.
TurnTaken == ~Final(img, CurrentView) /\ CurrentView' = Turn(img, CurrentView)

NextView ==
  View(pc', IF pc' = "loop" THEN 0 ELSE cursor', IF pc' = "loop" THEN FALSE ELSE progress',
       done', slotOp', slotCh', now', chan')

LEMMA ViewPrimed == CurrentView' = NextView
  BY DEF CurrentView, NextView, View

LEMMA BeginSweepTurns == IInv /\ BeginSweep => TurnTaken
<1> SUFFICES ASSUME IInv, BeginSweep PROVE TurnTaken
  OBVIOUS
<1>1. /\ pc = "loop" /\ pc' = "poll" /\ cursor' = 0 /\ progress' = FALSE
      /\ UNCHANGED <<done, slotOp, slotCh, now, chan>> /\ uncompleted > 0
      /\ uncompleted \in Int /\ status = "running"
  BY DEF BeginSweep, engineVars, tableVars, slotVars, IInv, TypeOK, StatusInv, Running
<1>2. ~Final(img, CurrentView)
  BY <1>1, ViewFacts DEF Final
<1>3. CurrentView.pc = "loop"
  BY <1>1, ViewFacts
<1>4. Turn(img, CurrentView) = View("poll", 0, FALSE, done, slotOp, slotCh, now, chan)
  BY <1>1, <1>3, ViewFacts DEF Turn
<1>5. NextView = View("poll", 0, FALSE, done, slotOp, slotCh, now, chan)
  BY <1>1 DEF NextView
<1> QED
  BY <1>2, <1>4, <1>5, ViewPrimed DEF TurnTaken

\* The poll loop looks at the channel the slot names.
LEMMA PollTurns == IInv /\ (PollNothing \/ PollComplete) => TurnTaken
<1> SUFFICES ASSUME IInv, PollNothing \/ PollComplete PROVE TurnTaken
  OBVIOUS
<1> DEFINE v == CurrentView
           next == IF cursor = NumChannels - 1 THEN 0 ELSE cursor + 1
           where == IF cursor = NumChannels - 1 THEN "scan" ELSE "poll"
<1>1. pc = "poll" /\ status = "running" /\ cursor \in Channel
  BY DEF PollNothing, PollComplete, IInv, TypeOK, StatusInv, Running
<1>2. /\ v.pc = "poll" /\ v.cursor = cursor /\ v.progress = progress /\ v.done = done
      /\ v.slotOp = slotOp /\ v.slotCh = slotCh /\ v.now = now /\ v.chan = chan
  BY <1>1, ViewFacts
<1>3. Turn(img, v) = PollTurn(v) /\ ~Final(img, v)
  BY <1>2 DEF Turn, Final
<1> HIDE DEF v
<1>4. pc' = where /\ cursor' = next
  BY DEF PollNothing, PollComplete, NextSlot
<1>5. Lands(v) <=> PollDone(cursor)
  BY <1>2 DEF Lands, PollDone, PollResult
<1>6. CASE PollNothing
  <2>1. ~Lands(v) /\ UNCHANGED <<progress, done, slotOp, slotCh, now, chan>>
    BY <1>5, <1>6 DEF PollNothing, engineVars, tableVars, slotVars
  <2>2. PollTurn(v) = View(where, next, progress, done, slotOp, slotCh, now, chan)
    BY <1>2, <2>1 DEF PollTurn
  <2>3. NextView = View(where, next, progress, done, slotOp, slotCh, now, chan)
    BY <1>4, <2>1 DEF NextView
  <2> QED
    BY <1>3, <2>2, <2>3, ViewPrimed DEF TurnTaken, v
<1>7. CASE PollComplete
  <2>1. /\ Lands(v) /\ progress' = TRUE /\ slotCh' = slotCh /\ now' = now
        /\ slotOp' = [slotOp EXCEPT ![cursor] = -1]
        /\ done' = [done EXCEPT ![slotOp[cursor]] = TRUE]
        /\ CompleteIfReady({slotCh[cursor]}, now)
    BY <1>5, <1>7 DEF PollComplete, Poll, Complete
  <2>2. chan' = Freed(v, slotCh[cursor])
    <3>1. \A d : d \in Due({slotCh[cursor]}, now) <=>
                 d = slotCh[cursor] /\ chan[d].busy /\ chan[d].doneAt <= now
      BY DEF Due
    <3> QED
      BY <1>2, <2>1, <3>1, Zenon DEF CompleteIfReady, Freed
  <2>3. PollTurn(v) = View(where, next, TRUE, done', slotOp', slotCh, now, chan')
    BY <1>2, <2>1, <2>2 DEF PollTurn
  <2>4. NextView = View(where, next, TRUE, done', slotOp', slotCh, now, chan')
    BY <1>4, <2>1 DEF NextView
  <2> QED
    BY <1>3, <2>3, <2>4, ViewPrimed DEF TurnTaken, v
<1> QED
  BY <1>6, <1>7

\* In the scan the view is looked at through the row at the cursor.
LEMMA ScanView ==
  ASSUME IInv, Scanning
  PROVE  /\ status = "running" /\ cursor \in Ops /\ ~Final(img, CurrentView)
         /\ Turn(img, CurrentView) = ScanTurn(img, CurrentView)
         /\ CurrentView.cursor = cursor /\ CurrentView.progress = progress
         /\ CurrentView.done = done /\ CurrentView.slotOp = slotOp
         /\ CurrentView.slotCh = slotCh /\ CurrentView.now = now /\ CurrentView.chan = chan
         /\ (Runnable(img, CurrentView, cursor) <=> Startable(cursor))
         /\ (AllBusy <=> \A c \in Channel : CurrentView.chan[c].busy)
<1>1. status = "running" /\ pc = "scan" /\ cursor < img.n /\ cursor \in Nat
  BY DEF Scanning, IInv, TypeOK, StatusInv, Running
<1>2. cursor \in Ops
  BY <1>1, ImageFacts DEF IInv
<1>3. /\ CurrentView.pc = "scan" /\ CurrentView.cursor = cursor /\ CurrentView.progress = progress
      /\ CurrentView.done = done /\ CurrentView.slotOp = slotOp
      /\ CurrentView.slotCh = slotCh /\ CurrentView.now = now /\ CurrentView.chan = chan
      /\ (Runnable(img, CurrentView, cursor) <=> Startable(cursor))
  BY <1>1, <1>2, ViewFacts
<1> QED
  BY <1>1, <1>2, <1>3 DEF Turn, Final, AllBusy

\* A row that is not startable, or has no channel to go on, is passed over.
LEMMA PassRowTurns == IInv /\ (SkipRow \/ SubmitRefused) => TurnTaken
<1> SUFFICES ASSUME IInv, SkipRow \/ SubmitRefused PROVE TurnTaken
  OBVIOUS
<1> DEFINE v == CurrentView
<1>1. Scanning /\ (~Startable(cursor) \/ (img.device[cursor] = "DMA" /\ AllBusy))
  BY DEF SkipRow, SubmitRefused, AtRow
<1>2. /\ pc' = "scan" /\ cursor' = cursor + 1
      /\ UNCHANGED <<progress, done, slotOp, slotCh, now, chan>>
  BY DEF SkipRow, SubmitRefused, NextRow, engineVars, tableVars, slotVars
<1>3. ScanTurn(img, v) = View("scan", cursor + 1, progress, done, slotOp, slotCh, now, chan)
  BY <1>1, ScanView DEF ScanTurn
<1>4. NextView = View("scan", cursor + 1, progress, done, slotOp, slotCh, now, chan)
  BY <1>2 DEF NextView
<1> QED
  BY <1>1, <1>3, <1>4, ScanView, ViewPrimed DEF TurnTaken

\* The searches for a channel, a slot and the last waiting slot have one result.
LEMMA SearchesAreExact ==
  ASSUME IInv, status = "running"
  PROVE  /\ \A c \in Channel : IsFirstFree(c) => FirstFree(CurrentView) = c
         /\ \A k \in Channel : IsFirstFreeSlot(k) => FirstSlot(CurrentView) = k
         /\ \A k \in Channel : IsLastWaiting(k) => LastWait(CurrentView) = k
<1> DEFINE v == CurrentView
<1>1. /\ v.slotOp = slotOp /\ v.slotCh = slotCh /\ v.now = now /\ v.chan = chan
      /\ \A k \in Channel : slotOp[k] \in Int
  BY ViewFacts DEF IInv, TypeOK
<1> HIDE DEF v
<1>2. \A c, d \in Channel : c # d => c < d \/ d < c
  BY ChannelFacts
<1>3. ASSUME NEW c \in Channel, IsFirstFree(c) PROVE FirstFree(v) = c
  <2>1. \A d \in Channel :
          (~v.chan[d].busy /\ \A e \in Channel : e < d => v.chan[e].busy) <=> d = c
    BY <1>1, <1>2, <1>3 DEF IsFirstFree
  <2> QED
    BY <2>1 DEF FirstFree
<1>4. ASSUME NEW k \in Channel, IsFirstFreeSlot(k) PROVE FirstSlot(v) = k
  <2>1. \A l \in Channel :
          (v.slotOp[l] < 0 /\ \A m \in Channel : m < l => v.slotOp[m] >= 0) <=> l = k
    BY <1>1, <1>2, <1>4 DEF IsFirstFreeSlot
  <2> QED
    BY <2>1 DEF FirstSlot
<1>5. ASSUME NEW k \in Channel, IsLastWaiting(k) PROVE LastWait(v) = k
  <2>1. \A l \in Channel : WaitsFor(v, l) <=> Waiting(l)
    BY <1>1 DEF WaitsFor, Waiting, DmaDone
  <2>2. \A l \in Channel :
          (WaitsFor(v, l) /\ \A m \in Channel : m > l => ~WaitsFor(v, m)) <=> l = k
    BY <1>2, <1>5, <2>1, ChannelFacts DEF IsLastWaiting
  <2> QED
    BY <2>2 DEF LastWait
<1> QED
  BY <1>3, <1>4, <1>5 DEF v

\* A submission goes to the first free channel and the first free slot.
LEMMA SubmitTurns == IInv /\ SubmitTransfer => TurnTaken
<1> SUFFICES ASSUME IInv, SubmitTransfer PROVE TurnTaken
  OBVIOUS
<1> DEFINE v == CurrentView
<1>1. PICK i \in Ops, c \in Channel :
        /\ AtRow(i) /\ img.device[i] = "DMA" /\ Submit(c, i, img.bytes[i]) /\ NextRow
        /\ IF \A k \in Channel : slotOp[k] >= 0
           THEN UNCHANGED <<slotVars, progress>>
           ELSE \E k \in Channel :
                  /\ IsFirstFreeSlot(k)
                  /\ slotOp' = [slotOp EXCEPT ![k] = i]
                  /\ slotCh' = [slotCh EXCEPT ![k] = c]
                  /\ progress' = TRUE
  BY DEF SubmitTransfer
<1>2. Scanning /\ i = cursor /\ Startable(cursor) /\ IsFirstFree(c) /\ ~chan[c].busy
  BY <1>1 DEF AtRow, Submit, IsFirstFree
<1>3. status = "running" /\ SlotsInv /\ TypeOK
  BY <1>2, ScanView DEF IInv, WireInv
<1>4. PICK k \in Channel :
        /\ IsFirstFreeSlot(k)
        /\ slotOp' = [slotOp EXCEPT ![k] = i]
        /\ slotCh' = [slotCh EXCEPT ![k] = c]
        /\ progress' = TRUE
  BY <1>1, <1>2, <1>3, SlotForEveryChannel
<1>5. FirstFree(v) = c /\ FirstSlot(v) = k
  BY <1>2, <1>3, <1>4, SearchesAreExact
<1>6. /\ v.cursor = i /\ v.done = done /\ v.slotOp = slotOp
      /\ v.slotCh = slotCh /\ v.now = now /\ v.chan = chan
      /\ Runnable(img, v, i) /\ ~(\A d \in Channel : v.chan[d].busy)
      /\ Turn(img, v) = ScanTurn(img, v) /\ ~Final(img, v)
  BY <1>2, ScanView
<1> HIDE DEF v
<1>7. Later(now, chan[c].doneAt) = StartOn(c)
  BY DEF Later, StartOn
<1>8. /\ chan' = [chan EXCEPT ![c] =
                    [busy   |-> TRUE,
                     doneAt |-> StartOn(c) + TransferCycles(img.bytes[i]),
                     job    |-> i]]
      /\ now' = now /\ done' = done /\ pc' = "scan" /\ cursor' = i + 1
  BY <1>1, <1>2 DEF Submit, NextRow, SubmitTransfer, tableVars
<1>9. ScanTurn(img, v) = SubmitTurn(img, v)
  BY <1>1, <1>6 DEF ScanTurn
<1>10. SubmitTurn(img, v) = View("scan", i + 1, TRUE, done, slotOp', slotCh', now, chan')
  BY <1>4, <1>5, <1>6, <1>7, <1>8 DEF SubmitTurn
<1>11. NextView = View("scan", i + 1, TRUE, done, slotOp', slotCh', now, chan')
  BY <1>4, <1>8 DEF NextView
<1> QED
  BY <1>6, <1>9, <1>10, <1>11, ViewPrimed DEF TurnTaken, v

\* A kernel that is in time.
LEMMA RunKernelTurns == IInv /\ RunKernel => TurnTaken
<1> SUFFICES ASSUME IInv, RunKernel PROVE TurnTaken
  OBVIOUS
<1> DEFINE v == CurrentView
<1>1. PICK i \in Ops : Execute(i) /\ Complete(i) /\ NextRow
  BY DEF RunKernel
<1>2. /\ Scanning /\ i = cursor /\ Startable(i) /\ img.device[i] # "DMA" /\ status = "running"
      /\ UNCHANGED <<chan, slotOp, slotCh>>
  BY <1>1, ExecuteFacts DEF Execute, AtRow, slotVars
<1>3. InputChannels(i) = {} /\ img.wcet[i] \in Nat /\ TypeOK
  BY <1>2, StartableFacts, ImageFacts DEF IInv
<1>4. WaitThenAdvance({}, img.wcet[i])
  BY <1>1, <1>3 DEF Execute
<1>5. now' = now + img.wcet[i]
  BY <1>3, <1>4, WaitOnNothing
<1>6. /\ pc' = "scan" /\ cursor' = i + 1 /\ progress' = TRUE
      /\ done' = [done EXCEPT ![i] = TRUE]
  BY <1>1, <1>2 DEF NextRow, Complete
<1>7. /\ v.cursor = i /\ v.done = done /\ v.slotOp = slotOp
      /\ v.slotCh = slotCh /\ v.now = now /\ v.chan = chan
      /\ Runnable(img, v, i) /\ Turn(img, v) = ScanTurn(img, v) /\ ~Final(img, v)
  BY <1>2, ScanView
<1> HIDE DEF v
<1>8. ScanTurn(img, v) = View("scan", i + 1, TRUE, done', slotOp, slotCh, now', chan)
  BY <1>2, <1>5, <1>6, <1>7 DEF ScanTurn
<1>9. NextView = View("scan", i + 1, TRUE, done', slotOp, slotCh, now', chan)
  BY <1>2, <1>6 DEF NextView
<1> QED
  BY <1>7, <1>8, <1>9, ViewPrimed DEF TurnTaken, v

\* The end of a sweep, and a stall.
LEMMA EndTurns == IInv /\ (EndSweep \/ Stall) => TurnTaken
<1> SUFFICES ASSUME IInv, EndSweep \/ Stall PROVE TurnTaken
  OBVIOUS
<1> DEFINE v == CurrentView
<1>1. pc = "scan" /\ cursor >= img.n /\ status = "running" /\ cursor \in Nat /\ img.n \in Nat
  BY ImageFacts DEF EndSweep, Stall, IInv, TypeOK, StatusInv, Running
<1>2. /\ v.pc = "scan" /\ v.cursor = cursor /\ v.progress = progress /\ v.done = done
      /\ v.slotOp = slotOp /\ v.slotCh = slotCh /\ v.now = now /\ v.chan = chan
      /\ (AllDone(img, v) <=> uncompleted <= 0)
  BY <1>1, ViewFacts
<1> HIDE DEF v
<1>3. Turn(img, v) = EndTurn(img, v) /\ ~Final(img, v)
  BY <1>1, <1>2 DEF Turn, Final
<1>4. uncompleted \in Int
  BY DEF IInv, TypeOK
<1>5. CASE EndSweep
  <2>1. /\ pc' = "loop" /\ UNCHANGED <<done, slotOp, slotCh, now, chan>>
        /\ (progress \/ uncompleted <= 0)
    BY <1>5 DEF EndSweep, engineVars, tableVars, slotVars
  <2>2. EndTurn(img, v) = View("loop", 0, FALSE, done, slotOp, slotCh, now, chan)
    BY <1>2, <2>1 DEF EndTurn
  <2>3. NextView = View("loop", 0, FALSE, done, slotOp, slotCh, now, chan)
    BY <2>1 DEF NextView
  <2> QED
    BY <1>3, <2>2, <2>3, ViewPrimed DEF TurnTaken, v
<1>6. CASE Stall
  <2>1. PICK k \in Channel : IsLastWaiting(k) /\ SimAdvance(StallCycles(k)) /\ pc' = "loop"
    BY <1>6, StallHasWaiting DEF Stall
  <2>2. UNCHANGED <<done, slotOp, slotCh, chan>> /\ ~(progress \/ uncompleted <= 0)
    BY <1>4, <1>6, <2>1 DEF Stall, SimAdvance, tableVars, slotVars
  <2>3. LastWait(v) = k
    BY <1>1, <2>1, SearchesAreExact DEF v
  <2>4. slotCh[k] \in Channel
    BY <1>1, <2>1 DEF IsLastWaiting, Waiting, IInv, WireInv, SlotsInv
  <2>5. now \in Nat /\ chan[slotCh[k]].doneAt \in Nat
    BY <2>4 DEF IInv, TypeOK, EngineTypeOK
  <2>6. now' = chan[slotCh[k]].doneAt
    BY <2>1, <2>5 DEF SimAdvance, StallCycles
  <2>7. EndTurn(img, v) = View("loop", 0, FALSE, done, slotOp, slotCh, now', chan)
    BY <1>2, <2>2, <2>3, <2>6 DEF EndTurn
  <2>8. NextView = View("loop", 0, FALSE, done, slotOp, slotCh, now', chan)
    BY <2>1, <2>2 DEF NextView
  <2> QED
    BY <1>3, <2>7, <2>8, ViewPrimed DEF TurnTaken, v
<1> QED
  BY <1>5, <1>6

-----------------------------------------------------------------------------
\* Where the frame's view leads, its first view leads; that is where the first
\* frame that returned OK ended, and where every other one does.
SpanInv ==
  /\ Running => \A t \in Nat : FirstView(img) \in EndsAt(img, t)
                             <=> CurrentView \in EndsAt(img, t)
  /\ span # -1 => span \in Nat /\ FirstView(img) \in EndsAt(img, span)
  /\ FramesAreIndependent

LEMMA BeginFrameSpan == IInv /\ SpanInv /\ BeginFrame => SpanInv'
<1> SUFFICES ASSUME IInv, SpanInv, BeginFrame PROVE SpanInv'
  OBVIOUS
<1>1. /\ img' = img /\ span' = span /\ status' = "running" /\ pc' = "loop" /\ now' = 0
      /\ chan' = [c \in Channel |-> IdleChannel] /\ done' = [i \in Ops |-> FALSE]
      /\ slotOp' = [k \in Channel |-> -1] /\ slotCh' = [k \in Channel |-> -1]
  BY DEF BeginFrame, SimReset
<1>2. Ops = RowsOf(img)
  BY DEF Ops
<1>3. NextView = FirstView(img)
  BY <1>1, <1>2 DEF NextView, FirstView
<1> QED
  BY <1>1, <1>3, ViewPrimed DEF SpanInv, FramesAreIndependent

\* A turn leads where the view it was taken from leads.
LEMMA TurnSpan ==
  ASSUME IInv, SpanInv, TurnTaken, Running, img' = img, span' = span, status' # "OK"
  PROVE  SpanInv'
<1>1. \A t \in Nat : CurrentView \in EndsAt(img, t) <=> CurrentView' \in EndsAt(img, t)
  BY ViewTypes, EndsAtFacts DEF TurnTaken
<1> QED
  BY <1>1 DEF SpanInv, FramesAreIndependent

\* A frame that returns OK ends in a final view.
LEMMA FinishFrameSpan == IInv /\ SpanInv /\ FinishFrame => SpanInv'
<1> SUFFICES ASSUME IInv, SpanInv, FinishFrame PROVE SpanInv'
  OBVIOUS
<1>1. /\ pc = "loop" /\ uncompleted <= 0 /\ pc' = "idle" /\ img' = img /\ now' = now
      /\ span' = (IF span = -1 THEN now ELSE span) /\ status = "running" /\ now \in Nat
  BY DEF FinishFrame, Return, engineVars, argVars, IInv, TypeOK, EngineTypeOK, StatusInv, Running
<1>2. Final(img, CurrentView) /\ CurrentView.now = now
  BY <1>1, ViewFacts DEF Final
<1>3. \A t \in Nat : CurrentView \in EndsAt(img, t) <=> now = t
  BY <1>2, ViewTypes, EndsAtFacts
<1>4. \A t \in Nat : FirstView(img) \in EndsAt(img, t) <=> now = t
  BY <1>1, <1>3 DEF SpanInv, Running
<1>5. span # -1 => span = now
  BY <1>4 DEF SpanInv
<1>6. span' = now
  BY <1>1, <1>5
<1> QED
  BY <1>1, <1>4, <1>6 DEF SpanInv, FramesAreIndependent, Running

\* A frame that is ended early has no span.
LEMMA FaultSpan ==
  ASSUME SpanInv, UNCHANGED <<img, span>>, pc' = "idle", status' # "OK"
  PROVE  SpanInv'
  BY DEF SpanInv, FramesAreIndependent, Running

LEMMA NextSpan == IInv /\ SpanInv /\ [Next]_vars => SpanInv'
<1> SUFFICES ASSUME IInv, SpanInv, [Next]_vars PROVE SpanInv'
  OBVIOUS
<1>1. CASE \/ BeginSweep \/ PollNothing \/ PollComplete \/ SkipRow \/ SubmitTransfer
           \/ SubmitRefused \/ RunKernel \/ EndSweep \/ Stall
  <2>1. TurnTaken
    BY <1>1, BeginSweepTurns, PollTurns, PassRowTurns, SubmitTurns, RunKernelTurns, EndTurns
  <2>2. Running /\ img' = img /\ span' = span
    BY <1>1 DEF Running, argVars, histVars, BeginSweep, PollNothing, PollComplete, SkipRow,
                SubmitTransfer, SubmitRefused, RunKernel, EndSweep, Stall, Scanning, AtRow, Execute
  <2>3. status' = status
    BY <1>1, StallHasWaiting
    DEF BeginSweep, PollNothing, PollComplete, SkipRow, SubmitTransfer, SubmitRefused, RunKernel,
        EndSweep, Stall
  <2>4. status # "OK"
    BY <2>2 DEF IInv, StatusInv
  <2> QED
    BY <2>1, <2>2, <2>3, <2>4, TurnSpan
<1>2. CASE DenyCapability \/ MissDeadline
  BY <1>2, FaultSpan DEF DenyCapability, MissDeadline, Execute, Return, argVars, histVars
<1>3. CASE UNCHANGED vars
  <2>1. UNCHANGED <<img, span, status, pc, cursor, progress, done, slotOp, slotCh, now, chan>>
    BY <1>3 DEF vars, engineVars, argVars, tableVars, slotVars, histVars
  <2>2. CurrentView' = CurrentView
    BY <2>1 DEF CurrentView, View
  <2> QED
    BY <2>1, <2>2 DEF SpanInv, FramesAreIndependent, Running
<1> QED
  BY <1>1, <1>2, <1>3, BeginFrameSpan, FinishFrameSpan DEF Next, Scheduler

\* A frame owes nothing to the one before it, even one that faulted with
\* transfers on the wire: every frame that returns OK takes the same number of
\* cycles (README.md:78).
THEOREM FramesOweNothing == Spec => []FramesAreIndependent
<1>1. Init => SpanInv
  BY DEF Init, SpanInv, FramesAreIndependent, Running
<1>2. SpanInv => FramesAreIndependent
  BY DEF SpanInv
<1> QED
  BY <1>1, <1>2, NextSpan, Inductive, PTL DEF Spec

-----------------------------------------------------------------------------
(* Power: what is awake between frames, and during a frame for as long as  *)
(* rows complete in order.                                                 *)
(*                                                                         *)
(* During a frame a domain is on from the completion of the row before its *)
(* window to the completion of the last row of the window (WindowsOpen);   *)
(* that holds in any order of completion.  That no row is left to run in a *)
(* window that has closed is where the order matters: the rows that are    *)
(* complete must be the first ones (DoneIsPrefix).                         *)

\* Domains that the plan gates.
Gated == {e \in img.plan : ~e.alwaysOn}

WindowsOpen ==
  \A e \in Gated :
    (e.first = 0 \/ (\E i \in Ops : done[i] /\ e.first = i + 1)) /\ ~done[e.last]
      => e.domain \in active

DoneIsPrefix == \A i, j \in Ops : j < i /\ done[i] => done[j]

PowerInv ==
  /\ "CPU" \in active
  /\ \A d \in active : d = "CPU" \/ \E e \in Gated : e.domain = d
  /\ status \in {"none", "OK"} => active = {"CPU"}
  /\ Running => WindowsOpen
  /\ Running /\ inOrder => DoneIsPrefix

-----------------------------------------------------------------------------
\* What a well-formed image says of its power plan.
LEMMA PlanFacts ==
  ASSUME img \in Images
  PROVE  /\ \A e, f \in img.plan : e.domain = f.domain => e = f
         /\ \A e \in img.plan : e.alwaysOn <=> e.domain = "CPU"
         /\ \A e \in img.plan : e.first \in Nat /\ e.last \in Nat
         /\ \A e \in Gated : e.first \in Ops /\ e.last \in Ops
         /\ \A i \in Ops : \E e \in img.plan :
              e.domain = img.device[i] /\ e.first <= i /\ i <= e.last
<1>1. WellFormed(img)
  BY ImagesAssumption
<1>2. WellTyped(img) /\ PlanCovers(img)
  BY <1>1 DEF WellFormed
<1>3. \A e \in img.plan : e.first \in Nat /\ e.last \in Nat
  BY <1>2 DEF WellTyped, PlanEntry
<1> QED
  BY <1>2, <1>3 DEF PlanCovers, Gated, Ops, RowsOf

LEMMA InitPowerInv == Init => PowerInv
<1> SUFFICES ASSUME Init PROVE PowerInv
  OBVIOUS
<1> QED
  BY DEF Init, PowerInit, PowerInv, Running

\* A step that completes no row and touches no domain.
LEMMA QuietKeeps ==
  ASSUME PowerInv, UNCHANGED <<img, active, done, inOrder>>,
         Running' => Running, status' = status \/ status' \notin {"none", "OK"}
  PROVE  PowerInv'
<1>1. Ops' = Ops /\ Gated' = Gated
  BY DEF Ops, Gated
<1>2. (Running => WindowsOpen)' /\ (Running /\ inOrder => DoneIsPrefix)'
  BY <1>1 DEF PowerInv, WindowsOpen, DoneIsPrefix
<1> QED
  BY <1>1, <1>2 DEF PowerInv

\* A frame starts with the domains of the first row on, whatever was left on.
LEMMA BeginFramePowerInv == IInv /\ PowerInv /\ BeginFrame => PowerInv'
<1> SUFFICES ASSUME IInv, PowerInv, BeginFrame PROVE PowerInv'
  OBVIOUS
<1>1. /\ img' = img /\ status' = "running"
      /\ done' = [i \in Ops |-> FALSE]
      /\ active' = active \cup Domains({e \in img.plan : e.first = 0 \/ e.alwaysOn})
  BY DEF BeginFrame, OnFrameStart
<1>2. Ops' = Ops /\ Gated' = Gated
  BY <1>1 DEF Ops, Gated
<1>3. WindowsOpen'
  <2>1. \A e \in Gated : e.first = 0 => e.domain \in active'
    BY <1>1 DEF Domains, Gated
  <2>2. \A i \in Ops : ~done'[i]
    BY <1>1
  <2> QED
    BY <1>2, <2>1, <2>2 DEF WindowsOpen
<1>4. DoneIsPrefix'
  BY <1>1, <1>2 DEF DoneIsPrefix
<1>5. \A d \in active' : d = "CPU" \/ \E e \in Gated : e.domain = d
  BY <1>1, PlanFacts DEF Domains, Gated, PowerInv, IInv
<1> QED
  BY <1>1, <1>2, <1>3, <1>4, <1>5 DEF PowerInv

\* A frame that returns OK puts every domain to sleep but the CPU's.
LEMMA FinishFramePowerInv == IInv /\ PowerInv /\ FinishFrame => PowerInv'
<1> SUFFICES ASSUME IInv, PowerInv, FinishFrame PROVE PowerInv'
  OBVIOUS
<1>1. /\ img' = img /\ pc' = "idle"
      /\ active' = active \ Domains(Gated)
  BY DEF FinishFrame, Return, OnFrameEnd, Gated, argVars
<1>2. "CPU" \notin Domains(Gated)
  BY PlanFacts DEF IInv, Domains, Gated
<1>3. active' = {"CPU"}
  BY <1>1, <1>2 DEF PowerInv, Domains
<1> QED
  BY <1>1, <1>3 DEF PowerInv, Running

\* The completion of a row closes the windows that end with it and opens those
\* that start after it; the order is kept only by the least row.
LEMMA CompleteKeeps ==
  ASSUME IInv, PowerInv, Running, NEW i \in Ops, Complete(i), img' = img, status' = status
  PROVE  PowerInv'
<1>1. /\ done' = [done EXCEPT ![i] = TRUE] /\ done \in [Ops -> BOOLEAN]
      /\ active' = (active \ Domains({e \in Gated : e.last = i}))
                     \cup Domains({e \in Gated : e.first = i + 1})
      /\ inOrder' = (inOrder /\ \A j \in Ops : j < i => done[j])
  BY DEF Complete, OnOpComplete, Gated, IInv, TypeOK
<1>2. Ops' = Ops /\ Gated' = Gated /\ img \in Images
  BY DEF Ops, Gated, IInv
<1>3. status = "running"
  BY DEF IInv, StatusInv
<1>4. "CPU" \in active'
  BY <1>1, <1>2, PlanFacts DEF PowerInv, Domains, Gated
<1>5. \A d \in active' : d = "CPU" \/ \E e \in Gated : e.domain = d
  BY <1>1 DEF PowerInv, Domains
<1>6. WindowsOpen'
  <2> SUFFICES ASSUME NEW e \in Gated, ~done'[e.last],
                      e.first = 0 \/ (\E k \in Ops : done'[k] /\ e.first = k + 1)
               PROVE  e.domain \in active'
    BY <1>2 DEF WindowsOpen
  <2>1. e.last \in Ops /\ e.last # i /\ ~done[e.last]
    BY <1>1, <1>2, PlanFacts
  <2>2. e.domain \notin Domains({f \in Gated : f.last = i})
    BY <2>1, <1>2, PlanFacts DEF Domains, Gated
  <2>3. CASE e.first = i + 1
    BY <2>3, <1>1 DEF Domains
  <2>4. CASE e.first # i + 1
    <3>1. e.first = 0 \/ (\E k \in Ops : done[k] /\ e.first = k + 1)
      BY <2>4, <1>1
    <3>2. e.domain \in active
      BY <3>1, <2>1 DEF PowerInv, WindowsOpen
    <3> QED
      BY <3>2, <2>2, <1>1
  <2> QED
    BY <2>3, <2>4
<1>7. inOrder' => DoneIsPrefix'
  BY <1>1, <1>2 DEF DoneIsPrefix, PowerInv
<1> QED
  BY <1>2, <1>3, <1>4, <1>5, <1>6, <1>7 DEF PowerInv

\* A transfer that has landed is a completion.
LEMMA PollCompletePowerInv == IInv /\ PowerInv /\ PollComplete => PowerInv'
<1> SUFFICES ASSUME IInv, PowerInv, PollComplete PROVE PowerInv'
  OBVIOUS
<1>1. pc = "poll" /\ slotOp[cursor] >= 0 /\ Complete(slotOp[cursor])
  BY DEF PollComplete, PollDone
<1>2. Running /\ img' = img /\ status' = status
  BY <1>1 DEF PollComplete, Running, argVars
<1>3. cursor \in Channel /\ SlotsInv
  BY <1>1, <1>2 DEF IInv, TypeOK, StatusInv, WireInv
<1>4. slotOp[cursor] \in Ops
  BY <1>1, <1>3 DEF SlotsInv
<1> QED
  BY <1>1, <1>2, <1>4, CompleteKeeps

LEMMA RunKernelPowerInv == IInv /\ PowerInv /\ RunKernel => PowerInv'
<1> SUFFICES ASSUME IInv, PowerInv, RunKernel PROVE PowerInv'
  OBVIOUS
<1>1. PICK i \in Ops : Execute(i) /\ Complete(i) /\ UNCHANGED status
  BY DEF RunKernel
<1>2. Running /\ img' = img /\ status' = status
  BY <1>1 DEF Execute, AtRow, Scanning, Running, argVars
<1> QED
  BY <1>1, <1>2, CompleteKeeps

\* The steps that complete nothing.
LEMMA QuietSteps ==
  ASSUME BeginSweep \/ PollNothing \/ SkipRow \/ DenyCapability \/ SubmitTransfer
           \/ SubmitRefused \/ MissDeadline \/ EndSweep \/ Stall \/ UNCHANGED vars
  PROVE  /\ UNCHANGED <<img, active, done, inOrder>>
         /\ Running' => Running
         /\ status' = status \/ status' \notin {"none", "OK"}
<1> USE DEF argVars, tableVars, histVars, Running
<1>1. CASE BeginSweep \/ PollNothing \/ SkipRow \/ EndSweep
  BY <1>1 DEF BeginSweep, PollNothing, SkipRow, EndSweep, Scanning
<1>2. CASE DenyCapability \/ Stall
  BY <1>2 DEF DenyCapability, Stall, Scanning, Return
<1>3. CASE SubmitTransfer \/ SubmitRefused
  BY <1>3 DEF SubmitTransfer, SubmitRefused, AtRow, Scanning
<1>4. CASE MissDeadline
  BY <1>4 DEF MissDeadline, Execute, AtRow, Scanning, Return
<1>5. CASE UNCHANGED vars
  BY <1>5 DEF vars
<1> QED
  BY <1>1, <1>2, <1>3, <1>4, <1>5

LEMMA NextPowerInv == IInv /\ PowerInv /\ [Next]_vars => PowerInv'
<1> SUFFICES ASSUME IInv, PowerInv, [Next]_vars PROVE PowerInv'
  OBVIOUS
<1>1. CASE BeginFrame
  BY <1>1, BeginFramePowerInv
<1>2. CASE FinishFrame
  BY <1>2, FinishFramePowerInv
<1>3. CASE PollComplete
  BY <1>3, PollCompletePowerInv
<1>4. CASE RunKernel
  BY <1>4, RunKernelPowerInv
<1>5. CASE BeginSweep \/ PollNothing \/ SkipRow \/ DenyCapability \/ SubmitTransfer
             \/ SubmitRefused \/ MissDeadline \/ EndSweep \/ Stall \/ UNCHANGED vars
  BY <1>5, QuietSteps, QuietKeeps
<1> QED
  BY <1>1, <1>2, <1>3, <1>4, <1>5 DEF Next, Scheduler

LEMMA AlwaysPowerInv == Spec => []PowerInv
  BY InitPowerInv, NextPowerInv, Inductive, PTL DEF Spec

-----------------------------------------------------------------------------
\* The CPU is never gated off, and nothing else is on between frames unless the
\* last frame faulted, whatever earlier frames left on.
THEOREM SleepsInBetween == Spec => []SleepsBetweenFrames
<1>1. PowerInv => SleepsBetweenFrames
  BY DEF PowerInv, SleepsBetweenFrames
<1> QED
  BY <1>1, AlwaysPowerInv, PTL

\* As long as rows complete by index, the next row finds its domain on.
THEOREM PoweredIfOrdered == Spec => []PoweredInOrder
<1>1. IInv /\ PowerInv => PoweredInOrder
  <2> SUFFICES ASSUME IInv, PowerInv, NEW i \in Ops, pc = "scan", inOrder, Startable(i),
                      \A j \in Ops : j < i => done[j]
               PROVE  img.device[i] \in active
    BY DEF PoweredInOrder
  <2>1. img \in Images /\ ~done[i] /\ WindowsOpen /\ DoneIsPrefix
    BY DEF IInv, PowerInv, Startable, Running
  <2>2. PICK e \in img.plan : e.domain = img.device[i] /\ e.first <= i /\ i <= e.last
    BY <2>1, PlanFacts
  <2>3. CASE e.alwaysOn
    BY <2>1, <2>2, <2>3, PlanFacts DEF PowerInv
  <2>4. CASE ~e.alwaysOn
    <3>1. e \in Gated /\ e.first \in Ops /\ e.last \in Ops
      BY <2>1, <2>4, PlanFacts DEF Gated
    <3>2. Ops = 0 .. img.n - 1 /\ img.n \in Nat
      BY <2>1, ImageFacts
    <3>3. ~done[e.last]
      BY <2>1, <2>2, <3>1, <3>2 DEF DoneIsPrefix
    <3>4. e.first = 0 \/ \E k \in Ops : done[k] /\ e.first = k + 1
      <4>1. CASE e.first > 0
        <5>1. e.first - 1 \in Ops /\ e.first - 1 < i /\ e.first = (e.first - 1) + 1
          BY <4>1, <2>2, <3>1, <3>2
        <5> QED
          BY <5>1
      <4> QED
        BY <4>1, <3>1, <3>2
    <3> QED
      BY <2>1, <2>2, <3>1, <3>3, <3>4 DEF WindowsOpen
  <2> QED
    BY <2>3, <2>4
<1> QED
  BY <1>1, AlwaysPowerInv, Inductive, PTL

-----------------------------------------------------------------------------
(* Frames of an image without loads run by index.  Nothing is ever on the  *)
(* wire, so when the scan gets to a row all rows before it are complete,   *)
(* its predecessors among them, and the row is ready: the first sweep runs *)
(* them all.                                                               *)

LoadFree == \A i \in Ops : img.device[i] # "DMA"

OrderInv ==
  LoadFree =>
    /\ inOrder
    /\ pc = "scan" => \A j \in Ops : j < cursor => done[j]

\* Without loads no slot is ever taken.
LEMMA NothingInFlight ==
  ASSUME IInv, LoadFree, Running
  PROVE  \A k \in Channel : slotOp[k] < 0
<1>1. SlotsInv
  BY DEF IInv, StatusInv, WireInv
<1>2. \A k \in Channel : slotOp[k] \in Int /\ ~(slotOp[k] >= 0)
  BY <1>1 DEF SlotsInv, LoadFree, IInv, TypeOK
<1> QED
  BY <1>2

\* A row whose predecessors all come before the cursor is not passed over.
LEMMA SkipRowOrder == IInv /\ OrderInv /\ SkipRow => OrderInv'
<1> SUFFICES ASSUME IInv, OrderInv, SkipRow, LoadFree'
             PROVE  inOrder' /\ \A j \in Ops' : j < cursor' => done'[j]
  BY DEF OrderInv
<1>1. /\ pc = "scan" /\ cursor < img.n /\ ~Startable(cursor) /\ cursor' = cursor + 1
      /\ UNCHANGED <<img, done, inOrder>>
  BY DEF SkipRow, Scanning, NextRow, argVars, tableVars, histVars
<1>2. LoadFree /\ Ops' = Ops
  BY <1>1 DEF LoadFree, Ops
<1>3. /\ inOrder /\ \A j \in Ops : j < cursor => done[j]
  BY <1>1, <1>2 DEF OrderInv
<1>4. img \in Images /\ cursor \in Nat
  BY DEF IInv, TypeOK
<1>5. /\ Ops = 0 .. img.n - 1 /\ img.n \in Nat /\ cursor \in Ops
      /\ img.preds[cursor] \subseteq Ops /\ \A p \in img.preds[cursor] : p < cursor
  <2>1. Ops = 0 .. img.n - 1 /\ img.n \in Nat
    BY <1>4, ImageFacts
  <2>2. cursor \in Ops
    BY <2>1, <1>1, <1>4
  <2> QED
    BY <2>1, <2>2, <1>4, ImageFacts
<1>6. Pending(cursor) = {}
  BY <1>3, <1>5 DEF Pending, Undone
<1>7. dep[cursor] = 0
  <2>1. CountsInv
    BY <1>1 DEF IInv, StatusInv, TableInv, Running
  <2> QED
    BY <2>1, <1>5, <1>6, FS_EmptySet DEF CountsInv
<1>8. ready[cursor] \/ done[cursor]
  <2>1. CountsInv
    BY <1>1 DEF IInv, StatusInv, TableInv, Running
  <2> QED
    BY <2>1, <1>5, <1>7 DEF CountsInv
<1>9. ~InFlight(cursor)
  <2>1. Running
    BY <1>1 DEF Running
  <2>2. \A k \in Channel : slotOp[k] < 0 /\ slotOp[k] \in Int
    BY <2>1, <1>2, NothingInFlight DEF IInv, TypeOK
  <2>3. \A k \in Channel : slotOp[k] # cursor
    BY <2>2, <1>4
  <2> QED
    BY <2>3 DEF InFlight
<1>10. done[cursor]
  BY <1>1, <1>8, <1>9 DEF Startable
<1>11. \A j \in Ops : j < cursor + 1 => j < cursor \/ j = cursor
  BY <1>4, <1>5
<1> QED
  BY <1>1, <1>2, <1>3, <1>10, <1>11

\* The row at the cursor completes after all before it.
LEMMA RunKernelOrder == IInv /\ OrderInv /\ RunKernel => OrderInv'
<1> SUFFICES ASSUME IInv, OrderInv, RunKernel, LoadFree'
             PROVE  inOrder' /\ \A j \in Ops' : j < cursor' => done'[j]
  BY DEF OrderInv
<1>1. PICK i \in Ops : Execute(i) /\ Complete(i) /\ NextRow
  BY DEF RunKernel
<1>2. /\ pc = "scan" /\ cursor = i /\ cursor' = cursor + 1 /\ img' = img
      /\ done' = [done EXCEPT ![i] = TRUE]
      /\ inOrder' = (inOrder /\ \A j \in Ops : j < i => done[j])
  BY <1>1 DEF Execute, AtRow, Scanning, Complete, NextRow, argVars
<1>3. LoadFree /\ Ops' = Ops /\ done \in [Ops -> BOOLEAN]
  BY <1>2 DEF LoadFree, Ops, IInv, TypeOK
<1>4. inOrder /\ \A j \in Ops : j < cursor => done[j]
  BY <1>2, <1>3 DEF OrderInv
<1>5. Ops \subseteq Int /\ cursor \in Nat
  BY ImageFacts DEF IInv, TypeOK
<1>6. inOrder'
  BY <1>2, <1>4
<1>7. \A j \in Ops : j < cursor + 1 => j < cursor \/ j = i
  BY <1>2, <1>5
<1>8. \A j \in Ops : j < cursor' => done'[j]
  BY <1>2, <1>3, <1>4, <1>7
<1> QED
  BY <1>3, <1>6, <1>8

\* Transfers never start and never land.
LEMMA NoTransfers ==
  ASSUME IInv, LoadFree
  PROVE  ~SubmitTransfer /\ ~SubmitRefused /\ ~PollComplete
<1>1. ~SubmitTransfer /\ ~SubmitRefused
  BY DEF SubmitTransfer, SubmitRefused, LoadFree
<1>2. ~PollComplete
  <2> SUFFICES ASSUME pc = "poll", slotOp[cursor] >= 0 PROVE FALSE
    BY DEF PollComplete, PollDone
  <2>1. cursor \in Channel /\ Running
    BY DEF IInv, TypeOK, Running
  <2> QED
    BY <2>1, NothingInFlight DEF IInv, TypeOK
<1> QED
  BY <1>1, <1>2

LEMMA NextOrder == IInv /\ OrderInv /\ [Next]_vars => OrderInv'
<1> SUFFICES ASSUME IInv, OrderInv, [Next]_vars, LoadFree' PROVE OrderInv'
  BY DEF OrderInv
<1>1. CASE BeginFrame
  BY <1>1 DEF BeginFrame, OrderInv
<1>2. CASE BeginSweep \/ FinishFrame \/ EndSweep \/ Stall
  <2>1. pc' # "scan" /\ UNCHANGED <<img, inOrder>>
    BY <1>2 DEF BeginSweep, FinishFrame, EndSweep, Stall, Return, argVars, histVars
  <2> QED
    BY <2>1 DEF OrderInv, LoadFree, Ops
<1>3. CASE PollNothing
  <2>1. UNCHANGED <<img, inOrder>> /\ (pc' # "scan" \/ cursor' = 0)
    BY <1>3 DEF PollNothing, NextSlot, argVars, histVars
  <2>2. Ops' = Ops /\ \A j \in Ops : ~(j < 0)
    BY <2>1, ImageFacts DEF IInv, Ops
  <2> QED
    BY <2>1, <2>2 DEF OrderInv, LoadFree
<1>4. CASE DenyCapability \/ MissDeadline
  <2>1. pc' # "scan" /\ UNCHANGED <<img, inOrder>>
    BY <1>4 DEF DenyCapability, MissDeadline, Execute, Return, argVars, histVars
  <2> QED
    BY <2>1 DEF OrderInv, LoadFree, Ops
<1>5. CASE SubmitTransfer \/ SubmitRefused \/ PollComplete
  <2>1. UNCHANGED img
    BY <1>5 DEF SubmitTransfer, SubmitRefused, PollComplete, argVars
  <2> QED
    BY <1>5, <2>1, NoTransfers DEF LoadFree, Ops
<1>6. CASE UNCHANGED vars
  BY <1>6 DEF vars, argVars, tableVars, histVars, OrderInv, LoadFree, Ops
<1> QED
  BY <1>1, <1>2, <1>3, <1>4, <1>5, <1>6, SkipRowOrder, RunKernelOrder DEF Next, Scheduler

\* The scheduler over the arena is the scheduler.
LEMMA MemoryStep == [MemoryNext]_<<vars, memVars>> => [Next]_vars
BY DEF MemoryNext, Begin, Land, Kernel, Bookkeeping, Next, Scheduler

-----------------------------------------------------------------------------
\* Without a load every frame completes its rows by index.
THEOREM LoadFreeIsOrdered == MemorySpec => []LoadFreeFramesAreOrdered
<1>1. MemoryInit => IInv /\ OrderInv
  <2>1. Init => OrderInv
    BY DEF Init, OrderInv
  <2> QED
    BY <2>1, InitIInv DEF MemoryInit
<1>2. IInv /\ OrderInv /\ [MemoryNext]_<<vars, memVars>> => (IInv /\ OrderInv)'
  BY MemoryStep, NextIInv, NextOrder
<1>3. OrderInv => LoadFreeFramesAreOrdered
  BY DEF OrderInv, LoadFree, LoadFreeFramesAreOrdered
<1> QED
  BY <1>1, <1>2, <1>3, PTL DEF MemorySpec

-----------------------------------------------------------------------------
(* The data of a frame.  The arena follows the run by index: when the rows *)
(* that are complete are the first c, every cell that run has written in   *)
(* its first c rows holds here what it holds there.  The other cells hold  *)
(* what an earlier frame left in them, which no row reads.                 *)

\* The arena agrees with a reference wherever that holds a value.
Covers(m, here, there) ==
  /\ here = [b \in Cells(m) |-> here[b]]
  /\ \A b \in Cells(m) : there[b] # Garbage => here[b] = there[b]

NamesValues(m) == \A t \in DOMAIN m.blocks : m.meaning[t] # Garbage

LEMMA HoldsCarries ==
  ASSUME NEW m, NEW here, NEW there, Covers(m, here, there), NamesValues(m),
         NEW t \in DOMAIN m.blocks, Holds(m, there, t)
  PROVE  Holds(m, here, t)
<1> SUFFICES ASSUME NEW b \in m.blocks[t] PROVE here[b] = m.meaning[t]
  BY DEF Holds
<1>1. b \in Cells(m)
  BY DEF Cells
<1>2. there[b] = m.meaning[t] /\ m.meaning[t] # Garbage
  BY DEF Holds, NamesValues
<1> QED
  BY <1>1, <1>2 DEF Covers

\* The inputs are written over whatever is there.
LEMMA FillCovers ==
  ASSUME NEW m, NEW here, here = [b \in Cells(m) |-> here[b]]
  PROVE  Covers(m, FillInputs(m, here), FillInputs(m, ClearMemory(m)))
<1> DEFINE filled(b) == {k \in DOMAIN m.inputs : b \in m.blocks[m.inputs[k]]}
           value(b) == m.meaning[m.inputs[Max(filled(b))]]
<1>1. DOMAIN here = Cells(m)
  OBVIOUS
<1>2. FillInputs(m, here) = [b \in Cells(m) |-> IF filled(b) = {} THEN here[b] ELSE value(b)]
  BY <1>1 DEF FillInputs
<1>3. FillInputs(m, ClearMemory(m)) =
        [b \in Cells(m) |-> IF filled(b) = {} THEN Garbage ELSE value(b)]
  BY DEF FillInputs, ClearMemory, Cells
<1> HIDE DEF filled, value
<1> QED
  BY <1>2, <1>3 DEF Covers

\* A row that reads what it should on both sides writes the same on both.
LEMMA ComputeCovers ==
  ASSUME NEW m, NEW here, NEW there, Covers(m, here, there),
         there \in [Cells(m) -> Values(m)],
         NEW k, ReadsIntact(m, here, k), ReadsIntact(m, there, k)
  PROVE  Covers(m, Compute(m, here, k), Compute(m, there, k))
<1> DEFINE written(b) == {t \in m.writes[k] : b \in m.blocks[t]}
           value(b) == m.meaning[CHOOSE t \in written(b) : TRUE]
<1>1. DOMAIN here = Cells(m) /\ DOMAIN there = Cells(m)
  BY DEF Covers
<1>2. Compute(m, here, k) = [b \in Cells(m) |-> IF written(b) = {} THEN here[b] ELSE value(b)]
  BY <1>1 DEF Compute
<1>3. Compute(m, there, k) = [b \in Cells(m) |-> IF written(b) = {} THEN there[b] ELSE value(b)]
  BY <1>1 DEF Compute
<1> HIDE DEF written, value
<1> QED
  BY <1>2, <1>3 DEF Covers

\* The run of an image by index.
RunOf(m) == CHOOSE after \in Runs(m, m.n) : RunSteps(m, m.n, after)

\* A sound run holds every operand until its last reader, and the outputs at
\* the end.
LEMMA SoundRun ==
  ASSUME img \in Images, img.sound
  PROVE  /\ RunOf(img) \in Runs(img, img.n) /\ RunSteps(img, img.n, RunOf(img))
         /\ \A k \in 0 .. img.n - 1 : OperandsHeld(img, RunOf(img)[k].mem, k, img.n)
         /\ OutputsHold(img, RunOf(img)[img.n].mem)
<1> DEFINE n == img.n
           after == RunOf(img)
<1>1. n \in Nat /\ IsMap(img, n) /\ SequentiallySound(img, n)
  BY ImageFacts, MapsAssumption DEF MapFits
<1>2. \E run \in Runs(img, n) : RunSteps(img, n, run)
  BY <1>1, MapRuns
<1>3. after \in Runs(img, n) /\ RunSteps(img, n, after)
  BY <1>2 DEF RunOf
<1> HIDE DEF after, n
<1>4. after[n].intact /\ OutputsHold(img, after[n].mem)
  BY <1>1, <1>3 DEF SequentiallySound, RunSteps
<1>5. ASSUME NEW k \in 0 .. n - 1, after[k + 1].intact
      PROVE  after[k].intact /\ OperandsHeld(img, after[k].mem, k, n)
  <2>1. after[k + 1] = [mem    |-> Compute(img, after[k].mem, k),
                        intact |-> after[k].intact /\ OperandsHeld(img, after[k].mem, k, n)]
    BY <1>3 DEF RunSteps
  <2>2. after[k + 1].intact = (after[k].intact /\ OperandsHeld(img, after[k].mem, k, n))
    BY <2>1
  <2> QED
    BY <1>5, <2>2
<1>6. \A k \in 0 .. n : after[k].intact
  <2> DEFINE G == {d \in Nat : d <= n => after[n - d].intact}
  <2>1. 0 \in G
    BY <1>1, <1>4
  <2>2. ASSUME NEW d \in Nat, d \in G PROVE d + 1 \in G
    <3> SUFFICES ASSUME d + 1 <= n PROVE after[n - (d + 1)].intact
      OBVIOUS
    <3>1. n - (d + 1) \in 0 .. n - 1 /\ (n - (d + 1)) + 1 = n - d /\ d <= n
      BY <1>1
    <3> QED
      BY <1>5, <2>2, <3>1
  <2> HIDE DEF G
  <2>3. Nat \subseteq G
    BY <2>1, <2>2, NatInductive
  <2> SUFFICES ASSUME NEW k \in 0 .. n PROVE after[k].intact
    OBVIOUS
  <2>4. n - k \in Nat /\ n - k <= n /\ n - (n - k) = k
    BY <1>1
  <2> QED
    BY <2>3, <2>4 DEF G
<1>7. \A k \in 0 .. n - 1 : OperandsHeld(img, after[k].mem, k, n)
  <2> SUFFICES ASSUME NEW k \in 0 .. n - 1 PROVE OperandsHeld(img, after[k].mem, k, n)
    OBVIOUS
  <2>1. k + 1 \in 0 .. n
    BY <1>1
  <2> QED
    BY <1>5, <1>6, <2>1
<1> QED
  BY <1>3, <1>4, <1>7 DEF after, n

\* The rows that are complete are the first c.
FirstAreDone(c) == \A j \in Ops : done[j] <=> j < c

FollowsTheRun ==
  \E c \in 0 .. img.n : FirstAreDone(c) /\ Covers(img, mem, RunOf(img)[c].mem)

DataInv ==
  /\ mem = [b \in Cells(img) |-> mem[b]]
  /\ Running => \A i \in landed : done[i]
  /\ img.sound /\ inOrder =>
       /\ intact
       /\ Running => FollowsTheRun
       /\ status = "OK" => OutputsHold(img, mem)

LEMMA InitDataInv == MemoryInit => DataInv
<1> SUFFICES ASSUME MemoryInit PROVE DataInv
  OBVIOUS
<1>1. ~Running /\ status = "none" /\ intact /\ mem = ClearMemory(img)
  BY DEF MemoryInit, Init, Running
<1>2. mem = [b \in Cells(img) |-> mem[b]]
  BY <1>1 DEF ClearMemory, Cells
<1> QED
  BY <1>1, <1>2 DEF DataInv

\* A frame starts where the run does, over what earlier frames left.
LEMMA BeginDataInv == IInv /\ DataInv /\ Begin => DataInv'
<1> SUFFICES ASSUME IInv, DataInv, Begin PROVE DataInv'
  OBVIOUS
<1>1. /\ img' = img /\ status' = "running" /\ done' = [i \in Ops |-> FALSE] /\ landed' = {}
      /\ mem' = FillInputs(img, mem) /\ intact'
  BY DEF Begin, BeginFrame, SimReset, Filled
<1>2. Covers(img, mem', FillInputs(img, ClearMemory(img)))
  BY <1>1, FillCovers DEF DataInv
<1>3. ASSUME img.sound PROVE FollowsTheRun'
  <2>1. RunSteps(img, img.n, RunOf(img)) /\ img.n \in Nat /\ Ops = 0 .. img.n - 1
    BY <1>3, SoundRun, ImageFacts DEF IInv
  <2>2. RunOf(img)[0].mem = FillInputs(img, ClearMemory(img))
    BY <2>1 DEF RunSteps
  <2>3. \A j \in Ops : done'[j] <=> j < 0
    BY <1>1, <2>1
  <2>4. 0 \in 0 .. img.n
    BY <2>1
  <2> QED
    BY <1>1, <1>2, <2>2, <2>3, <2>4 DEF FollowsTheRun, FirstAreDone, Ops
<1>4. mem' = [b \in Cells(img) |-> mem'[b]]
  BY <1>2 DEF Covers
<1> QED
  BY <1>1, <1>3, <1>4 DEF DataInv

\* In order, the row that is next reads what the run by index reads.  So does
\* any other that is ready: its operands are written, and still there.
LEMMA ReadyReadsIntact ==
  ASSUME IInv, NEW c \in 0 .. img.n, FirstAreDone(c), img.sound,
         Covers(img, mem, RunOf(img)[c].mem),
         NEW i \in Ops, ~done[i], \A p \in img.preds[i] : done[p]
  PROVE  ReadsIntact(img, mem, i) /\ OperandsHeld(img, RunOf(img)[c].mem, c, img.n)
<1> DEFINE there == RunOf(img)[c].mem
           n == img.n
<1>1. img \in Images /\ n \in Nat /\ Ops = 0 .. n - 1
  BY ImageFacts DEF IInv
<1>2. c <= i /\ c \in 0 .. n - 1 /\ i \in c .. n - 1
  BY <1>1 DEF FirstAreDone
<1>3. OperandsHeld(img, there, c, n)
  BY <1>1, <1>2, SoundRun
<1>4. IsMap(img, n) /\ NamesValues(img)
  BY <1>1, MapsAssumption DEF NamesValues, MapFits
<1> HIDE DEF there, n
<1>5. ASSUME NEW t \in img.reads[i], NEW j \in c .. n - 1 PROVE t \notin img.writes[j]
  <2> SUFFICES ASSUME t \in img.writes[j] PROVE FALSE
    OBVIOUS
  <2>1. j \in Ops /\ ~(j < c)
    BY <1>1, <1>2
  <2>2. j \in img.preds[i]
    BY <1>1, <2>1, MapsAssumption DEF Ops, MapFits, RowsOf
  <2> QED
    BY <2>1, <2>2 DEF FirstAreDone
<1>6. ASSUME NEW t \in img.reads[i] PROVE Holds(img, mem, t)
  <2>1. Holds(img, there, t)
    BY <1>2, <1>3, <1>5 DEF OperandsHeld
  <2>2. t \in DOMAIN img.blocks
    BY <1>1, <1>4 DEF IsMap
  <2> QED
    BY <1>4, <2>1, <2>2, HoldsCarries DEF there
<1> QED
  BY <1>3, <1>6 DEF ReadsIntact, there, n

\* The next row of the run completes.
LEMMA NextOfTheRun ==
  ASSUME IInv, NEW c \in 0 .. img.n, FirstAreDone(c), img.sound,
         Covers(img, mem, RunOf(img)[c].mem),
         NEW i \in Ops, ~done[i], \A p \in img.preds[i] : done[p],
         \A j \in Ops : j < i => done[j],
         img' = img, done' = [done EXCEPT ![i] = TRUE], mem' = Compute(img, mem, i)
  PROVE  FollowsTheRun'
<1> DEFINE after == RunOf(img)
<1>1. img \in Images /\ img.n \in Nat /\ Ops = 0 .. img.n - 1 /\ done \in [Ops -> BOOLEAN]
  BY ImageFacts DEF IInv, TypeOK
<1>2. ReadsIntact(img, mem, i) /\ OperandsHeld(img, after[c].mem, c, img.n)
  BY ReadyReadsIntact
<1>3. after \in Runs(img, img.n) /\ RunSteps(img, img.n, after)
  BY <1>1, SoundRun
<1> HIDE DEF after
<1>4. i = c
  <2>1. c <= i
    BY <1>1 DEF FirstAreDone
  <2>2. c \in Ops /\ ~done[c]
    BY <1>1, <2>1 DEF FirstAreDone
  <2> QED
    BY <1>1, <2>1, <2>2
<1>5. ReadsIntact(img, after[c].mem, c)
  <2>1. c \in c .. img.n - 1
    BY <1>1, <1>4
  <2> QED
    BY <1>2, <2>1 DEF ReadsIntact, OperandsHeld
<1>6. after[c].mem \in [Cells(img) -> Values(img)]
  BY <1>3 DEF Runs
<1>7. Covers(img, Compute(img, mem, c), Compute(img, after[c].mem, c))
  BY <1>2, <1>4, <1>5, <1>6, ComputeCovers DEF after
<1>8. after[c + 1].mem = Compute(img, after[c].mem, c)
  <2>1. after[c + 1] = [mem    |-> Compute(img, after[c].mem, c),
                        intact |-> after[c].intact
                                     /\ OperandsHeld(img, after[c].mem, c, img.n)]
    BY <1>1, <1>3, <1>4 DEF RunSteps
  <2> QED
    BY <2>1
<1>9. c + 1 \in 0 .. img.n /\ \A j \in Ops : done'[j] <=> j < c + 1
  BY <1>1, <1>4 DEF FirstAreDone
<1> QED
  BY <1>4, <1>7, <1>8, <1>9 DEF FollowsTheRun, FirstAreDone, Ops, after

\* A transfer that lands is its row's whole effect.
LEMMA LandFacts ==
  ASSUME IInv, Running => \A i \in landed : done[i], PollComplete
  PROVE  \E i \in Ops :
           /\ img.device[i] = "DMA" /\ ~done[i] /\ \A p \in img.preds[i] : done[p]
           /\ landed' = landed \cup {i} /\ landed' \ landed = {i}
           /\ done' = [done EXCEPT ![i] = TRUE] /\ UNCHANGED <<img, status>>
           /\ inOrder' = (inOrder /\ \A j \in Ops : j < i => done[j])
           /\ Running
<1> DEFINE i == slotOp[cursor]
           c == slotCh[cursor]
<1>1. /\ pc = "poll" /\ i >= 0 /\ PollResult(c) /\ Poll(c) /\ Complete(i)
      /\ UNCHANGED <<argVars, status>>
  BY DEF PollComplete, PollDone
<1>2. /\ Running /\ TypeOK /\ img \in Images /\ CountsInv /\ StartsInv /\ SlotsInv
  BY <1>1 DEF IInv, StatusInv, Running, TableInv, WireInv
<1>3. cursor \in Channel
  BY <1>1, <1>2 DEF TypeOK
<1>4. /\ i \in Ops /\ img.device[i] = "DMA" /\ ~done[i] /\ c \in Channel
      /\ chan[c].busy /\ chan[c].job = i
  BY <1>1, <1>2, <1>3 DEF SlotsInv
<1>5. dep[i] = 0
  <2>1. InFlight(i)
    BY <1>3 DEF InFlight
  <2>2. starts[i] = 1
    BY <2>1, <1>2, <1>4 DEF StartsInv
  <2> QED
    BY <2>2, <1>2, <1>4 DEF StartsInv
<1> HIDE DEF i, c
<1>6. \A p \in img.preds[i] : done[p]
  <2>1. Cardinality(Pending(i)) = 0
    BY <1>2, <1>4, <1>5 DEF CountsInv
  <2>2. Pending(i) = {}
    BY <1>2, <1>4, <2>1, PendingFacts
  <2>3. img.preds[i] \subseteq Ops
    BY <1>2, <1>4, ImageFacts
  <2> QED
    BY <2>2, <2>3 DEF Pending, Undone
<1>7. landed' = landed \cup {i}
  <2>1. Due({c}, now) = {c}
    BY <1>1, <1>4 DEF PollResult, Due
  <2>2. {chan[d].job : d \in {c}} = {i}
    BY <1>4
  <2> QED
    BY <1>1, <2>1, <2>2 DEF Poll, CompleteIfReady
<1>8. landed' \ landed = {i}
  BY <1>2, <1>4, <1>7
<1> QED
  BY <1>1, <1>2, <1>4, <1>6, <1>7, <1>8 DEF Complete, argVars

LEMMA LandDataInv == IInv /\ DataInv /\ Land => DataInv'
<1> SUFFICES ASSUME IInv, DataInv, Land PROVE DataInv'
  OBVIOUS
<1>1. PollComplete /\ mem' = AfterLanding /\ intact' = intact
  BY DEF Land
<1>2. Running => \A i \in landed : done[i]
  BY DEF DataInv
<1>3. PICK i \in Ops :
        /\ img.device[i] = "DMA" /\ ~done[i] /\ \A p \in img.preds[i] : done[p]
        /\ landed' = landed \cup {i} /\ landed' \ landed = {i}
        /\ done' = [done EXCEPT ![i] = TRUE] /\ UNCHANGED <<img, status>>
        /\ inOrder' = (inOrder /\ \A j \in Ops : j < i => done[j])
        /\ Running
  BY <1>1, <1>2, LandFacts
<1>4. img \in Images /\ done \in [Ops -> BOOLEAN] /\ status = "running"
  BY <1>3 DEF IInv, TypeOK, StatusInv
<1>5. img.reads[i] = {}
  BY <1>3, <1>4, MapsAssumption DEF Ops, MapFits, RowsOf
<1>6. mem' = Compute(img, mem, i)
  <2>1. UNION {img.writes[j] : j \in landed' \ landed} = img.writes[i]
    BY <1>3
  <2>2. ReadsIntact(img, mem, i)
    BY <1>5 DEF ReadsIntact
  <2> QED
    BY <1>1, <2>1, <2>2 DEF AfterLanding, Compute
<1>7. mem' = [b \in Cells(img) |-> mem'[b]]
  <2>1. DOMAIN mem = Cells(img)
    BY DEF DataInv
  <2> QED
    BY <1>6, <2>1 DEF Compute
<1>8. \A j \in landed' : done'[j]
  BY <1>2, <1>3, <1>4
<1>9. ASSUME img.sound, inOrder' PROVE FollowsTheRun'
  <2>1. FollowsTheRun
    BY <1>3, <1>9 DEF DataInv
  <2>2. PICK c \in 0 .. img.n : FirstAreDone(c) /\ Covers(img, mem, RunOf(img)[c].mem)
    BY <2>1 DEF FollowsTheRun
  <2> QED
    BY <1>3, <1>6, <1>9, <2>2, NextOfTheRun
<1> QED
  BY <1>1, <1>3, <1>4, <1>7, <1>8, <1>9 DEF DataInv

\* Nothing lands while a kernel runs.
LEMMA KernelFacts ==
  ASSUME IInv, DataInv, NEW i \in Ops, Execute(i), Kernel
  PROVE  /\ status = "running" /\ ~done[i] /\ \A p \in img.preds[i] : done[p]
         /\ UNCHANGED <<img, landed>> /\ Running
         /\ mem' = Compute(img, mem, i)
         /\ intact' = (intact /\ ReadsIntact(img, mem, i))
         /\ mem' = [b \in Cells(img) |-> mem'[b]]
<1>1. /\ Running /\ status = "running" /\ i = cursor /\ Startable(i) /\ ~done[i]
      /\ UNCHANGED <<landed, argVars>>
  BY ExecuteFacts
<1>2. \A p \in img.preds[i] : done[p]
  BY <1>1, StartableFacts
<1>3. mem = [b \in Cells(img) |-> mem[b]]
  BY DEF DataInv
<1>4. AfterLanding = mem
  <2>1. \A b : {t \in UNION {img.writes[j] : j \in landed' \ landed} : b \in img.blocks[t]} = {}
    BY <1>1
  <2>2. DOMAIN mem = Cells(img)
    BY <1>3
  <2> QED
    BY <1>3, <2>1, <2>2 DEF AfterLanding
<1>5. /\ mem' = Compute(img, mem, i)
      /\ intact' = (intact /\ ReadsIntact(img, mem, i))
  BY <1>1, <1>4 DEF Kernel
<1>6. mem' = [b \in Cells(img) |-> mem'[b]]
  <2>1. DOMAIN mem = Cells(img)
    BY <1>3
  <2> QED
    BY <1>5, <2>1 DEF Compute
<1> QED
  BY <1>1, <1>2, <1>5, <1>6 DEF argVars

LEMMA KernelDataInv == IInv /\ DataInv /\ Kernel => DataInv'
<1> SUFFICES ASSUME IInv, DataInv, Kernel PROVE DataInv'
  OBVIOUS
<1>1. PICK i \in Ops :
        /\ Execute(i)
        /\ \/ Complete(i) /\ UNCHANGED status
           \/ status' = "ERR_DEADLINE" /\ pc' = "idle" /\ UNCHANGED <<tableVars, inOrder>>
  BY DEF Kernel, RunKernel, MissDeadline, Return
<1>2. /\ status = "running" /\ ~done[i] /\ \A p \in img.preds[i] : done[p]
      /\ UNCHANGED <<img, landed>> /\ Running
      /\ mem' = Compute(img, mem, i)
      /\ intact' = (intact /\ ReadsIntact(img, mem, i))
      /\ mem' = [b \in Cells(img) |-> mem'[b]]
  BY <1>1, KernelFacts
<1>3. done \in [Ops -> BOOLEAN]
  BY DEF IInv, TypeOK
<1>4. ASSUME img.sound, inOrder
      PROVE  /\ intact'
             /\ \E c \in 0 .. img.n : FirstAreDone(c) /\ Covers(img, mem, RunOf(img)[c].mem)
  <2>1. intact /\ FollowsTheRun
    BY <1>2, <1>4 DEF DataInv
  <2>2. PICK c \in 0 .. img.n : FirstAreDone(c) /\ Covers(img, mem, RunOf(img)[c].mem)
    BY <2>1 DEF FollowsTheRun
  <2>3. ReadsIntact(img, mem, i)
    BY <1>2, <1>4, <2>2, ReadyReadsIntact
  <2> QED
    BY <1>2, <2>1, <2>2, <2>3
<1>5. CASE Complete(i) /\ UNCHANGED status
  <2>1. /\ done' = [done EXCEPT ![i] = TRUE]
        /\ inOrder' = (inOrder /\ \A j \in Ops : j < i => done[j])
    BY <1>5 DEF Complete
  <2>2. ASSUME img.sound, inOrder' PROVE FollowsTheRun'
    <3>1. PICK c \in 0 .. img.n : FirstAreDone(c) /\ Covers(img, mem, RunOf(img)[c].mem)
      BY <1>4, <2>1, <2>2
    <3> QED
      BY <1>2, <2>1, <2>2, <3>1, NextOfTheRun
  <2>3. \A j \in landed' : done'[j]
    BY <1>2, <1>3, <2>1 DEF DataInv
  <2> QED
    BY <1>2, <1>4, <1>5, <2>1, <2>2, <2>3 DEF DataInv
<1>6. CASE status' = "ERR_DEADLINE" /\ pc' = "idle" /\ UNCHANGED <<tableVars, inOrder>>
  <2>1. ~Running'
    BY <1>6 DEF Running
  <2> QED
    BY <1>2, <1>4, <1>6, <2>1 DEF DataInv
<1> QED
  BY <1>1, <1>5, <1>6

\* A frame returns OK when the run has reached its end.
LEMMA FinishDataInv == IInv /\ DataInv /\ FinishFrame /\ UNCHANGED memVars => DataInv'
<1> SUFFICES ASSUME IInv, DataInv, FinishFrame, UNCHANGED memVars PROVE DataInv'
  OBVIOUS
<1>1. /\ pc = "loop" /\ uncompleted <= 0 /\ status' = "OK" /\ pc' = "idle"
      /\ UNCHANGED <<img, done, inOrder, mem, intact>>
  BY DEF FinishFrame, Return, argVars, tableVars, memVars
<1>2. Running /\ CountsInv /\ img \in Images
  BY <1>1 DEF IInv, StatusInv, TableInv, Running
<1>3. Undone = {}
  BY <1>1, <1>2, PendingFacts DEF CountsInv
<1>4. ASSUME img.sound, inOrder PROVE OutputsHold(img, mem)
  <2>1. PICK c \in 0 .. img.n : FirstAreDone(c) /\ Covers(img, mem, RunOf(img)[c].mem)
    BY <1>2, <1>4 DEF DataInv, FollowsTheRun
  <2>2. c = img.n
    <3>1. img.n \in Nat /\ Ops = 0 .. img.n - 1
      BY <1>2, ImageFacts
    <3>2. \A j \in Ops : j < c
      BY <1>3, <2>1 DEF Undone, FirstAreDone
    <3>3. ~(c \in Ops)
      BY <3>1, <3>2
    <3> QED
      BY <3>1, <3>3
  <2>3. OutputsHold(img, RunOf(img)[img.n].mem)
    BY <1>2, <1>4, SoundRun
  <2>4. IsMap(img, img.n) /\ NamesValues(img)
    BY <1>2, MapsAssumption DEF NamesValues, MapFits
  <2>5. img.outputs \subseteq DOMAIN img.blocks
    BY <2>4 DEF IsMap
  <2> SUFFICES ASSUME NEW t \in img.outputs PROVE Holds(img, mem, t)
    BY DEF OutputsHold
  <2>6. Holds(img, RunOf(img)[c].mem, t)
    BY <2>2, <2>3 DEF OutputsHold
  <2> QED
    BY <2>1, <2>4, <2>5, <2>6, HoldsCarries
<1>5. ~Running'
  BY <1>1 DEF Running
<1> QED
  BY <1>1, <1>2, <1>4, <1>5 DEF DataInv

\* Whatever else happens, nothing completes, lands or is written.
LEMMA QuietDataInv ==
  ASSUME IInv, DataInv, UNCHANGED memVars,
         BeginSweep \/ PollNothing \/ SkipRow \/ DenyCapability \/ SubmitTransfer
           \/ SubmitRefused \/ EndSweep \/ Stall \/ UNCHANGED vars
  PROVE  DataInv'
<1>1. /\ UNCHANGED <<img, active, done, inOrder>>
      /\ Running' => Running
      /\ status' = status \/ status' \notin {"none", "OK"}
  BY QuietSteps
<1>2. landed' = landed
  <2> USE DEF engineVars, vars
  <2>1. CASE BeginSweep \/ PollNothing \/ SkipRow \/ DenyCapability
               \/ SubmitRefused \/ EndSweep \/ UNCHANGED vars
    BY <2>1 DEF BeginSweep, PollNothing, SkipRow, DenyCapability, SubmitRefused, EndSweep
  <2>2. CASE SubmitTransfer
    BY <2>2 DEF SubmitTransfer, Submit
  <2>3. CASE Stall
    BY <2>3 DEF Stall, SimAdvance
  <2> QED
    BY <2>1, <2>2, <2>3
<1>3. mem' = mem /\ intact' = intact
  BY DEF memVars
<1>4. ASSUME FollowsTheRun PROVE FollowsTheRun'
  <2>1. PICK c \in 0 .. img.n : FirstAreDone(c) /\ Covers(img, mem, RunOf(img)[c].mem)
    BY <1>4 DEF FollowsTheRun
  <2>2. FirstAreDone(c)' /\ Covers(img', mem', RunOf(img')[c].mem)
    BY <1>1, <1>3, <2>1 DEF FirstAreDone, Ops
  <2> QED
    BY <1>1, <2>2 DEF FollowsTheRun
<1>5. mem' = [b \in Cells(img') |-> mem'[b]]
  BY <1>1, <1>3 DEF DataInv
<1>6. Running' => \A i \in landed' : done'[i]
  BY <1>1, <1>2 DEF DataInv
<1>7. img'.sound /\ inOrder' =>
        /\ intact'
        /\ Running' => FollowsTheRun'
        /\ status' = "OK" => OutputsHold(img', mem')
  BY <1>1, <1>3, <1>4 DEF DataInv
<1> QED
  BY <1>5, <1>6, <1>7 DEF DataInv

LEMMA NextDataInv == IInv /\ DataInv /\ [MemoryNext]_<<vars, memVars>> => DataInv'
<1> SUFFICES ASSUME IInv, DataInv, [MemoryNext]_<<vars, memVars>> PROVE DataInv'
  OBVIOUS
<1>1. CASE Begin
  BY <1>1, BeginDataInv
<1>2. CASE Land
  BY <1>2, LandDataInv
<1>3. CASE Kernel
  BY <1>3, KernelDataInv
<1>4. CASE Bookkeeping
  BY <1>4, FinishDataInv, QuietDataInv DEF Bookkeeping
<1>5. CASE UNCHANGED <<vars, memVars>>
  BY <1>5, QuietDataInv
<1> QED
  BY <1>1, <1>2, <1>3, <1>4, <1>5 DEF MemoryNext

-----------------------------------------------------------------------------
\* In a frame whose rows complete by index, a plan that is sound row by row is
\* sound under the scheduler: a row never reads what a transfer, a refused
\* submit or an earlier frame left, and a frame that returns OK has the outputs
\* of the graph in the arena.
THEOREM FramesAreExact == MemorySpec => []OrderedFramesAreExact
<1>1. MemoryInit => IInv /\ DataInv
  BY InitIInv, InitDataInv DEF MemoryInit
<1>2. IInv /\ DataInv /\ [MemoryNext]_<<vars, memVars>> => (IInv /\ DataInv)'
  BY MemoryStep, NextIInv, NextDataInv
<1>3. DataInv => OrderedFramesAreExact
  BY DEF DataInv, OrderedFramesAreExact
<1> QED
  BY <1>1, <1>2, <1>3, PTL DEF MemorySpec
=============================================================================
