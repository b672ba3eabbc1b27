------------------------------ MODULE DmaProofs ------------------------------
(***************************************************************************)
(* The DMA fabric moves every payload once and keeps its contract, for any *)
(* number of channels, bandwidth, jobs, sizes and amounts of time.         *)
(*                                                                         *)
(* ExactlyOnce needs to be strengthened by two facts: what has landed is   *)
(* finite, so that it can be counted, and a free channel's completion      *)
(* cycle is in the past, so that a transfer starts when it is submitted.   *)
(***************************************************************************)
EXTENDS DmaService, DataInduction, FunctionTheorems

FreeIsPast == \A c \in Channel : ~chan[c].busy => chan[c].doneAt <= now

IInv == TypeOK /\ ExactlyOnce /\ FreeIsPast /\ IsFiniteSet(landed)

\* The channels are finitely many, and so are those in use.
LEMMA BusyFacts ==
  /\ IsFiniteSet(Channel) /\ Cardinality(Channel) = NumChannels
  /\ Busy \subseteq Channel /\ IsFiniteSet(Busy) /\ Cardinality(Busy) \in Nat
<1>1. IsFiniteSet(Channel) /\ Cardinality(Channel) = NumChannels
  BY EngineAssumption, FS_Interval DEF Channel
<1>2. Busy \subseteq Channel
  BY DEF Busy
<1> QED
  BY <1>1, <1>2, FS_Subset, FS_CardinalityType

\* A transfer takes at least one cycle.
LEMMA TransferTakesTime ==
  ASSUME NEW b \in Nat
  PROVE  TransferCycles(b) \in Nat \ {0}
<1>1. b + Bandwidth - 1 \in Nat /\ Bandwidth \in Nat \ {0}
  BY EngineAssumption
<1>2. (b + Bandwidth - 1) \div Bandwidth \in Nat
  BY <1>1
<1> QED
  BY <1>2 DEF TransferCycles

\* A look at one channel either finds nothing due or frees it and copies its
\* payload.
LEMMA LookAtOne ==
  ASSUME TypeOK, NEW c \in Channel, NEW t \in Nat, CompleteIfReady({c}, t)
  PROVE  \/ UNCHANGED <<chan, landed, copies>>
         \/ /\ chan[c].busy /\ chan[c].doneAt <= t
            /\ chan' = [chan EXCEPT ![c].busy = FALSE]
            /\ landed' = landed \cup {chan[c].job}
            /\ copies' = copies + 1
<1>1. chan \in [Channel -> [busy : BOOLEAN, doneAt : Nat, job : Jobs \cup {NoJob}]]
      /\ copies \in Nat
  BY DEF TypeOK, EngineTypeOK
<1>2. CASE c \in Due({c}, t)
  <2>1. Due({c}, t) = {c} /\ chan[c].busy /\ chan[c].doneAt <= t
    BY <1>2 DEF Due
  <2>2. Cardinality({c}) = 1
    BY FS_Singleton
  <2>3. {chan[d].job : d \in {c}} = {chan[c].job}
    OBVIOUS
  <2> QED
    BY <1>1, <2>1, <2>2, <2>3 DEF CompleteIfReady
<1>3. CASE c \notin Due({c}, t)
  <2>1. Due({c}, t) = {}
    BY <1>3 DEF Due
  <2>2. Cardinality({}) = 0
    BY FS_EmptySet
  <2>3. chan' = chan /\ landed' = landed \cup {chan[d].job : d \in {}}
        /\ copies' = copies + Cardinality({})
    BY <1>1, <2>1, Zenon DEF CompleteIfReady
  <2>4. landed' = landed /\ copies' = copies
    BY <1>1, <2>2, <2>3
  <2> QED
    BY <2>3, <2>4
<1> QED
  BY <1>2, <1>3

\* Waiting for a channel does not turn the clock back.
LEMMA WaitForOne ==
  ASSUME TypeOK, NEW c \in Channel
  PROVE  AfterWait({c}) \in Nat /\ AfterWait({c}) >= now
<1> DEFINE Late(t) == t >= now /\ \A d \in {c} : t >= chan[d].doneAt
           Times == {now} \cup {chan[d].doneAt : d \in {c}}
<1>1. now \in Nat /\ chan[c].doneAt \in Nat
  BY DEF TypeOK, EngineTypeOK
<1>2. \E t \in Times : Late(t)
  <2>1. CASE now >= chan[c].doneAt
    BY <2>1, <1>1
  <2>2. CASE ~(now >= chan[c].doneAt)
    BY <2>2, <1>1
  <2> QED
    BY <2>1, <2>2
<1>3. AfterWait({c}) \in Times /\ Late(AfterWait({c}))
  BY <1>2 DEF AfterWait
<1> QED
  BY <1>1, <1>3

-----------------------------------------------------------------------------
\* What a look at one channel keeps, with the clock moved on to t.
LEMMA LookKeeps ==
  ASSUME IInv, NEW c \in Channel, now' \in Nat, now' >= now,
         CompleteIfReady({c}, now'), UNCHANGED <<submits, xferCycles, asked, resets>>
  PROVE  IInv'
<1>1. /\ now \in Nat /\ landed \subseteq Jobs /\ asked \subseteq Jobs /\ copies \in Nat
      /\ chan \in [Channel -> [busy : BOOLEAN, doneAt : Nat, job : Jobs \cup {NoJob}]]
  BY DEF IInv, TypeOK, EngineTypeOK
<1>2. CASE UNCHANGED <<chan, landed, copies>>
  <2>1. Busy' = Busy
    BY <1>2 DEF Busy
  <2>2. FreeIsPast'
    BY <1>1, <1>2 DEF IInv, FreeIsPast
  <2> QED
    BY <1>2, <2>1, <2>2 DEF IInv, TypeOK, EngineTypeOK, ExactlyOnce
<1>3. CASE /\ chan[c].busy /\ chan[c].doneAt <= now'
           /\ chan' = [chan EXCEPT ![c].busy = FALSE]
           /\ landed' = landed \cup {chan[c].job}
           /\ copies' = copies + 1
  <2>1. /\ ~chan'[c].busy /\ chan'[c].doneAt = chan[c].doneAt
        /\ \A d \in Channel : d # c => chan'[d] = chan[d]
        /\ chan' \in [Channel -> [busy : BOOLEAN, doneAt : Nat, job : Jobs \cup {NoJob}]]
    BY <1>1, <1>3
  <2>2. Busy' = Busy \ {c} /\ c \in Busy
    BY <1>3, <2>1 DEF Busy
  <2>3. chan[c].job \in asked /\ chan[c].job \notin landed
    BY <2>2 DEF IInv, ExactlyOnce
  <2>4. TypeOK'
    BY <1>1, <1>3, <2>1, <2>3 DEF IInv, TypeOK, EngineTypeOK
  <2>5. FreeIsPast'
    BY <1>1, <1>3, <2>1 DEF IInv, FreeIsPast
  <2>6. IsFiniteSet(landed') /\ Cardinality(landed') = Cardinality(landed) + 1
    BY <1>3, <2>3, FS_AddElement DEF IInv
  <2>7. Cardinality(Busy') = Cardinality(Busy) - 1
    BY <2>2, BusyFacts, FS_RemoveElement
  <2>8. submits' = Cardinality(Busy') + copies' /\ copies' = Cardinality(landed')
    BY <1>1, <1>3, <2>6, <2>7, BusyFacts DEF IInv, ExactlyOnce
  <2>9. \A d \in Busy' : d \in Busy /\ d # c /\ chan'[d] = chan[d]
    BY <2>1, <2>2, BusyFacts
  <2>10. \A d \in Busy' : chan'[d].job \notin landed'
    BY <1>3, <2>2, <2>9 DEF IInv, ExactlyOnce
  <2>11. \A d, e \in Busy' : chan'[d].job = chan'[e].job => d = e
    BY <2>9 DEF IInv, ExactlyOnce
  <2>12. asked = landed' \cup {chan'[d].job : d \in Busy'}
    <3>1. {chan'[d].job : d \in Busy'} = {chan[d].job : d \in Busy \ {c}}
      BY <2>2, <2>9
    <3>2. {chan[d].job : d \in Busy} = {chan[d].job : d \in Busy \ {c}} \cup {chan[c].job}
      BY <2>2
    <3> QED
      BY <1>3, <3>1, <3>2 DEF IInv, ExactlyOnce
  <2> QED
    BY <2>4, <2>5, <2>6, <2>8, <2>10, <2>11, <2>12 DEF IInv, ExactlyOnce
<1> QED
  BY <1>2, <1>3, LookAtOne DEF IInv

\* The fabric starts idle and empty.
LEMMA InitIInv == Init => IInv
<1> SUFFICES ASSUME Init PROVE IInv
  OBVIOUS
<1> USE DEF Init, EngineInit
<1>1. TypeOK /\ FreeIsPast
  BY DEF TypeOK, EngineTypeOK, FreeIsPast, IdleChannel
<1>2. Busy = {}
  BY DEF Busy, IdleChannel
<1>3. IsFiniteSet({}) /\ Cardinality({}) = 0
  BY FS_EmptySet
<1> QED
  BY <1>1, <1>2, <1>3 DEF IInv, ExactlyOnce

\* A reset leaves it so, whatever was on the wire.
LEMMA ResetIInv == IInv /\ Reset => IInv'
<1> SUFFICES ASSUME IInv, Reset PROVE IInv'
  OBVIOUS
<1>1. /\ now' = 0 /\ landed' = {} /\ submits' = 0 /\ copies' = 0 /\ xferCycles' = 0
      /\ chan' = [c \in Channel |-> IdleChannel] /\ asked' = {} /\ resets' = resets + 1
  BY DEF Reset, SimReset
<1>2. TypeOK' /\ FreeIsPast'
  BY <1>1 DEF IInv, TypeOK, EngineTypeOK, FreeIsPast, IdleChannel
<1>3. Busy' = {}
  BY <1>1 DEF Busy, IdleChannel
<1>4. IsFiniteSet({}) /\ Cardinality({}) = 0
  BY FS_EmptySet
<1> QED
  BY <1>1, <1>2, <1>3, <1>4 DEF IInv, ExactlyOnce

\* Time passes and nothing else.
LEMMA AdvanceIInv == IInv /\ Advance => IInv'
<1> SUFFICES ASSUME IInv, Advance PROVE IInv'
  OBVIOUS
<1>1. PICK cycles \in Steps : SimAdvance(cycles) /\ UNCHANGED <<asked, resets>>
  BY DEF Advance
<1>2. /\ now' = now + cycles /\ cycles \in Nat /\ now \in Nat
      /\ UNCHANGED <<chan, landed, submits, copies, xferCycles, asked, resets>>
  BY <1>1, ServiceAssumption DEF SimAdvance, IInv, TypeOK, EngineTypeOK
<1>3. Busy' = Busy
  BY <1>2 DEF Busy
<1>4. FreeIsPast'
  <2>1. \A c \in Channel : chan[c].doneAt \in Nat
    BY DEF IInv, TypeOK, EngineTypeOK
  <2> QED
    BY <1>2, <2>1 DEF IInv, FreeIsPast
<1> QED
  BY <1>2, <1>3, <1>4 DEF IInv, TypeOK, EngineTypeOK, ExactlyOnce

\* What a submission changes.
LEMMA SubmitFacts ==
  ASSUME IInv, NEW j \in Jobs \ asked, NEW b \in Bytes, NEW c \in Channel, Submit(c, j, b)
  PROVE  /\ ~chan[c].busy /\ TransferCycles(b) \in Nat \ {0}
         /\ chan'[c] = [busy |-> TRUE, doneAt |-> now + TransferCycles(b), job |-> j]
         /\ \A d \in Channel : d # c => chan'[d] = chan[d]
         /\ chan' \in [Channel -> [busy : BOOLEAN, doneAt : Nat, job : Jobs \cup {NoJob}]]
         /\ submits' = submits + 1 /\ xferCycles' = xferCycles + TransferCycles(b)
         /\ UNCHANGED <<now, landed, copies>>
         /\ Busy' = Busy \cup {c} /\ c \notin Busy
<1>1. b \in Nat /\ TransferCycles(b) \in Nat \ {0}
  BY ServiceAssumption, TransferTakesTime
<1>2. /\ chan \in [Channel -> [busy : BOOLEAN, doneAt : Nat, job : Jobs \cup {NoJob}]]
      /\ now \in Nat
  BY DEF IInv, TypeOK, EngineTypeOK
<1>3. ~chan[c].busy
  BY DEF Submit, IsFirstFree
<1>4. StartOn(c) = now
  <2>1. chan[c].doneAt <= now /\ chan[c].doneAt \in Nat
    BY <1>2, <1>3 DEF IInv, FreeIsPast
  <2> QED
    BY <2>1, <1>2 DEF StartOn
<1>5. /\ chan' = [chan EXCEPT ![c] = [busy |-> TRUE, doneAt |-> now + TransferCycles(b), job |-> j]]
      /\ submits' = submits + 1 /\ xferCycles' = xferCycles + TransferCycles(b)
      /\ UNCHANGED <<now, landed, copies>>
  BY <1>4 DEF Submit
<1>6. /\ chan'[c] = [busy |-> TRUE, doneAt |-> now + TransferCycles(b), job |-> j]
      /\ \A d \in Channel : d # c => chan'[d] = chan[d]
      /\ chan' \in [Channel -> [busy : BOOLEAN, doneAt : Nat, job : Jobs \cup {NoJob}]]
  BY <1>1, <1>2, <1>5
<1>7. Busy' = Busy \cup {c} /\ c \notin Busy
  BY <1>3, <1>6 DEF Busy
<1> QED
  BY <1>1, <1>3, <1>5, <1>6, <1>7

\* A new transfer goes on a channel that was free.
LEMMA SubmitJobIInv == IInv /\ SubmitJob => IInv'
<1> SUFFICES ASSUME IInv, SubmitJob PROVE IInv'
  OBVIOUS
<1>1. PICK j \in Jobs \ asked, b \in Bytes, c \in Channel :
        Submit(c, j, b) /\ asked' = asked \cup {j} /\ resets' = resets
  BY DEF SubmitJob
<1>2. /\ TransferCycles(b) \in Nat \ {0}
      /\ chan'[c] = [busy |-> TRUE, doneAt |-> now + TransferCycles(b), job |-> j]
      /\ \A d \in Channel : d # c => chan'[d] = chan[d]
      /\ chan' \in [Channel -> [busy : BOOLEAN, doneAt : Nat, job : Jobs \cup {NoJob}]]
      /\ submits' = submits + 1 /\ xferCycles' = xferCycles + TransferCycles(b)
      /\ UNCHANGED <<now, landed, copies>>
      /\ Busy' = Busy \cup {c} /\ c \notin Busy
  BY <1>1, SubmitFacts
<1>3. TypeOK'
  BY <1>1, <1>2 DEF IInv, TypeOK, EngineTypeOK
<1>4. FreeIsPast'
  <2>1. \A d \in Channel : ~chan'[d].busy => d # c
    BY <1>2
  <2> QED
    BY <2>1, <1>2 DEF IInv, FreeIsPast
<1>5. Cardinality(Busy') = Cardinality(Busy) + 1
  BY <1>2, BusyFacts, FS_AddElement
<1>6. submits' = Cardinality(Busy') + copies' /\ copies' = Cardinality(landed')
  BY <1>2, <1>5, BusyFacts DEF IInv, ExactlyOnce, TypeOK, EngineTypeOK
<1>7. \A d \in Busy : chan'[d] = chan[d] /\ chan[d].job \in asked
  BY <1>2, BusyFacts DEF IInv, ExactlyOnce
<1>8. asked' = landed' \cup {chan'[d].job : d \in Busy'}
  <2>1. {chan'[d].job : d \in Busy'} = {chan[d].job : d \in Busy} \cup {j}
    BY <1>2, <1>7
  <2> QED
    BY <2>1, <1>1, <1>2 DEF IInv, ExactlyOnce
<1>9. j \notin landed
  BY DEF IInv, ExactlyOnce
<1>10. \A d \in Busy' : chan'[d].job \notin landed'
  BY <1>2, <1>7, <1>9 DEF IInv, ExactlyOnce
<1>11. \A d, e \in Busy' : chan'[d].job = chan'[e].job => d = e
  BY <1>2, <1>7 DEF IInv, ExactlyOnce
<1> QED
  BY <1>2, <1>3, <1>4, <1>6, <1>8, <1>10, <1>11 DEF IInv, ExactlyOnce

\* A poll looks at one channel now, a wait once its transfer is due.
LEMMA PollChannelIInv == IInv /\ PollChannel => IInv'
<1> SUFFICES ASSUME IInv, PollChannel PROVE IInv'
  OBVIOUS
<1>1. PICK c \in Channel : Poll(c) /\ UNCHANGED <<asked, resets>>
  BY DEF PollChannel
<1>2. /\ now' = now /\ CompleteIfReady({c}, now') /\ UNCHANGED <<submits, xferCycles>>
      /\ now \in Nat
  BY <1>1 DEF Poll, IInv, TypeOK, EngineTypeOK
<1> QED
  BY <1>1, <1>2, LookKeeps

LEMMA WaitChannelIInv == IInv /\ WaitChannel => IInv'
<1> SUFFICES ASSUME IInv, WaitChannel PROVE IInv'
  OBVIOUS
<1>1. PICK c \in Channel : WaitThenAdvance({c}, 0) /\ UNCHANGED <<asked, resets>>
  BY DEF WaitChannel
<1>2. AfterWait({c}) \in Nat /\ AfterWait({c}) >= now
  BY WaitForOne DEF IInv
<1>3. now' = AfterWait({c}) /\ CompleteIfReady({c}, now') /\ UNCHANGED <<submits, xferCycles>>
  BY <1>1, <1>2 DEF WaitThenAdvance
<1> QED
  BY <1>1, <1>2, <1>3, LookKeeps

\* The strengthened invariant holds in every state.
THEOREM Inductive == Spec => []IInv
<1>1. Init => IInv
  BY InitIInv
<1>2. IInv /\ [Next]_vars => IInv'
  <2> SUFFICES ASSUME IInv, [Next]_vars PROVE IInv'
    OBVIOUS
  <2>1. CASE Next
    BY <2>1, ResetIInv, AdvanceIInv, SubmitJobIInv, PollChannelIInv, WaitChannelIInv DEF Next
  <2>2. CASE UNCHANGED vars
    BY <2>2 DEF vars, engineVars, IInv, TypeOK, EngineTypeOK, ExactlyOnce, FreeIsPast, Busy
  <2> QED
    BY <2>1, <2>2
<1> QED
  BY <1>1, <1>2, PTL DEF Spec

\* Every variable of the fabric keeps its type.
THEOREM TypeCorrect == Spec => []TypeOK
<1>1. IInv => TypeOK
  BY DEF IInv
<1> QED
  BY <1>1, Inductive, PTL

\* A transfer is on one channel or copied once, and the fabric's counters say
\* which (dma_engine.c:11-14).
THEOREM MovesOnce == Spec => []ExactlyOnce
<1>1. IInv => ExactlyOnce
  BY DEF IInv
<1> QED
  BY <1>1, Inductive, PTL

\* The wire time handed out fits end to end below the channels' completion
\* cycles: what a submission adds to the one it adds to the other, and neither a
\* copy nor the clock takes it away (dma_engine.c:59-67).
THEOREM WithinCapacity == Spec => []FabricCapacity
<1> DEFINE until == [c \in Channel |-> chan[c].doneAt]
<1>1. IsFiniteSet(Channel) /\ DOMAIN until = Channel /\ DOMAIN until' = Channel
  BY BusyFacts
<1>2. FabricCapacity <=> xferCycles <= SumFunctionOnSet(until, Channel)
  BY <1>1 DEF FabricCapacity, SumFunction
<1>3. FabricCapacity' <=> xferCycles' <= SumFunctionOnSet(until', Channel)
  BY <1>1 DEF FabricCapacity, SumFunction
<1>4. ASSUME TypeOK PROVE xferCycles \in Nat /\ \A c \in Channel : until[c] = chan[c].doneAt /\ until[c] \in Nat
  BY <1>4 DEF TypeOK, EngineTypeOK
<1>5. ASSUME TypeOK' PROVE xferCycles' \in Nat /\ \A c \in Channel : until'[c] = chan'[c].doneAt /\ until'[c] \in Nat
  BY <1>5 DEF TypeOK, EngineTypeOK
<1> HIDE DEF until
<1>6. Init => FabricCapacity
  <2> SUFFICES ASSUME Init PROVE FabricCapacity
    OBVIOUS
  <2>1. TypeOK
    BY InitIInv DEF IInv
  <2>2. SumFunctionOnSet(until, Channel) \in Nat
    BY <1>1, <1>4, <2>1, SumNatural
  <2>3. xferCycles = 0
    BY DEF Init, EngineInit
  <2> QED
    BY <1>2, <2>2, <2>3
<1>7. IInv /\ IInv' /\ FabricCapacity /\ [Next]_vars => FabricCapacity'
  <2> SUFFICES ASSUME IInv, IInv', FabricCapacity, [Next]_vars PROVE FabricCapacity'
    OBVIOUS
  <2>1. /\ xferCycles \in Nat /\ \A c \in Channel : until[c] = chan[c].doneAt /\ until[c] \in Nat
        /\ \A c \in Channel : until'[c] = chan'[c].doneAt /\ until'[c] \in Nat
    BY <1>4, <1>5 DEF IInv
  <2>2. SumFunctionOnSet(until, Channel) \in Nat /\ SumFunctionOnSet(until', Channel) \in Nat
    BY <1>1, <2>1, SumNatural
  <2>3. ASSUME xferCycles' = xferCycles, \A c \in Channel : chan'[c].doneAt = chan[c].doneAt
        PROVE  FabricCapacity'
    <3>1. SumFunctionOnSet(until', Channel) = SumFunctionOnSet(until, Channel)
      BY <1>1, <2>1, <2>3, SumEqual
    <3> QED
      BY <1>2, <1>3, <2>3, <3>1
  <2>4. CASE Reset
    <3>1. xferCycles' = 0
      BY <2>4 DEF Reset, SimReset
    <3> QED
      BY <1>3, <2>2, <3>1
  <2>5. CASE SubmitJob
    <3>1. PICK j \in Jobs \ asked, b \in Bytes, c \in Channel : Submit(c, j, b)
      BY <2>5 DEF SubmitJob
    <3>2. /\ chan'[c].doneAt = now + TransferCycles(b) /\ chan[c].doneAt <= now
          /\ \A d \in Channel \ {c} : chan'[d].doneAt = chan[d].doneAt
          /\ xferCycles' = xferCycles + TransferCycles(b)
          /\ TransferCycles(b) \in Nat /\ now \in Nat
      BY <3>1, SubmitFacts DEF IInv, FreeIsPast, TypeOK, EngineTypeOK
    <3>3. SumFunctionOnSet(until', Channel) =
            SumFunctionOnSet(until, Channel) + (until'[c] - until[c])
      BY <1>1, <2>1, <3>2, SumChanged
    <3> QED
      BY <1>2, <1>3, <2>1, <2>2, <3>2, <3>3
  <2>6. ASSUME NEW c \in Channel, NEW t \in Nat, CompleteIfReady({c}, t), xferCycles' = xferCycles
        PROVE  FabricCapacity'
    <3>1. \A d \in Channel : chan'[d].doneAt = chan[d].doneAt
      <4>1. chan \in [Channel -> [busy : BOOLEAN, doneAt : Nat, job : Jobs \cup {NoJob}]]
        BY DEF IInv, TypeOK, EngineTypeOK
      <4> QED
        BY <2>6, <4>1 DEF CompleteIfReady
    <3> QED
      BY <2>3, <2>6, <3>1
  <2>7. CASE PollChannel
    BY <2>6, <2>7 DEF PollChannel, Poll, IInv, TypeOK, EngineTypeOK
  <2>8. CASE WaitChannel
    BY <2>6, <2>8, WaitForOne DEF WaitChannel, WaitThenAdvance, IInv
  <2>9. CASE Advance \/ UNCHANGED vars
    BY <2>3, <2>9 DEF Advance, SimAdvance, vars, engineVars
  <2> QED
    BY <2>4, <2>5, <2>7, <2>8, <2>9 DEF Next
<1> QED
  BY <1>6, <1>7, Inductive, PTL DEF Spec

-----------------------------------------------------------------------------
(* The fabric implements the contract: its busy channels are the pending   *)
(* transfers.                                                              *)

Carried(c) == [job |-> chan[c].job, due |-> chan[c].doneAt]

Pending == {Carried(c) : c \in Busy}

\* Only as many transfers are pending as there are channels, and a free channel
\* leaves room for one.
LEMMA RoomOnAFreeChannel ==
  ASSUME NEW c \in Channel, ~chan[c].busy
  PROVE  Cardinality(Pending) < NumChannels
<1>1. IsFiniteSet(Pending) /\ Cardinality(Pending) <= Cardinality(Busy)
  <2> DEFINE f == [d \in Busy |-> Carried(d)]
  <2>1. f \in Surjection(Busy, Pending)
    BY DEF Surjection, Pending
  <2> QED
    BY <2>1, BusyFacts, FS_Surjection
<1>2. Cardinality(Busy) < Cardinality(Channel)
  <2>1. Busy # Channel
    BY DEF Busy
  <2>2. Busy \subseteq Channel /\ IsFiniteSet(Channel)
    BY BusyFacts
  <2>3. Cardinality(Busy) <= Cardinality(Channel) /\ Cardinality(Busy) # Cardinality(Channel)
    BY <2>1, <2>2, FS_Subset
  <2> QED
    BY <2>3, BusyFacts, EngineAssumption
<1> QED
  BY <1>1, <1>2, BusyFacts, FS_CardinalityType, EngineAssumption

\* Looking at one channel delivers at most one pending transfer, which is due.
LEMMA LookDelivers ==
  ASSUME IInv, NEW c \in Channel, now' \in Nat, now' >= now, CompleteIfReady({c}, now')
  PROVE  /\ now' >= now
         /\ \E batch \in SUBSET {p \in Pending : p.due <= now'} :
              /\ Pending' = Pending \ batch
              /\ landed' = landed \cup {p.job : p \in batch}
<1>1. CASE UNCHANGED <<chan, landed, copies>>
  <2>1. Pending' = Pending \ {} /\ landed' = landed \cup {p.job : p \in {}}
    BY <1>1 DEF Pending, Busy, Carried
  <2> QED
    BY <2>1
<1>2. CASE /\ chan[c].busy /\ chan[c].doneAt <= now'
           /\ chan' = [chan EXCEPT ![c].busy = FALSE]
           /\ landed' = landed \cup {chan[c].job}
           /\ copies' = copies + 1
  <2>1. chan \in [Channel -> [busy : BOOLEAN, doneAt : Nat, job : Jobs \cup {NoJob}]]
    BY DEF IInv, TypeOK, EngineTypeOK
  <2>2. c \in Busy /\ Busy' = Busy \ {c} /\ \A d \in Channel : d # c => chan'[d] = chan[d]
    BY <1>2, <2>1 DEF Busy
  <2>3. \A d \in Busy' : d \in Busy /\ d # c /\ Carried(d)' = Carried(d)
    BY <2>2, BusyFacts DEF Carried
  <2>4. \A d \in Busy : d # c => Carried(d) # Carried(c)
    BY <2>2 DEF IInv, ExactlyOnce, Carried
  <2>5. Pending' = Pending \ {Carried(c)}
    <3>1. Pending' = {Carried(d) : d \in Busy'}
      BY <2>3 DEF Pending
    <3> QED
      BY <3>1, <2>2, <2>4 DEF Pending
  <2>6. Carried(c) \in Pending /\ Carried(c).due <= now' /\ Carried(c).job = chan[c].job
    BY <1>2, <2>2 DEF Pending, Carried
  <2>7. landed' = landed \cup {p.job : p \in {Carried(c)}}
    BY <1>2, <2>6
  <2> QED
    BY <2>5, <2>6, <2>7
<1> QED
  BY <1>1, <1>2, LookAtOne DEF IInv

\* A submission starts a transfer that is due one wire time from now.
LEMMA SubmitStarts == IInv /\ SubmitJob => Contract!Start
<1> SUFFICES ASSUME IInv, SubmitJob PROVE Contract!Start
  OBVIOUS
<1>1. PICK j \in Jobs \ asked, b \in Bytes, c \in Channel :
        Submit(c, j, b) /\ asked' = asked \cup {j} /\ resets' = resets
  BY DEF SubmitJob
<1>2. /\ ~chan[c].busy
      /\ chan'[c] = [busy |-> TRUE, doneAt |-> now + TransferCycles(b), job |-> j]
      /\ \A d \in Channel : d # c => chan'[d] = chan[d]
      /\ UNCHANGED <<now, landed, copies>>
      /\ Busy' = Busy \cup {c} /\ c \notin Busy
  BY <1>1, SubmitFacts
<1>3. Cardinality(Pending) < NumChannels
  BY <1>2, RoomOnAFreeChannel
<1>4. j \notin landed \cup {p.job : p \in Pending}
  BY DEF IInv, ExactlyOnce, Pending, Carried
<1>5. Pending' = Pending \cup {[job |-> j, due |-> now + TransferCycles(b)]}
  <2>1. \A d \in Busy : Carried(d)' = Carried(d)
    BY <1>2, BusyFacts DEF Carried
  <2>2. Carried(c)' = [job |-> j, due |-> now + TransferCycles(b)]
    BY <1>2 DEF Carried
  <2>3. Pending' = {Carried(d) : d \in Busy} \cup {Carried(c)'}
    BY <1>2, <2>1 DEF Pending
  <2> QED
    BY <2>2, <2>3 DEF Pending
<1>6. TransferCycles(b) \in {TransferCycles(x) : x \in Bytes}
  OBVIOUS
<1> DEFINE Started(k, len) ==
      /\ Cardinality(Pending) < NumChannels
      /\ k \notin landed \cup {p.job : p \in Pending}
      /\ Pending' = Pending \cup {[job |-> k, due |-> now + len]}
      /\ UNCHANGED <<now, landed>>
<1>7. Started(j, TransferCycles(b))
  BY <1>2, <1>3, <1>4, <1>5
<1> HIDE DEF Started
<1>8. \E k \in Jobs, len \in {TransferCycles(x) : x \in Bytes} : Started(k, len)
  BY <1>1, <1>6, <1>7
<1>9. Contract!Cardinality(Pending) = Cardinality(Pending)
  BY Zenon DEF Contract!Cardinality, Cardinality
<1> QED
  BY <1>8, <1>9, Zenon DEF Contract!Start, Pending, Carried, Started

\* The fabric keeps the contract its users rely on, whatever they ask of it
\* (dma_engine.c:6-14).
THEOREM ContractKept == Spec => ImplementsContract
<1>1. Init => Contract!Init
  BY DEF Init, EngineInit, Contract!Init, Busy, IdleChannel
<1>2. IInv /\ [Next]_vars => [Contract!Next]_(Contract!vars)
  <2> SUFFICES ASSUME IInv, [Next]_vars PROVE [Contract!Next]_(Contract!vars)
    OBVIOUS
  <2> USE DEF Contract!Next
  <2>1. CASE Reset
    <3>1. now' = 0 /\ landed' = {} /\ Busy' = {}
      BY <2>1 DEF Reset, SimReset, Busy, IdleChannel
    <3> QED
      BY <3>1 DEF Contract!Abort
  <2>2. CASE Advance
    <3>1. PICK cycles \in Steps : SimAdvance(cycles)
      BY <2>2 DEF Advance
    <3>2. now' >= now /\ UNCHANGED <<chan, landed>>
      BY <3>1, ServiceAssumption DEF SimAdvance, IInv, TypeOK, EngineTypeOK
    <3>3. Pending' = Pending \ {} /\ landed' = landed \cup {p.job : p \in {}}
      BY <3>2 DEF Pending, Busy, Carried
    <3>4. \E batch \in SUBSET {p \in Pending : p.due <= now'} :
            /\ Pending' = Pending \ batch
            /\ landed' = landed \cup {p.job : p \in batch}
      BY <3>3
    <3> QED
      BY <3>2, <3>4 DEF Contract!TickAndDeliver, Pending, Carried
  <2>3. CASE SubmitJob
    BY <2>3, SubmitStarts
  <2>4. CASE PollChannel
    <3>1. PICK c \in Channel : CompleteIfReady({c}, now) /\ now' = now
      BY <2>4 DEF PollChannel, Poll
    <3>2. now' \in Nat /\ now' >= now /\ CompleteIfReady({c}, now')
      BY <3>1 DEF IInv, TypeOK, EngineTypeOK
    <3> QED
      BY <3>2, LookDelivers DEF Contract!TickAndDeliver, Pending, Carried
  <2>5. CASE WaitChannel
    <3>1. PICK c \in Channel : WaitThenAdvance({c}, 0)
      BY <2>5 DEF WaitChannel
    <3>2. AfterWait({c}) \in Nat /\ AfterWait({c}) >= now
      BY WaitForOne DEF IInv
    <3>3. now' \in Nat /\ now' >= now /\ CompleteIfReady({c}, now')
      BY <3>1, <3>2 DEF WaitThenAdvance
    <3> QED
      BY <3>3, LookDelivers DEF Contract!TickAndDeliver, Pending, Carried
  <2>6. CASE UNCHANGED vars
    BY <2>6 DEF vars, engineVars, Contract!vars, Busy
  <2> QED
    BY <2>1, <2>2, <2>3, <2>4, <2>5, <2>6 DEF Next
<1> QED
  BY <1>1, <1>2, Inductive, PTL DEF Spec, ImplementsContract, Contract!Spec
=============================================================================
