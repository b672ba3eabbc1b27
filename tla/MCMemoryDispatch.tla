-------------------------- MODULE MCMemoryDispatch ---------------------------
(***************************************************************************)
(* The scheduler on planned images of three operators over one input, with *)
(* staged weights, in-place operators and buffers that are used again.     *)
(***************************************************************************)
EXTENDS MemoryDispatch, ArenaLayout, MCGraphs

MCWcet == ("CPU" :> 6) @@ ("NPU" :> 40) @@ ("DMA" :> 16)

Result1(type, ins, k) == [type |-> type, ins |-> ins, outs |-> <<Act(k)>>]

OpsOver(k) ==
  {Result1("Relu", <<Act(j)>>, k) : j \in 0 .. k - 1}
  \cup {Result1("MatMul", <<Act(j), W2>>, k) : j \in 0 .. k - 1}
  \cup {Result1("Add", <<Act(i), Act(j)>>, k) : i \in {k - 1}, j \in 0 .. k - 1}

Planned(list) ==
  [ops     |-> AssignDevices(list),
   inputs  |-> <<Act(0)>>,
   outputs |-> {Act(k) : k \in {j \in DOMAIN list :
                  \A i \in DOMAIN list : Act(j) \notin ToSet(list[i].ins)}},
   shape   |-> [t \in {Act(k) : k \in 0 .. Len(list)} |-> <<32>>]]

\* The compiler from device routing to the image.
Compiled(g) ==
  LET root == RootsOf(g, AliasOf(g))
      map == MapOf(g, TensorTable(g, root, Allocate(g, LiveRanges(g, root))))
  IN  ImageOf(g.ops) @@ map @@ [sound |-> SequentiallySound(map, Len(g.ops))]

\* Three loads for two channels.
CrowdedWire ==
  <<Result1("MatMul", <<Act(0), W3, W1>>, 1), Result1("MatMul", <<Act(0), W2>>, 2),
    Result1("Add", <<Act(1), Act(2)>>, 3)>>

MCImages ==
  {Compiled(Planned(CrowdedWire))} \cup
  {Compiled(Planned(<<a, b, c>>)) :
     a \in OpsOver(1), b \in OpsOver(2), c \in OpsOver(3)}

MCMasks == {Device, {"CPU", "DMA"}}

NoOp == -1
=============================================================================
