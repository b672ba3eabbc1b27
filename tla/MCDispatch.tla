----------------------------- MODULE MCDispatch ------------------------------
(***************************************************************************)
(* The scheduler on images compiled from small graphs: ImageOf applied to  *)
(* what AssignDevices makes of them.                                       *)
(***************************************************************************)
EXTENDS Dispatch, ExecTable, MCGraphs

MCWcet == ("CPU" :> 6) @@ ("NPU" :> 40) @@ ("DMA" :> 16)

MCImages == {ImageOf(AssignDevices(g)) : g \in DispatchGraphs}

\* Every device, or all but the NPU or the DMA.
MCMasks == {Device, {"CPU", "DMA"}, {"CPU", "NPU"}}

FullMask == {Device}

NoOp == -1
=============================================================================
