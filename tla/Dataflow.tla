------------------------------- MODULE Dataflow -------------------------------
(***************************************************************************)
(* What a frame promises, without clock, channels, tables or sweeps: every *)
(* row starts once, after the rows it depends on are complete; a row takes *)
(* its time or none; and the frame returns when all are complete, or gives *)
(* up, possibly in the middle of a row.                                    *)
(***************************************************************************)
EXTENDS ExecImage

CONSTANT Images

VARIABLES
  img,
  started, completed,  \* rows of this frame
  verdict              \* of the last frame, or "running"

vars == <<img, started, completed, verdict>>

Rows == RowsOf(img)

CanStart(i) == i \in Rows \ started /\ img.preds[i] \subseteq completed

Init ==
  img \in Images /\ started = {} /\ completed = {} /\ verdict = "none"

BeginFrame ==
  /\ verdict # "running"
  /\ started' = {} /\ completed' = {}
  /\ verdict' = "running"
  /\ UNCHANGED img

Start(i) ==
  /\ verdict = "running" /\ CanStart(i)
  /\ started' = started \cup {i}
  /\ completed' \in {completed, completed \cup {i}}
  /\ UNCHANGED <<img, verdict>>

Complete(i) ==
  /\ verdict = "running" /\ i \in started \ completed
  /\ completed' = completed \cup {i}
  /\ UNCHANGED <<img, started, verdict>>

Return ==
  /\ verdict = "running" /\ completed = Rows
  /\ verdict' = "OK"
  /\ UNCHANGED <<img, started, completed>>

\* A row that can start is not allowed to.
Deny ==
  /\ verdict = "running" /\ \E i \in Rows : CanStart(i)
  /\ verdict' = "ERR_CAPABILITY"
  /\ UNCHANGED <<img, started, completed>>

\* A row that has started is too late.
Miss(i) ==
  /\ verdict = "running" /\ CanStart(i)
  /\ started' = started \cup {i}
  /\ verdict' = "ERR_DEADLINE"
  /\ UNCHANGED <<img, completed>>

Next ==
  \/ BeginFrame \/ Return \/ Deny
  \/ \E i \in Rows : Start(i) \/ Complete(i) \/ Miss(i)

Spec == Init /\ [][Next]_vars
=============================================================================
