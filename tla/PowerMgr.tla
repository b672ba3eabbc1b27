------------------------------- MODULE PowerMgr ------------------------------
(***************************************************************************)
(* The phase-aware power manager of runtime/power/power_mgr.c: three       *)
(* callbacks of the scheduler that walk the ROM plan and switch domains    *)
(* through the HAL.  "active" is g_pwr_active_mask, the domains that are   *)
(* powered.  Entries of a plan name different domains, so the order in     *)
(* which a callback visits them does not matter; the telemetry counters    *)
(* and the wake-up latency argument, which no code reads, are left out.    *)
(***************************************************************************)
EXTENDS ExecImage

VARIABLE active

PowerInit == active = {"CPU"}

Domains(entries) == {e.domain : e \in entries}

\* power_mgr_on_frame_start: enable what row 0 needs and what is always on.
OnFrameStart(plan) ==
  active' = active \cup Domains({e \in plan : e.first = 0 \/ e.alwaysOn})

\* Mutant: a domain is woken when its first row completes, one row too late.
MutantOnOpComplete(i, plan) ==
  LET gated == {e \in plan : ~e.alwaysOn}
  IN  active' = (active \ Domains({e \in gated : e.last = i}))
                  \cup Domains({e \in gated : e.first = i})

\* power_mgr_on_op_complete: gate off the domain whose last row just finished
\* and wake the one whose first row has the next index.
OnOpComplete(i, plan) ==
  LET gated == {e \in plan : ~e.alwaysOn}
  IN  active' = (active \ Domains({e \in gated : e.last = i}))
                  \cup Domains({e \in gated : e.first = i + 1})

\* Mutant: the frame relies on the per-row callbacks alone.
MutantOnFrameEnd(plan) == active' = active

\* power_mgr_on_frame_end: sleep for every domain that is not always on.
OnFrameEnd(plan) ==
  active' = active \ Domains({e \in plan : ~e.alwaysOn})
=============================================================================
