---------------------------- MODULE RunPanelProps ----------------------------
(* What the panel of a run must show, and what its buttons may do. *)
EXTENDS RunPanel

\* A run that has ended stays as it ended, whatever answers to an old pause are still on
\* their way (autopilot.py:296).
OverIsFinal == [][known /\ run.state \in Over => run' = run]_vars

\* The panel does not go on saying "Working on it" when the run has stopped, waits, or is
\* done: with streams dropped, reconnected without a resend and overrun, and answers that
\* arrive late, the poll finds out.
NoticesTheEnd ==
  (shown.state = "running" /\ run.state # "running")
    ~> (shown.state # "running" \/ run.state = "running" \/ ~known)

\* Violated.  "A slow poll runs alongside it only so a dropped stream cannot leave the panel frozen."
\* (web/src/agent/AgentDashboard.tsx:18): once a run is over, the panel shows it as it is.
NeverFrozen == run.state \in Over ~> (shown = run \/ ~known)
=============================================================================
