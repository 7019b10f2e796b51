-------------------------- MODULE SessionLifecycle --------------------------
(***************************************************************************)
(* What a guided session promises, whatever happens inside it: it runs,    *)
(* ends at most once, its end is reported at most once and with the        *)
(* outcome it ended with, and afterwards nothing about it changes.         *)
(***************************************************************************)
CONSTANT Outcomes

VARIABLES
  ended,     \* the outcome the session ended with, {} while it runs
  reported   \* the outcomes the reporting tables were told

vars == <<ended, reported>>

Init == ended = {} /\ reported = {}

\* The session ends; the report may be written with it.
End(o) ==
  /\ ended = {}
  /\ ended' = {o}
  /\ reported' \in {{}, {o}}

\* The report follows later, when saving what was learned comes first.
Report ==
  /\ ended # {}
  /\ reported = {}
  /\ reported' = ended
  /\ UNCHANGED ended

Next == (\E o \in Outcomes : End(o)) \/ Report

Spec == Init /\ [][Next]_vars
=============================================================================
