----------------------------- MODULE GuidanceProps -----------------------------
(* What may be shown to the person as the next step, and what its ledger says. *)
EXTENDS Guidance

Over == call.at = "idle"
Decided == call.verdict # None

\* What is presented is in the document whose candidates were judged, and the origin the
\* policy was told is the origin of that document, although the page may change between any
\* two of the calls (browser/controller.py:471, orchestrator.py:414).
PresentedWhereJudged ==
  [][result'.outcome = "presented" /\ result' # result =>
       page.number = call.doc /\ call.origin = Origin[page.address]]_vars

\* A step the model decided is presented only when the control, as it was seen, asks for no
\* password, money or identity (domain/safety.py:24), and a control that asks for money or
\* identity on an unfamiliar origin calls the helper, unless it is a password field as well
\* (safety.py:31).
SensitiveIsNotPresented ==
  Over /\ Decided =>
    LET flags == call.seen[call.target].flags
    IN /\ result.outcome = "presented" =>
            call.seen[call.target].enabled /\ flags \cap (Sensitive \cup {"password"}) = {}
       /\ /\ result.outcome = "safety_pause" /\ flags \cap Sensitive # {}
          /\ "password" \notin flags /\ call.origin \notin Allowed
          => result.escalate

\* Once the policy has refused a step it is never presented, and the person sees a pause,
\* whatever becomes of the scam classifier (scam_shield.py:100), unless a row of the ledger
\* could not be written; only a pause that escalates names what the page asks for.
RefusalStands ==
  Over /\ call.verdict \in {"unsure", "pause", "escalate"} /\ result.outcome # "died" =>
    /\ \/ result.outcome = "safety_pause" /\ result.escalate = (call.verdict # "pause")
       \/ result.outcome \in {"unavailable", "raised"} /\ call.torn > 0
    /\ result.named => result.escalate

\* A call that asked the model leaves its one row and the report of it, unless the process
\* ended or no attempt to record it was carried through: a decision has two, as what fails
\* after it is recorded as a failure (guidance.py:156).  If all writes succeed, the row says
\* whether there was a decision, and row and report have the same cost, unless the price was
\* only found when a failed highlight recorded the call again (guidance.py:319).
LedgerIsComplete ==
  /\ ledger.reported => ledger.row # None
  /\ ledger.cost # None => ledger.reported
  /\ Over /\ call.asked /\ result.outcome # "died" =>
       /\ call.torn <= (IF Decided THEN 1 ELSE 0) => ledger.row # None /\ ledger.reported
       /\ call.torn = 0 =>
            /\ ledger.row.status = "completed" <=> Decided
            /\ \/ ledger.cost = ledger.row.cost
               \/ Decided /\ result.outcome = "unavailable" /\ ledger.row.cost = None

\* Violated.  "Any unrecognized origin pauses replay and requests a new decision."
\* (IMPLEMENTATION_PLAN.md:108)
UnknownOriginPausesReplay ==
  Over /\ call.mode = "replay" /\ result.outcome = "presented" =>
    call.origin \in Allowed \/ Decided

\* Violated.  "Page requests sensitive data and is not in her known sites | immediately"
\* (webaccessible-spec.md:51): there the helper is called whatever the page asks for.
UnknownSitesCallTheHelper ==
  Over /\ Decided /\ result.outcome = "safety_pause" /\ call.origin \notin Allowed =>
    result.escalate \/ call.seen[call.target].flags \cap (Sensitive \cup {"password"}) = {}
===============================================================================
