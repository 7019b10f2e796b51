------------------------------- MODULE Guidance -------------------------------
(***************************************************************************)
(* Deciding one step: begin_guidance of services/orchestrator.py with      *)
(* _replay_guidance, ReplayEngine, GuidanceService.decide, the Cortex      *)
(* adapter, SafetyPolicy, ScamShieldService and CostCalculator.            *)
(*                                                                         *)
(* The session's lock is held throughout, so there is one call at a time;  *)
(* it is cut at what it waits for: the page, EverOS, Snowflake.  The page  *)
(* changes meanwhile, a write may fail and the process may end.  What the  *)
(* result does to the session is in Orchestrator.                          *)
(***************************************************************************)
EXTENDS Naturals, Sequences, FiniteSets, FiniteSetsExt

CONSTANTS
  Docs, Origin,   \* addresses a document may come from, and their origins
  Allowed,        \* allowed_origins: of the demo sites, or of the skill
  Controls,       \* elements of a document
  Framed,         \* those inside an iframe
  Looks,          \* what an element may be, when it is there
  Tiers,          \* the selectors of the step that is replayed, in order
  Cards,          \* rows of COST_RATE_CARDS for the model in use
  UsedTokens,     \* what a provider may report: sets of token classes
  MaxTime,        \* instants the rate cards tell apart (a bound)
  MaxChanges,     \* changes of the page (a bound)
  MaxCalls,       \* calls (a bound)
  None

Flags == {"password", "hidden", "payment", "identity", "bank", "token"}
Classifications == {"safe", "money", "identity", "deletion", "suspicious", "unknown"}
Verdicts == {"unsure", "allowed", "pause", "escalate"}
Costs == SUBSET Cards   \* the rates a cost is made of
Rows == [status : {"failed", "completed"}, used : UsedTokens \cup {None},
         cost : Costs \cup {None}]

ASSUME GuidanceAssumption ==
  /\ DOMAIN Origin = Docs /\ Framed \subseteq Controls
  /\ \A l \in Looks : l.flags \subseteq Flags /\ l.enabled \in BOOLEAN
  /\ DOMAIN Tiers \subseteq Nat
  /\ \A i \in DOMAIN Tiers : Tiers[i].type \in {"aria", "text", "css"}
  /\ \A card \in Cards : card.from \in Nat /\ card.to \in Nat
  /\ None \notin Controls /\ None \notin Looks /\ None \notin Verdicts /\ None \notin Rows
  /\ MaxTime \in Nat /\ MaxChanges \in Nat /\ MaxCalls \in Nat

VARIABLES
  page,    \* the document: its address, its number, and what is drawn of it
  call,    \* begin_guidance: how far it is, and what it holds
  result,  \* how the last one ended
  ledger,  \* the rows of its model call
  now, calls

vars == <<page, call, result, ledger, now, calls>>

Drawings == [Controls -> Looks \cup {None}]
NoRows == [row |-> None, reported |-> FALSE, cost |-> None]
NoResult == [outcome |-> "none", escalate |-> FALSE, named |-> FALSE]
Idle == [at |-> "idle", mode |-> "cold", attempts |-> 0, doc |-> 0, seen |-> [c \in {} |-> None],
         origin |-> None, target |-> None, asked |-> FALSE, verdict |-> None, used |-> None,
         torn |-> 0]

Init ==
  /\ \E d \in Docs, drawn \in Drawings : page = [address |-> d, number |-> 1, drawn |-> drawn]
  /\ call = Idle /\ result = NoResult /\ ledger = NoRows
  /\ now = 0 /\ calls = 0

At(stage) == call.at = stage

\* _record_call, for a decision or in the except branch of decide.
Recording == call.at \in {"record", "failed"}

\* The call is over.
Ends(outcome, escalate, named) ==
  /\ call' = [call EXCEPT !.at = "idle"]
  /\ result' = [outcome |-> outcome, escalate |-> escalate, named |-> named]

-----------------------------------------------------------------------------
(* The page, which changes while a call waits, and time *)

\* Another document, also in another tab that is followed: candidate ids are gone with the old.
Navigates ==
  /\ call.at # "idle" /\ page.number <= MaxChanges
  /\ \E d \in Docs, drawn \in Drawings :
       page' = [address |-> d, number |-> page.number + 1, drawn |-> drawn]
  /\ UNCHANGED <<call, result, ledger, now, calls>>

\* A script draws an element anew.  It keeps the id it was given, whatever it is now.
Redraws ==
  /\ call.at # "idle"
  /\ \E c \in Controls, look \in Looks \cup {None} : page' = [page EXCEPT !.drawn[c] = look]
  /\ UNCHANGED <<call, result, ledger, now, calls>>

\* Only the rate cards tell one instant from another.
Tick ==
  /\ Recording /\ now < MaxTime /\ now' = now + 1
  /\ UNCHANGED <<page, call, result, ledger, calls>>

-----------------------------------------------------------------------------
(* begin_guidance *)

Begins(mode, attempts) ==
  /\ At("idle") /\ calls < MaxCalls
  /\ mode = "cold" => attempts = 0
  /\ calls' = calls + 1
  /\ call' = [Idle EXCEPT !.at = "snapshot", !.mode = mode, !.attempts = attempts]
  /\ result' = NoResult /\ ledger' = NoRows
  /\ UNCHANGED <<page, now>>

Listed(controls) == [c \in {d \in controls : page.drawn[d] # None} |-> page.drawn[c]]

\* snapshot reads the document and gives its elements ids...
Snapshots ==
  /\ At("snapshot")
  /\ call' = [call EXCEPT !.at = "frames", !.doc = page.number,
                          !.seen = Listed(Controls \ Framed)]
  /\ UNCHANGED <<page, result, ledger, now, calls>>

\* ... and then its frames; the origin is read after that.
Identifies ==
  /\ At("frames")
  /\ LET inFrames == Listed(Framed) IN
     call' = [call EXCEPT
       !.at = IF call.mode = "replay" THEN "skill" ELSE "model",
       !.seen = [c \in DOMAIN call.seen \cup DOMAIN inFrames |->
                   IF c \in DOMAIN inFrames THEN inFrames[c] ELSE call.seen[c]],
       !.origin = Origin[page.address]]
  /\ UNCHANGED <<page, result, ledger, now, calls>>

\* The browser is gone, or the page never settles: begin_guidance raises.
SnapshotFails ==
  /\ call.at \in {"snapshot", "frames"}
  /\ Ends("raised", FALSE, FALSE)
  /\ UNCHANGED <<page, ledger, now, calls>>

-----------------------------------------------------------------------------
(* Replay: ReplayEngine.resolve *)

Matches(tier, look) ==
  \/ tier.type = "aria" /\ look.name = tier.value
  \/ tier.type = "text" /\ look.text = tier.value

Eligible(tier) == {c \in DOMAIN call.seen : Matches(tier, call.seen[c]) /\ call.seen[c].enabled}

\* The first selector that exactly one candidate fits.
Resolved ==
  LET unique == {i \in DOMAIN Tiers : Cardinality(Eligible(Tiers[i])) = 1}
  IN IF unique = {} THEN None ELSE CHOOSE c \in Eligible(Tiers[Min(unique)]) : TRUE

\* No control of this page is the step's: the model is asked, but not after two repairs.
Unresolved ==
  IF call.attempts >= 2 THEN Ends("escalated", TRUE, FALSE)
  ELSE call' = [call EXCEPT !.at = "model", !.target = None] /\ UNCHANGED result

\* The skill has been loaded.  Neither origin nor policy is looked at for a step that resolves.
Resolves ==
  /\ At("skill")
  /\ IF Resolved = None THEN Unresolved
     ELSE call' = [call EXCEPT !.at = "highlight", !.target = Resolved] /\ UNCHANGED result
  /\ UNCHANGED <<page, ledger, now, calls>>

SkillUnavailable ==
  /\ At("skill")
  /\ Ends("unavailable", FALSE, FALSE)
  /\ UNCHANGED <<page, ledger, now, calls>>

-----------------------------------------------------------------------------
(* The model and the policy *)

\* What is paused for whatever the model says; a password comes before all of these.
Sensitive == {"payment", "identity", "bank"}

\* Mutant of Evaluate: only the classification counts, not what the control is.
EvaluateClass(look, class, origin) ==
  IF class = "safe" THEN "allowed"
  ELSE IF origin \notin Allowed \/ class \in {"suspicious", "unknown"} THEN "escalate" ELSE "pause"

\* SafetyPolicy.evaluate.  A password field is a plain pause, whatever else it is and wherever
\* it stands; money, identity and deletion pause, and what is unfamiliar or unclear escalates.
Evaluate(look, class, origin) ==
  IF "password" \in look.flags THEN "pause"
  ELSE IF class = "safe" /\ look.flags \cap Sensitive = {} THEN "allowed"
  ELSE IF origin \notin Allowed \/ class \in {"suspicious", "unknown"} THEN "escalate"
  ELSE "pause"

\* The adapter raises: nothing to offer, a prompt too long, Snowflake unavailable, or an
\* answer, billed or not, that is no decision on one of the candidates.  Usage is lost.
ModelFails ==
  /\ At("model")
  /\ call' = [call EXCEPT !.at = "failed", !.asked = TRUE, !.used = None]
  /\ UNCHANGED <<page, result, ledger, now, calls>>

\* A decision comes with the tokens it took, or without.  A disabled target is an error, low
\* confidence a pause that escalates, and otherwise the policy is asked about the target as
\* it was seen and the origin as it was read.
ModelAnswers ==
  /\ At("model")
  /\ \E c \in DOMAIN call.seen, class \in Classifications, confident \in BOOLEAN,
        used \in UsedTokens \cup {None} :
       LET able == call.seen[c].enabled IN
       call' = [call EXCEPT
         !.at = IF able THEN "record" ELSE "failed",
         !.target = c, !.asked = TRUE, !.used = used,
         !.verdict = IF ~able THEN None
                     ELSE IF ~confident THEN "unsure"
                     ELSE Evaluate(call.seen[c], class, call.origin)]
  /\ UNCHANGED <<page, result, ledger, now, calls>>

-----------------------------------------------------------------------------
(* The ledger: _record_call and CostCalculator *)

Effective(class, t) == {card \in Cards : card.class = class /\ card.from <= t /\ t < card.to}

\* calculate: the prices of the classes used, when each has exactly one rate and they share
\* their currency; otherwise there is no cost.
Cost(used, t) ==
  IF \/ used = None \/ used = {}
     \/ \E class \in used : Cardinality(Effective(class, t)) # 1
     \/ \E a, b \in UNION {Effective(class, t) : class \in used} : a.currency # b.currency
  THEN None ELSE UNION {Effective(class, t) : class \in used}

\* INSERT OR IGNORE by call id: what was recorded first stands.
Row(status, cost) ==
  IF ledger.row # None THEN ledger.row ELSE [status |-> status, used |-> call.used, cost |-> cost]

\* Mutant of Commits: the cost is reported before the call.
CommitsCostFirst(k, status, cost) ==
  [row |-> IF k >= 2 THEN Row(status, cost) ELSE ledger.row,
   reported |-> ledger.reported \/ k >= 3,
   cost |-> IF ledger.cost = None /\ k >= 1 THEN cost ELSE ledger.cost]

\* The first k of the three rows of a call: the call, its report, and its cost if there is one.
Commits(k, status, cost) ==
  [row |-> IF k >= 1 THEN Row(status, cost) ELSE ledger.row,
   reported |-> ledger.reported \/ k >= 2,
   cost |-> IF ledger.cost = None /\ k >= 3 THEN cost ELSE ledger.cost]

Status == IF At("failed") THEN "failed" ELSE "completed"

Prices == {Cost(call.used, now), None}

\* The rate cards are asked of Snowflake, which may fail; then the rows are written.
Records ==
  /\ Recording
  /\ \E cost \in Prices : ledger' = Commits(3, Status, cost)
  /\ CASE At("failed") -> Ends("unavailable", FALSE, FALSE)
       [] At("record") /\ call.verdict = "allowed" ->
            call' = [call EXCEPT !.at = "highlight"] /\ UNCHANGED result
       [] At("record") /\ call.verdict = "escalate" ->
            call' = [call EXCEPT !.at = "triage"] /\ UNCHANGED result
       [] OTHER -> Ends("safety_pause", call.verdict = "unsure", FALSE)
  /\ UNCHANGED <<page, now, calls>>

\* The store refuses one of the rows.  What was decided has failed and is recorded again; a
\* failure that cannot be recorded is raised, which a replay takes for its skill's.
WriteFails ==
  /\ Recording
  /\ \E cost \in Prices : \E k \in 0..(IF cost = None THEN 1 ELSE 2) :
       ledger' = Commits(k, Status, cost)
  /\ LET torn == [call EXCEPT !.torn = call.torn + 1] IN
     IF At("record") THEN call' = [torn EXCEPT !.at = "failed"] /\ UNCHANGED result
     ELSE /\ call' = [torn EXCEPT !.at = "idle"]
          /\ result' = [outcome |-> IF call.mode = "replay" THEN "unavailable" ELSE "raised",
                        escalate |-> FALSE, named |-> FALSE]
  /\ UNCHANGED <<page, now, calls>>

-----------------------------------------------------------------------------
(* Presenting *)

\* Mutant of Triages: a classifier that fails takes the pause with it.
TriageRaises ==
  /\ At("triage")
  /\ \E category \in {"named", "ordinary"} :
       \/ Ends("safety_pause", TRUE, category = "named")
       \/ Ends("unavailable", FALSE, FALSE)
  /\ UNCHANGED <<page, ledger, now, calls>>

\* ScamShieldService.triage may name what the page asks for; the pause stands either way.
Triages ==
  /\ At("triage")
  /\ \E category \in {"named", "ordinary"} : Ends("safety_pause", TRUE, category = "named")
  /\ UNCHANGED <<page, ledger, now, calls>>

\* Mutant of Highlightable: the control is looked up by its place, as act does.
HighlightableByPlace ==
  page.drawn[call.target] # None /\ page.drawn[call.target].enabled

\* The script looks the candidate's id up in the document shown now, not in its frames.
Highlightable ==
  /\ page.number = call.doc /\ call.target \notin Framed
  /\ page.drawn[call.target] # None /\ page.drawn[call.target].enabled

Highlights ==
  /\ At("highlight") /\ Highlightable
  /\ Ends("presented", FALSE, FALSE)
  /\ UNCHANGED <<page, ledger, now, calls>>

\* Not there, or navigating: a replay asks the model, a decision has failed after all and is
\* recorded again.
HighlightFails ==
  /\ At("highlight")
  /\ IF call.verdict = None THEN Unresolved
     ELSE call' = [call EXCEPT !.at = "failed"] /\ UNCHANGED result
  /\ UNCHANGED <<page, ledger, now, calls>>

\* The browser is gone: a replay is unavailable.
HighlightRaises ==
  /\ At("highlight")
  /\ IF call.verdict = None THEN Ends("unavailable", FALSE, FALSE)
     ELSE call' = [call EXCEPT !.at = "failed"] /\ UNCHANGED result
  /\ UNCHANGED <<page, ledger, now, calls>>

\* The process ends, perhaps between two of the rows.
Dies ==
  /\ call.at # "idle"
  /\ Ends("died", FALSE, FALSE)
  /\ IF Recording
     THEN \E k \in 0..3, cost \in Prices : ledger' = Commits(k, Status, cost)
     ELSE UNCHANGED ledger
  /\ UNCHANGED <<page, now, calls>>

-----------------------------------------------------------------------------
Next ==
  \/ Navigates \/ Redraws \/ Tick
  \/ \E mode \in {"cold", "replay"}, attempts \in 0..2 : Begins(mode, attempts)
  \/ Snapshots \/ Identifies \/ SnapshotFails \/ Resolves \/ SkillUnavailable
  \/ ModelFails \/ ModelAnswers \/ Records \/ WriteFails \/ Triages
  \/ Highlights \/ HighlightFails \/ HighlightRaises \/ Dies

Spec == Init /\ [][Next]_vars
===============================================================================
