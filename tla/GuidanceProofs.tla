---------------------------- MODULE GuidanceProofs ----------------------------
(***************************************************************************)
(* Proofs about deciding one step, for every set of documents, controls,   *)
(* selectors and rate cards and any number of calls and page changes.      *)
(***************************************************************************)
EXTENDS GuidanceProps, FiniteSetTheorems, WellFoundedInduction, TLAPS

-----------------------------------------------------------------------------
(* Types *)

Stages ==
  {"idle", "snapshot", "frames", "skill", "model", "record", "failed", "triage", "highlight"}
Outcomes == {"none", "raised", "unavailable", "escalated", "safety_pause", "presented", "died"}
Lists == UNION {[listed -> Looks] : listed \in SUBSET Controls}
Calls == [at : Stages, mode : {"cold", "replay"}, attempts : 0..2, doc : Nat, seen : Lists,
          origin : {Origin[d] : d \in Docs} \cup {None}, target : Controls \cup {None},
          asked : BOOLEAN, verdict : Verdicts \cup {None}, used : UsedTokens \cup {None},
          torn : Nat]
Results == [outcome : Outcomes, escalate : BOOLEAN, named : BOOLEAN]
Ledgers == [row : Rows \cup {None}, reported : BOOLEAN, cost : Costs \cup {None}]

TypeOK ==
  /\ page \in [address : Docs, number : Nat, drawn : Drawings]
  /\ call \in Calls
  /\ result \in Results
  /\ ledger \in Ledgers

-----------------------------------------------------------------------------
(* The inductive invariant *)

\* Until the model has answered there is no verdict, and until it is recorded no row.
Undecided ==
  call.at \in {"snapshot", "frames", "skill", "model"} =>
    ~Decided /\ ledger = NoRows /\ ~call.asked /\ call.torn = 0

\* A verdict is about a control that was seen, and fits what it was seen to be.
Judged ==
  Decided =>
    /\ call.target \in DOMAIN call.seen
    /\ call.seen[call.target].enabled
    /\ LET flags == call.seen[call.target].flags
       IN /\ call.verdict = "allowed" => flags \cap (Sensitive \cup {"password"}) = {}
          /\ call.verdict = "pause" /\ flags \cap Sensitive # {} /\ "password" \notin flags
             => call.origin \in Allowed

\* Only what is allowed is highlighted, what is triaged is refused, a decision is recorded
\* once, and a failure again only when a highlight or the first recording has failed.
StageFits ==
  /\ call.at = "triage" => call.verdict = "escalate" /\ call.torn = 0
  /\ call.at = "highlight" => call.verdict \in {None, "allowed"} /\ call.torn = 0
  /\ call.at = "highlight" /\ ~Decided => ledger = NoRows /\ ~call.asked
  /\ call.at = "record" => Decided /\ ledger = NoRows /\ call.torn = 0
  /\ call.at = "failed" /\ ~Decided => ledger = NoRows /\ call.torn = 0
  /\ call.at = "failed" /\ Decided =>
       IF call.torn = 0 THEN call.verdict = "allowed" ELSE call.torn = 1

\* The rows of a decision that was recorded.
Written ==
  /\ ledger.row # None /\ ledger.reported
  /\ ledger.row.status = "completed" /\ ledger.cost = ledger.row.cost

\* The rows of a call.
LedgerFits ==
  /\ LedgerIsComplete
  /\ ledger.row # None /\ ledger.row.status = "completed" => Decided
  /\ call.at \in {"highlight", "triage", "failed"} /\ Decided /\ call.torn = 0 => Written

\* How a call may have ended, given its verdict.
ResultFits ==
  Over /\ Decided /\ result.outcome # "died" =>
    IF call.verdict = "allowed"
    THEN result.outcome # "safety_pause"
    ELSE /\ \/ result.outcome = "safety_pause" /\ (result.escalate <=> call.verdict # "pause")
            \/ result.outcome \in {"unavailable", "raised"} /\ call.torn > 0
         /\ result.named => result.escalate

\* The origin is that of the document with the candidates, unless the page has gone on.
JudgedThere ==
  /\ call.doc <= page.number
  /\ call.at \in {"skill", "model", "record", "failed", "triage", "highlight"} /\ page.number = call.doc =>
       call.origin = Origin[page.address]

GuidanceInv ==
  TypeOK /\ Undecided /\ Judged /\ StageFits /\ LedgerFits /\ ResultFits /\ JudgedThere
-----------------------------------------------------------------------------
(* What the helpers return. *)

Held == <<call.mode, call.attempts, call.doc, call.seen, call.origin, call.target, call.asked,
          call.verdict, call.used, call.torn>>

LEMMA CallMoved ==
  ASSUME call \in Calls, NEW s \in Stages, call' = [call EXCEPT !.at = s]
  PROVE  call' \in Calls /\ call'.at = s /\ UNCHANGED Held
BY DEF Calls, Held

LEMMA CallTorn ==
  ASSUME call \in Calls, NEW s \in Stages, call' = [call EXCEPT !.torn = call.torn + 1, !.at = s]
  PROVE  /\ call' \in Calls /\ call'.at = s /\ call'.torn = call.torn + 1
         /\ UNCHANGED <<call.doc, call.seen, call.origin, call.target, call.asked, call.verdict>>
<1>1. call.torn + 1 \in Nat
  BY DEF Calls
<1>2. QED
  BY <1>1 DEF Calls

LEMMA CallEnded ==
  ASSUME call \in Calls, NEW o \in Outcomes, NEW e \in BOOLEAN, NEW n \in BOOLEAN, Ends(o, e, n)
  PROVE  /\ call' \in Calls /\ call'.at = "idle" /\ UNCHANGED Held
         /\ result' \in Results
         /\ result'.outcome = o /\ result'.escalate = e /\ result'.named = n
<1>1. call' = [call EXCEPT !.at = "idle"] /\ "idle" \in Stages
  BY DEF Ends, Stages
<1>2. result' = [outcome |-> o, escalate |-> e, named |-> n]
  BY DEF Ends
<1>3. QED
  BY <1>1, <1>2, CallMoved DEF Results

\* Natural numbers have a smallest one, as their order is well-founded.
Below == {p \in Nat \X Nat : p[1] < p[2]}

LEMMA BelowIsFounded == IsWellFoundedOn(Below, Nat)
<1>1. Below = OpToRel(<, Nat)
  BY Zenon DEF Below, OpToRel
<1>2. QED
  BY <1>1, NatLessThanWellFounded, Zenon

LEMMA SmallestExists ==
  ASSUME NEW S \in SUBSET Nat, S # {}
  PROVE  \E x \in S : \A y \in S : x =< y
<1>1. PICK x \in S : \A y \in S : <<y, x>> \notin Below
  BY BelowIsFounded, WFMin
<1>2. ASSUME NEW y \in S PROVE x =< y
  <2>1. ~(y < x)
    <3>1. <<y, x>> \in Nat \X Nat /\ <<y, x>>[1] = y /\ <<y, x>>[2] = x
      OBVIOUS
    <3>2. QED
      BY <1>1, <3>1 DEF Below
  <2>2. QED
    BY <2>1
<1>3. QED
  BY <1>2

\* So the smallest of some natural numbers is one of them.
LEMMA SmallestIsIn ==
  ASSUME NEW S \in SUBSET Nat, S # {}
  PROVE  Min(S) \in S
<1>1. \E x \in S : \A y \in S : x =< y
  BY SmallestExists
<1>2. QED
  BY <1>1, Zenon DEF Min

\* A selector finds a control that was seen.
LEMMA ResolvedTyped ==
  ASSUME call \in Calls
  PROVE  Resolved \in Controls \cup {None}
<1> DEFINE unique == {i \in DOMAIN Tiers : Cardinality(Eligible(Tiers[i])) = 1}
           best == Eligible(Tiers[Min(unique)])
<1>1. CASE unique = {}
  BY <1>1 DEF Resolved
<1>2. CASE unique # {}
  <2>1. Min(unique) \in unique
    BY <1>2, SmallestIsIn, GuidanceAssumption DEF GuidanceAssumption
  <2>2. best # {}
    BY <2>1, FS_EmptySet
  <2>3. best \subseteq Controls
    BY DEF Eligible, Calls, Lists
  <2>4. (CHOOSE c \in best : TRUE) \in best
    BY <2>2, Zenon
  <2>5. Resolved = CHOOSE c \in best : TRUE
    BY <1>2 DEF Resolved
  <2>6. QED
    BY <2>3, <2>4, <2>5
<1>3. QED
  BY <1>1, <1>2

\* What the page shows of some controls.
LEMMA ListedTyped ==
  ASSUME page \in [address : Docs, number : Nat, drawn : Drawings], NEW S \in SUBSET Controls
  PROVE  Listed(S) \in Lists
<1>1. \A c \in S : page.drawn[c] \in Looks \cup {None}
  BY DEF Drawings
<1>2. Listed(S) \in [{c \in S : page.drawn[c] # None} -> Looks]
  BY <1>1 DEF Listed
<1>3. QED
  BY <1>2 DEF Lists

LEMMA NothingListed == [c \in {} |-> None] \in Lists
<1>1. [c \in {} |-> None] \in [{} -> Looks] /\ {} \in SUBSET Controls
  OBVIOUS
<1>2. QED
  BY <1>1 DEF Lists

LEMMA ListsJoined ==
  ASSUME NEW f \in Lists, NEW g \in Lists
  PROVE  [c \in DOMAIN f \cup DOMAIN g |-> IF c \in DOMAIN g THEN g[c] ELSE f[c]] \in Lists
<1> DEFINE all == DOMAIN f \cup DOMAIN g
           joined == [c \in all |-> IF c \in DOMAIN g THEN g[c] ELSE f[c]]
<1>1. /\ DOMAIN f \subseteq Controls /\ \A c \in DOMAIN f : f[c] \in Looks
      /\ DOMAIN g \subseteq Controls /\ \A c \in DOMAIN g : g[c] \in Looks
  BY DEF Lists
<1>2. joined \in [all -> Looks] /\ all \in SUBSET Controls
  BY <1>1
<1>3. QED
  BY <1>2 DEF Lists

LEMMA LooksTyped ==
  ASSUME NEW f \in Lists, NEW c \in DOMAIN f
  PROVE  c \in Controls /\ f[c] \in Looks /\ f[c].enabled \in BOOLEAN
BY GuidanceAssumption DEF Lists, GuidanceAssumption

\* What the policy allows and pauses.
LEMMA PolicyJudges ==
  ASSUME NEW look, NEW class, NEW origin
  PROVE  /\ Evaluate(look, class, origin) \in Verdicts \ {"unsure"}
         /\ Evaluate(look, class, origin) = "allowed"
              => look.flags \cap (Sensitive \cup {"password"}) = {}
         /\ Evaluate(look, class, origin) = "pause" /\ look.flags \cap Sensitive # {}
              /\ "password" \notin look.flags => origin \in Allowed
BY DEF Evaluate, Verdicts, Sensitive

LEMMA CostTyped ==
  ASSUME NEW used, NEW t
  PROVE  Cost(used, t) \in Costs \cup {None}
<1>1. UNION {Effective(class, t) : class \in used} \subseteq Cards
  BY DEF Effective
<1>2. QED
  BY <1>1 DEF Cost, Costs

LEMMA NoneApart ==
  /\ None \notin Controls /\ None \notin Looks /\ None \notin Verdicts /\ None \notin Rows
  /\ DOMAIN Origin = Docs
BY GuidanceAssumption DEF GuidanceAssumption

-----------------------------------------------------------------------------
(* Steps.  A call ends, or goes on to another stage. *)

\* It ends with something that fits its verdict, and if it asked the model it is recorded.
LEMMA EndsFits ==
  ASSUME GuidanceInv, ~Over, UNCHANGED <<page, ledger>>,
         NEW o \in Outcomes, NEW e \in BOOLEAN, NEW n \in BOOLEAN, Ends(o, e, n),
         call.asked /\ o # "died" => Decided /\ call.torn = 0 /\ Written,
         Decided /\ o # "died" =>
           IF call.verdict = "allowed" THEN o # "safety_pause"
           ELSE o = "safety_pause" /\ (e <=> call.verdict # "pause") /\ (n => e)
  PROVE  GuidanceInv'
<1>1. /\ call' \in Calls /\ call'.at = "idle" /\ UNCHANGED Held /\ result' \in Results
      /\ result'.outcome = o /\ result'.escalate = e /\ result'.named = n
  BY CallEnded DEF GuidanceInv, TypeOK
<1>2. TypeOK' /\ Undecided' /\ StageFits' /\ JudgedThere'
  BY <1>1 DEF GuidanceInv, TypeOK, Undecided, StageFits, JudgedThere, Held
<1>3. Judged' /\ ResultFits'
  BY <1>1 DEF GuidanceInv, Judged, ResultFits, Decided, Over, Held
<1>4. LedgerFits'
  BY <1>1 DEF GuidanceInv, LedgerFits, LedgerIsComplete, Written, Decided, Over, Held
<1>5. QED
  BY <1>2, <1>3, <1>4 DEF GuidanceInv

\* A highlight that fails is recorded as a failure.
LEMMA MovesFits ==
  ASSUME GuidanceInv, UNCHANGED <<page, result, ledger>>, call.at = "highlight", Decided,
         call' = [call EXCEPT !.at = "failed"]
  PROVE  GuidanceInv'
<1>1. /\ call' \in Calls /\ call'.at = "failed" /\ UNCHANGED Held
  BY CallMoved DEF GuidanceInv, TypeOK, Stages
<1>2. TypeOK' /\ Undecided' /\ StageFits'
  BY <1>1 DEF GuidanceInv, TypeOK, Undecided, StageFits, Decided, Held
<1>3. Judged' /\ ResultFits' /\ JudgedThere'
  BY <1>1 DEF GuidanceInv, Judged, ResultFits, Decided, Over, Held, JudgedThere
<1>4. LedgerFits'
  BY <1>1 DEF GuidanceInv, LedgerFits, LedgerIsComplete, Written, Decided, Over, Held
<1>5. QED
  BY <1>2, <1>3, <1>4 DEF GuidanceInv

\* The page goes on.
LEMMA PageStep ==
  ASSUME GuidanceInv, Navigates \/ Redraws \/ Tick
  PROVE  GuidanceInv'
<1>1. UNCHANGED <<call, result, ledger>>
  BY DEF Navigates, Redraws, Tick
<1>2. /\ page' \in [address : Docs, number : Nat, drawn : Drawings]
      /\ page'.number > page.number \/ (page'.number = page.number /\ page'.address = page.address)
  <2>1. CASE Navigates
    BY <2>1 DEF Navigates, GuidanceInv, TypeOK
  <2>2. CASE Redraws
    <3>1. PICK c \in Controls, look \in Looks \cup {None} : page' = [page EXCEPT !.drawn[c] = look]
      BY <2>2 DEF Redraws
    <3>2. [page.drawn EXCEPT ![c] = look] \in Drawings
      BY DEF GuidanceInv, TypeOK, Drawings
    <3>3. page' = [page EXCEPT !.drawn = [page.drawn EXCEPT ![c] = look]]
      BY <3>1
    <3>4. QED
      BY <3>2, <3>3 DEF GuidanceInv, TypeOK
  <2>3. CASE Tick
    BY <2>3 DEF Tick, GuidanceInv, TypeOK
  <2>4. QED
    BY <2>1, <2>2, <2>3
<1>3. TypeOK' /\ JudgedThere'
  BY <1>1, <1>2 DEF GuidanceInv, TypeOK, JudgedThere, Calls
<1>4. QED
  BY <1>1, <1>3
  DEF GuidanceInv, Undecided, Judged, StageFits, LedgerFits, LedgerIsComplete, Written,
      ResultFits, Decided, Over

\* Before the model is asked.
LEMMA EarlyStep ==
  ASSUME GuidanceInv,
         \/ \E mode \in {"cold", "replay"}, attempts \in 0..2 : Begins(mode, attempts)
         \/ Snapshots \/ Identifies
  PROVE  GuidanceInv'
<1> DEFINE Fresh == /\ call' \in Calls /\ call'.verdict = None /\ ledger' = NoRows
                    /\ call'.asked = FALSE /\ call'.torn = 0
                    /\ result' \in Results
                    /\ call'.at \in {"snapshot", "frames", "skill", "model"}
                    /\ page' = page /\ call'.doc <= page.number
                    /\ call'.at \in {"skill", "model"} /\ page.number = call'.doc =>
                         call'.origin = Origin[page.address]
<1>1. ASSUME NEW mode \in {"cold", "replay"}, NEW attempts \in 0..2, Begins(mode, attempts)
      PROVE  Fresh
  <2>1. Idle \in Calls
    BY NothingListed DEF Idle, Calls, Stages
  <2>2. call' = [Idle EXCEPT !.at = "snapshot", !.mode = mode, !.attempts = attempts]
    BY <1>1 DEF Begins
  <2>3. call' \in Calls
    BY <2>1, <2>2 DEF Calls, Stages
  <2>4. /\ call'.verdict = None /\ call'.at = "snapshot" /\ call'.doc = 0
        /\ call'.asked = FALSE /\ call'.torn = 0
    BY <2>2 DEF Idle
  <2>5. QED
    BY <1>1, <2>3, <2>4
    DEF Begins, NoResult, Results, Outcomes, GuidanceInv, TypeOK
<1>2. ASSUME Snapshots PROVE Fresh
  <2>1. call' = [call EXCEPT !.at = "frames", !.doc = page.number,
                             !.seen = Listed(Controls \ Framed)]
    BY <1>2 DEF Snapshots
  <2>2. Listed(Controls \ Framed) \in Lists
    BY ListedTyped DEF GuidanceInv, TypeOK
  <2>3. /\ call' \in Calls /\ call'.at = "frames" /\ call'.doc = page.number
        /\ call'.verdict = call.verdict /\ call'.asked = call.asked /\ call'.torn = call.torn
    BY <2>1, <2>2 DEF GuidanceInv, TypeOK, Calls, Stages
  <2>4. QED
    BY <1>2, <2>3 DEF Snapshots, At, GuidanceInv, TypeOK, Undecided, Decided
<1>3. ASSUME Identifies PROVE Fresh
  <2> DEFINE inFrames == Listed(Framed)
             joined == [c \in DOMAIN call.seen \cup DOMAIN inFrames |->
                          IF c \in DOMAIN inFrames THEN inFrames[c] ELSE call.seen[c]]
             stage == IF call.mode = "replay" THEN "skill" ELSE "model"
  <2>1. call' = [call EXCEPT !.at = stage, !.seen = joined, !.origin = Origin[page.address]]
    BY <1>3 DEF Identifies
  <2>2. joined \in Lists
    <3>1. inFrames \in Lists
      BY ListedTyped, GuidanceAssumption DEF GuidanceInv, TypeOK, GuidanceAssumption
    <3>2. call.seen \in Lists
      BY DEF GuidanceInv, TypeOK, Calls
    <3>3. QED
      BY <3>1, <3>2, ListsJoined
  <2>3. Origin[page.address] \in {Origin[d] : d \in Docs} \cup {None}
    BY DEF GuidanceInv, TypeOK
  <2> HIDE DEF joined
  <2>4. /\ call' \in Calls /\ call'.at \in {"skill", "model"} /\ call'.doc = call.doc
        /\ call'.verdict = call.verdict /\ call'.origin = Origin[page.address]
        /\ call'.asked = call.asked /\ call'.torn = call.torn
    BY <2>1, <2>2, <2>3 DEF GuidanceInv, TypeOK, Calls, Stages
  <2>5. QED
    BY <1>3, <2>4 DEF Identifies, At, GuidanceInv, TypeOK, Undecided, Decided, JudgedThere
<1>4. Fresh
  BY <1>1, <1>2, <1>3
<1>5. TypeOK' /\ Undecided' /\ JudgedThere'
  BY <1>4 DEF GuidanceInv, TypeOK, Undecided, JudgedThere, NoRows, Ledgers, Decided
<1>6. Judged' /\ StageFits' /\ ResultFits'
  BY <1>4 DEF Judged, StageFits, ResultFits, Decided
<1>7. LedgerFits'
  BY <1>4 DEF LedgerFits, LedgerIsComplete, Decided, Over, NoRows
<1>8. QED
  BY <1>5, <1>6, <1>7 DEF GuidanceInv

\* It goes on to be recorded, as a decision or as a failure.
LEMMA RecordedFits ==
  ASSUME GuidanceInv, ledger = NoRows, UNCHANGED <<page, result, ledger>>,
         call.at = "model", call' \in Calls, call'.torn = 0,
         \/ call'.at = "record" /\ call'.verdict # None
         \/ call'.at = "failed" /\ call'.verdict = None,
         call'.doc = call.doc, call'.origin = call.origin, Judged'
  PROVE  GuidanceInv'
<1>1. TypeOK' /\ Undecided' /\ JudgedThere'
  BY DEF GuidanceInv, TypeOK, Undecided, JudgedThere
<1>2. StageFits' /\ ResultFits'
  BY DEF StageFits, ResultFits, Over, Decided
<1>3. LedgerFits'
  BY DEF LedgerFits, LedgerIsComplete, NoRows, Over, Decided
<1>4. QED
  BY <1>1, <1>2, <1>3 DEF GuidanceInv

\* The page has no control for the step, and nothing was decided: the model is asked, or not.
LEMMA UnresolvedFits ==
  ASSUME GuidanceInv, Unresolved, UNCHANGED <<page, ledger>>, ~Decided,
         call.at \in {"skill", "highlight"}
  PROVE  GuidanceInv'
<1>1. CASE call.attempts >= 2
  <2>1. Ends("escalated", TRUE, FALSE) /\ ~Over /\ ~call.asked
    BY <1>1 DEF Unresolved, Over, GuidanceInv, Undecided, StageFits
  <2>2. QED
    BY <2>1, EndsFits DEF Outcomes
<1>2. CASE ~(call.attempts >= 2)
  <2>1. call' = [call EXCEPT !.at = "model", !.target = None] /\ result' = result
    BY <1>2 DEF Unresolved
  <2>2. /\ call' \in Calls /\ call'.at = "model" /\ call'.doc = call.doc
        /\ call'.verdict = None /\ call'.origin = call.origin
        /\ call'.asked = call.asked /\ call'.torn = call.torn
    BY <2>1 DEF GuidanceInv, TypeOK, Calls, Stages, Decided
  <2>3. ledger = NoRows /\ ~call.asked /\ call.torn = 0
    BY DEF GuidanceInv, Undecided, StageFits
  <2>4. TypeOK' /\ Undecided' /\ JudgedThere'
    BY <2>1, <2>2, <2>3 DEF GuidanceInv, TypeOK, Undecided, JudgedThere, Decided
  <2>5. Judged' /\ StageFits' /\ ResultFits'
    BY <2>2 DEF Judged, StageFits, ResultFits, Decided
  <2>6. LedgerFits'
    BY <2>1, <2>2, <2>3 DEF LedgerFits, LedgerIsComplete, Decided, Over, NoRows
  <2>7. QED
    BY <2>4, <2>5, <2>6 DEF GuidanceInv
<1>3. QED
  BY <1>1, <1>2

LEMMA ReplayStep ==
  ASSUME GuidanceInv, Resolves
  PROVE  GuidanceInv'
<1>1. ~Decided /\ ledger = NoRows /\ call.at = "skill" /\ ~call.asked /\ call.torn = 0
  BY DEF Resolves, At, GuidanceInv, Undecided
<1>2. CASE Resolved = None
  <2>1. Unresolved /\ UNCHANGED <<page, ledger>>
    BY <1>2 DEF Resolves
  <2>2. QED
    BY <1>1, <2>1, UnresolvedFits
<1>3. CASE Resolved # None
  <2> DEFINE found == Resolved
  <2>1. call' = [call EXCEPT !.at = "highlight", !.target = found]
        /\ UNCHANGED <<page, result, ledger>>
    BY <1>3 DEF Resolves
  <2>2. found \in Controls \cup {None}
    BY ResolvedTyped DEF GuidanceInv, TypeOK
  <2> HIDE DEF found
  <2>3. /\ call' \in Calls /\ call'.at = "highlight" /\ call'.doc = call.doc
        /\ call'.verdict = None /\ call'.origin = call.origin
        /\ call'.asked = FALSE /\ call'.torn = 0
    BY <1>1, <2>1, <2>2 DEF GuidanceInv, TypeOK, Calls, Stages, Decided
  <2>4. TypeOK' /\ Undecided' /\ JudgedThere'
    BY <1>1, <2>1, <2>3 DEF GuidanceInv, TypeOK, Undecided, JudgedThere
  <2>5. Judged' /\ StageFits' /\ ResultFits'
    BY <1>1, <2>1, <2>3 DEF Judged, StageFits, ResultFits, Decided
  <2>6. LedgerFits'
    BY <1>1, <2>1, <2>3 DEF LedgerFits, LedgerIsComplete, Decided, Over, NoRows
  <2>7. QED
    BY <2>4, <2>5, <2>6 DEF GuidanceInv
<1>4. QED
  BY <1>2, <1>3

\* The model, and what the policy makes of its answer.
LEMMA ModelStep ==
  ASSUME GuidanceInv, ModelFails \/ ModelAnswers
  PROVE  GuidanceInv'
<1>1. /\ ~Decided /\ ledger = NoRows /\ call.at = "model" /\ call.torn = 0
      /\ UNCHANGED <<page, result, ledger>>
  BY DEF ModelFails, ModelAnswers, At, GuidanceInv, Undecided
<1> DEFINE Recorded == /\ call' \in Calls /\ call'.torn = 0
                       /\ \/ call'.at = "record" /\ call'.verdict # None
                          \/ call'.at = "failed" /\ call'.verdict = None
                       /\ call'.doc = call.doc /\ call'.origin = call.origin
                       /\ Judged'
<1>2. CASE ModelFails
  <2>1. call' = [call EXCEPT !.at = "failed", !.asked = TRUE, !.used = None]
    BY <1>2 DEF ModelFails
  <2>2. /\ call' \in Calls /\ call'.at = "failed" /\ call'.doc = call.doc
        /\ call'.origin = call.origin /\ call'.verdict = None /\ call'.torn = 0
    BY <1>1, <2>1 DEF GuidanceInv, TypeOK, Calls, Stages, Decided
  <2>3. Recorded
    BY <2>2 DEF Judged, Decided
  <2>4. QED
    BY <1>1, <2>3, RecordedFits
<1>3. CASE ModelAnswers
  <2>1. PICK c \in DOMAIN call.seen, class \in Classifications, confident \in BOOLEAN,
             used \in UsedTokens \cup {None} :
          call' = [call EXCEPT
            !.at = IF call.seen[c].enabled THEN "record" ELSE "failed",
            !.target = c, !.asked = TRUE, !.used = used,
            !.verdict = IF ~call.seen[c].enabled THEN None
                        ELSE IF ~confident THEN "unsure"
                        ELSE Evaluate(call.seen[c], class, call.origin)]
    BY <1>3 DEF ModelAnswers
  <2> DEFINE stage == IF call.seen[c].enabled THEN "record" ELSE "failed"
             verdict == IF ~call.seen[c].enabled THEN None
                        ELSE IF ~confident THEN "unsure"
                        ELSE Evaluate(call.seen[c], class, call.origin)
  <2>2. call.seen \in Lists /\ c \in Controls /\ call.seen[c].enabled \in BOOLEAN
    BY LooksTyped DEF GuidanceInv, TypeOK, Calls
  <2>3. /\ verdict \in Verdicts \cup {None}
        /\ stage = IF verdict = None THEN "failed" ELSE "record"
        /\ verdict # None => call.seen[c].enabled
        /\ verdict = "allowed" =>
             call.seen[c].flags \cap (Sensitive \cup {"password"}) = {}
        /\ verdict = "pause" /\ call.seen[c].flags \cap Sensitive # {}
             /\ "password" \notin call.seen[c].flags => call.origin \in Allowed
    BY PolicyJudges, NoneApart DEF Verdicts
  <2>4. call' = [call EXCEPT !.at = stage, !.target = c, !.asked = TRUE, !.used = used,
                             !.verdict = verdict]
    BY <2>1
  <2> HIDE DEF verdict, stage
  <2>5. /\ call' \in Calls /\ call'.at = stage /\ call'.doc = call.doc /\ call'.torn = 0
        /\ call'.origin = call.origin /\ call'.verdict = verdict
        /\ call'.target = c /\ call'.seen = call.seen
    <3>1. call \in Calls /\ stage \in Stages /\ verdict \in Verdicts \cup {None}
      BY <2>3 DEF GuidanceInv, TypeOK, Stages
    <3>2. call' \in Calls
      BY <2>2, <2>4, <3>1 DEF Calls
    <3>3. QED
      BY <1>1, <2>4, <3>1, <3>2 DEF Calls
  <2>6. Recorded
    BY <2>3, <2>5 DEF Judged, Decided
  <2>7. QED
    BY <1>1, <2>6, RecordedFits
<1>4. QED
  BY <1>2, <1>3

-----------------------------------------------------------------------------
(* The ledger *)

\* What the first k rows leave in the ledger.
LEMMA CommitsFit ==
  ASSUME GuidanceInv, Recording, NEW cost \in Costs \cup {None}, NEW k \in 0..3,
         ledger' = Commits(k, Status, cost)
  PROVE  /\ ledger' \in Ledgers
         /\ ledger'.reported => ledger'.row # None
         /\ ledger'.cost # None => ledger'.reported
         /\ ledger'.row # None /\ ledger'.row.status = "completed" => Decided
         /\ ledger.row # None => ledger'.row = ledger.row
         /\ ledger.reported => ledger'.reported
         /\ k = 3 => ledger'.row # None /\ ledger'.reported
         /\ k = 3 /\ At("record") => Written'
         /\ k = 3 /\ At("failed") /\ call.torn = 0 =>
              /\ ledger'.row.status = "completed" <=> Decided
              /\ ledger'.cost = ledger'.row.cost \/ (Decided /\ ledger'.row.cost = None)
<1> DEFINE row == Row(Status, cost)
<1>1. /\ ledger \in Ledgers /\ call.used \in UsedTokens \cup {None}
      /\ ledger.row \in Rows \cup {None} /\ ledger.reported \in BOOLEAN
      /\ ledger.cost \in Costs \cup {None}
  BY DEF GuidanceInv, TypeOK, Ledgers, Calls
<1>2. /\ ledger.reported => ledger.row # None
      /\ ledger.cost # None => ledger.reported
      /\ ledger.row # None /\ ledger.row.status = "completed" => Decided
      /\ At("record") => Decided /\ ledger.row = None /\ ledger.cost = None
      /\ At("failed") /\ call.torn = 0 =>
           IF Decided THEN Written ELSE ledger.row = None /\ ledger.cost = None
  BY DEF GuidanceInv, LedgerFits, LedgerIsComplete, StageFits, NoRows, At
<1>3. /\ Status \in {"failed", "completed"} /\ (At("failed") => Status = "failed")
      /\ At("record") => Status = "completed" /\ ~At("failed")
      /\ Status = "completed" => Decided
  BY <1>2 DEF Status, Recording, At
<1>4. /\ row \in Rows /\ row # None
      /\ ledger.row = None => row.status = Status /\ row.cost = cost
      /\ ledger.row # None => row = ledger.row
  <2>1. [status |-> Status, used |-> call.used, cost |-> cost] \in Rows
    BY <1>1, <1>3 DEF Rows
  <2>2. QED
    BY <1>1, <2>1, NoneApart DEF Row
<1> HIDE DEF row
<1>5. ledger' = [row |-> IF k >= 1 THEN row ELSE ledger.row,
                 reported |-> ledger.reported \/ k >= 2,
                 cost |-> IF ledger.cost = None /\ k >= 3 THEN cost ELSE ledger.cost]
  BY DEF Commits, row
<1>6. /\ ledger'.row = IF k >= 1 THEN row ELSE ledger.row
      /\ ledger'.reported <=> ledger.reported \/ k >= 2
      /\ ledger'.cost = IF ledger.cost = None /\ k >= 3 THEN cost ELSE ledger.cost
  <2> DEFINE told == ledger.reported \/ k >= 2
  <2>1. told \in BOOLEAN
    OBVIOUS
  <2> HIDE DEF told
  <2>2. /\ ledger'.row = IF k >= 1 THEN row ELSE ledger.row
        /\ ledger'.reported = told
        /\ ledger'.cost = IF ledger.cost = None /\ k >= 3 THEN cost ELSE ledger.cost
    BY <1>5 DEF told
  <2>3. QED
    BY <2>1, <2>2 DEF told
<1>7. ledger' \in Ledgers
  BY <1>1, <1>4, <1>5 DEF Ledgers
<1>8. /\ ledger'.reported => ledger'.row # None
      /\ ledger'.cost # None => ledger'.reported
      /\ ledger'.row # None /\ ledger'.row.status = "completed" => Decided
      /\ ledger.row # None => ledger'.row = ledger.row
      /\ ledger.reported => ledger'.reported
      /\ k = 3 => ledger'.row # None /\ ledger'.reported
  BY <1>2, <1>3, <1>4, <1>6
<1>9. k = 3 /\ At("record") => Written'
  BY <1>2, <1>3, <1>4, <1>6, <1>8 DEF Written
<1>10. ASSUME k = 3, At("failed"), call.torn = 0
       PROVE  /\ ledger'.row.status = "completed" <=> Decided
              /\ ledger'.cost = ledger'.row.cost \/ (Decided /\ ledger'.row.cost = None)
  <2>1. CASE Decided
    <3>1. Written /\ ledger'.row = ledger.row
      BY <1>2, <1>8, <1>10, <2>1 DEF Written
    <3>2. QED
      BY <1>6, <2>1, <3>1 DEF Written
  <2>2. CASE ~Decided
    BY <1>2, <1>3, <1>4, <1>6, <1>10, <2>2
  <2>3. QED
    BY <2>1, <2>2
<1>11. QED
  BY <1>7, <1>8, <1>9, <1>10

\* Whatever comes of a recording, what is known of the call stays.
LEMMA RowsFit ==
  ASSUME GuidanceInv, Recording, page' = page, ledger' \in Ledgers,
         call' \in Calls, result' \in Results,
         UNCHANGED <<call.doc, call.seen, call.origin, call.target, call.verdict>>,
         call'.at \in {"idle", "highlight", "triage", "failed"},
         StageFits', ResultFits', LedgerFits'
  PROVE  GuidanceInv'
<1>1. TypeOK' /\ Undecided'
  BY DEF GuidanceInv, TypeOK, Undecided
<1>2. JudgedThere' /\ Judged'
  BY DEF GuidanceInv, JudgedThere, Judged, Decided, Recording
<1>3. QED
  BY <1>1, <1>2 DEF GuidanceInv

LEMMA RecordStep ==
  ASSUME GuidanceInv, Records
  PROVE  GuidanceInv'
<1>1. Recording /\ page' = page
  BY DEF Records
<1>2. PICK cost \in Costs \cup {None} : ledger' = Commits(3, Status, cost)
  BY CostTyped DEF Records, Prices
<1>3. /\ ledger' \in Ledgers /\ ledger'.row # None /\ ledger'.reported
      /\ ledger'.row.status = "completed" => Decided
      /\ At("record") => Written'
      /\ At("failed") /\ call.torn = 0 =>
           /\ ledger'.row.status = "completed" <=> Decided
           /\ ledger'.cost = ledger'.row.cost \/ (Decided /\ ledger'.row.cost = None)
  BY <1>1, <1>2, CommitsFit
<1>4. /\ call.verdict \in Verdicts \cup {None} /\ (Decided => call.verdict \in Verdicts)
      /\ call.torn \in Nat
  BY DEF GuidanceInv, TypeOK, Calls, Decided
<1>5. CASE At("failed")
  <2>1. Ends("unavailable", FALSE, FALSE)
    BY <1>5 DEF Records, At
  <2>2. /\ call' \in Calls /\ call'.at = "idle" /\ UNCHANGED Held /\ result' \in Results
        /\ result'.outcome = "unavailable" /\ result'.escalate = FALSE
        /\ result'.named = FALSE
    BY <2>1, CallEnded DEF GuidanceInv, TypeOK, Outcomes
  <2>3. StageFits' /\ ResultFits'
    BY <1>4, <1>5, <2>2 DEF GuidanceInv, StageFits, ResultFits, Held, Decided, At
  <2>4. LedgerFits'
    BY <1>3, <1>5, <2>2 DEF LedgerFits, LedgerIsComplete, Held, Decided
  <2>5. QED
    BY <1>1, <1>3, <2>2, <2>3, <2>4, RowsFit DEF Held
<1>6. CASE At("record")
  <2>1. Decided /\ call.torn = 0 /\ ~At("failed")
    BY <1>6 DEF GuidanceInv, StageFits, At
  \* Whatever the verdict, the rows are those of a decision.
  <2>2. ASSUME UNCHANGED Held, call'.at \in {"idle", "highlight", "triage"}
        PROVE  LedgerFits'
    BY <1>3, <1>6, <2>1, <2>2 DEF LedgerFits, LedgerIsComplete, Written, Held, Decided
  <2>3. CASE call.verdict \in {"allowed", "escalate"}
    <3>1. PICK s \in {"highlight", "triage"} :
            /\ call' = [call EXCEPT !.at = s] /\ UNCHANGED result
            /\ s = "highlight" => call.verdict = "allowed"
            /\ s = "triage" => call.verdict = "escalate"
      BY <1>6, <2>1, <2>3 DEF Records
    <3>2. call' \in Calls /\ call'.at = s /\ UNCHANGED Held
      BY <3>1, CallMoved DEF GuidanceInv, TypeOK, Stages
    <3>3. StageFits' /\ ResultFits' /\ result' \in Results
      BY <2>1, <3>1, <3>2
      DEF GuidanceInv, TypeOK, StageFits, ResultFits, Held, Decided, Over
    <3>4. QED
      BY <1>1, <1>3, <2>2, <3>2, <3>3, RowsFit DEF Held
  <2>4. CASE call.verdict \notin {"allowed", "escalate"}
    <3>1. Ends("safety_pause", call.verdict = "unsure", FALSE)
      BY <1>6, <2>1, <2>4 DEF Records
    <3>2. /\ (call.verdict = "unsure") \in BOOLEAN
          /\ call.verdict \in {"unsure", "pause"}
      BY <1>4, <2>1, <2>4 DEF Verdicts
    <3>3. /\ call' \in Calls /\ call'.at = "idle" /\ UNCHANGED Held /\ result' \in Results
          /\ result'.outcome = "safety_pause" /\ (result'.escalate <=> call.verdict = "unsure")
          /\ result'.named = FALSE
      BY <3>1, <3>2, CallEnded DEF GuidanceInv, TypeOK, Outcomes
    <3>4. StageFits' /\ ResultFits'
      BY <3>2, <3>3 DEF StageFits, ResultFits, Held, Decided
    <3>5. QED
      BY <1>1, <1>3, <2>2, <3>3, <3>4, RowsFit DEF Held
  <2>5. QED
    BY <2>3, <2>4
<1>7. QED
  BY <1>1, <1>5, <1>6 DEF Recording, At

\* A row that cannot be written: the call goes on as a failure, or ends.
LEMMA WriteStep ==
  ASSUME GuidanceInv, WriteFails
  PROVE  GuidanceInv'
<1>1. Recording /\ page' = page
  BY DEF WriteFails
<1>2. PICK cost \in Costs \cup {None}, k \in 0..3 : ledger' = Commits(k, Status, cost)
  <2>1. PICK cost \in Prices : \E k \in 0..(IF cost = None THEN 1 ELSE 2) :
          ledger' = Commits(k, Status, cost)
    BY DEF WriteFails
  <2>2. cost \in Costs \cup {None}
    BY CostTyped DEF Prices
  <2>3. QED
    BY <2>1, <2>2
<1>3. /\ ledger' \in Ledgers
      /\ ledger'.reported => ledger'.row # None
      /\ ledger'.cost # None => ledger'.reported
      /\ ledger'.row # None /\ ledger'.row.status = "completed" => Decided
      /\ ledger.row # None => ledger'.row = ledger.row
      /\ ledger.reported => ledger'.reported
  BY <1>1, <1>2, CommitsFit
<1>4. /\ call \in Calls /\ call.torn \in Nat
      /\ Decided => call.verdict \in Verdicts
  BY DEF GuidanceInv, TypeOK, Calls, Decided
<1>5. CASE At("record")
  <2>1. call' = [call EXCEPT !.torn = call.torn + 1, !.at = "failed"] /\ UNCHANGED result
    BY <1>5 DEF WriteFails
  <2>2. Decided /\ call.torn = 0
    BY <1>5 DEF GuidanceInv, StageFits, At
  <2>3. /\ call' \in Calls /\ call'.at = "failed" /\ call'.torn = 1
        /\ UNCHANGED <<call.doc, call.seen, call.origin, call.target, call.verdict>>
    BY <1>4, <2>1, <2>2, CallTorn DEF Stages
  <2>4. StageFits' /\ ResultFits' /\ LedgerFits' /\ result' \in Results
    BY <1>3, <2>1, <2>2, <2>3
    DEF StageFits, ResultFits, LedgerFits, LedgerIsComplete, Decided, Over, GuidanceInv, TypeOK
  <2>5. QED
    BY <1>1, <1>3, <2>3, <2>4, RowsFit
<1>6. CASE At("failed")
  <2>1. PICK o \in {"unavailable", "raised"} :
          /\ call' = [call EXCEPT !.torn = call.torn + 1, !.at = "idle"]
          /\ result' = [outcome |-> o, escalate |-> FALSE, named |-> FALSE]
    BY <1>6 DEF WriteFails, At
  <2>2. /\ call' \in Calls /\ call'.at = "idle" /\ call'.torn = call.torn + 1
        /\ UNCHANGED <<call.doc, call.seen, call.origin, call.target, call.verdict>>
    BY <1>4, <2>1, CallTorn DEF Stages
  <2>3. result' \in Results /\ result'.outcome = o /\ result'.named = FALSE
    BY <2>1 DEF Results, Outcomes
  <2>4. StageFits' /\ ResultFits'
    BY <1>4, <2>2, <2>3 DEF StageFits, ResultFits, Decided
  \* A decision that is recorded a second time has its rows already, or has failed before.
  <2>5. call'.torn <= (IF Decided THEN 1 ELSE 0) => ledger'.row # None /\ ledger'.reported
    <3>1. ASSUME call'.torn <= (IF Decided THEN 1 ELSE 0) PROVE Written
      <4>1. Decided /\ call.torn = 0
        BY <1>4, <2>2, <3>1
      <4>2. QED
        BY <1>6, <4>1 DEF GuidanceInv, LedgerFits, At
    <3>2. QED
      BY <1>3, <3>1 DEF Written
  <2>6. LedgerFits'
    BY <1>3, <1>4, <2>2, <2>5 DEF LedgerFits, LedgerIsComplete, Decided
  <2>7. QED
    BY <1>1, <1>3, <2>2, <2>3, <2>4, <2>6, RowsFit
<1>7. QED
  BY <1>1, <1>5, <1>6 DEF Recording, At

-----------------------------------------------------------------------------
(* The end of a call *)

LEMMA EndStep ==
  ASSUME GuidanceInv,
         SnapshotFails \/ SkillUnavailable \/ Triages \/ Highlights
  PROVE  GuidanceInv'
<1>1. CASE SnapshotFails \/ SkillUnavailable
  <2>1. ~Decided /\ ~Over /\ ~call.asked /\ UNCHANGED <<page, ledger>>
    BY <1>1 DEF SnapshotFails, SkillUnavailable, At, GuidanceInv, Undecided, Over
  <2>2. PICK o \in {"raised", "unavailable"} : Ends(o, FALSE, FALSE)
    BY <1>1 DEF SnapshotFails, SkillUnavailable
  <2>3. QED
    BY <2>1, <2>2, EndsFits DEF Outcomes
<1>2. CASE Triages
  <2>1. /\ call.verdict = "escalate" /\ Decided /\ call.torn = 0 /\ Written
        /\ ~Over /\ UNCHANGED <<page, ledger>>
    BY <1>2, NoneApart
    DEF Triages, At, GuidanceInv, StageFits, LedgerFits, Over, Decided, Verdicts
  <2>2. PICK n \in BOOLEAN : Ends("safety_pause", TRUE, n)
    BY <1>2 DEF Triages
  <2>3. QED
    BY <2>1, <2>2, EndsFits DEF Outcomes
<1>3. CASE Highlights
  <2>1. /\ call.verdict \in {None, "allowed"} /\ ~Over /\ UNCHANGED <<page, ledger>>
        /\ call.asked => Decided /\ call.torn = 0 /\ Written
        /\ Ends("presented", FALSE, FALSE)
    BY <1>3 DEF Highlights, At, GuidanceInv, StageFits, LedgerFits, Over
  <2>2. QED
    BY <2>1, EndsFits DEF Outcomes, Decided
<1>4. QED
  BY <1>1, <1>2, <1>3

LEMMA HighlightStep ==
  ASSUME GuidanceInv, HighlightFails \/ HighlightRaises
  PROVE  GuidanceInv'
<1>1. /\ call.at = "highlight" /\ ~Over /\ UNCHANGED <<page, ledger>>
      /\ call.verdict \in {None, "allowed"} /\ (call.asked => Decided)
  BY DEF HighlightFails, HighlightRaises, At, GuidanceInv, StageFits, Over
<1>2. CASE call.verdict = None
  <2>1. Unresolved \/ Ends("unavailable", FALSE, FALSE)
    BY <1>2 DEF HighlightFails, HighlightRaises
  <2>2. QED
    BY <1>1, <1>2, <2>1, UnresolvedFits, EndsFits DEF Outcomes, Decided
<1>3. CASE call.verdict # None
  <2>1. call' = [call EXCEPT !.at = "failed"] /\ result' = result
    BY <1>3 DEF HighlightFails, HighlightRaises
  <2>2. QED
    BY <1>1, <1>3, <2>1, MovesFits DEF Decided
<1>4. QED
  BY <1>2, <1>3

\* The process may end at any stage, and between any two rows.
LEMMA DeathStep ==
  ASSUME GuidanceInv, Dies
  PROVE  GuidanceInv'
<1>1. Ends("died", FALSE, FALSE) /\ ~Over /\ page' = page
  BY DEF Dies, Over
<1>2. CASE Recording
  <2>1. PICK k \in 0..3, cost \in Costs \cup {None} : ledger' = Commits(k, Status, cost)
    BY <1>2, CostTyped DEF Dies, Prices
  <2>2. /\ ledger' \in Ledgers
        /\ ledger'.cost # None => ledger'.reported
        /\ ledger'.reported => ledger'.row # None
        /\ ledger'.row # None /\ ledger'.row.status = "completed" => Decided
    BY <1>2, <2>1, CommitsFit
  <2>3. /\ call' \in Calls /\ call'.at = "idle" /\ UNCHANGED Held /\ result' \in Results
        /\ result'.outcome = "died"
    BY <1>1, CallEnded DEF GuidanceInv, TypeOK, Outcomes
  <2>4. TypeOK' /\ Undecided' /\ StageFits' /\ JudgedThere'
    BY <1>1, <2>2, <2>3 DEF GuidanceInv, TypeOK, Undecided, StageFits, JudgedThere, Held
  <2>5. Judged' /\ ResultFits' /\ LedgerFits'
    BY <2>2, <2>3 DEF GuidanceInv, Judged, ResultFits, LedgerFits, LedgerIsComplete,
                             Decided, Held, Over
  <2>6. QED
    BY <2>4, <2>5 DEF GuidanceInv
<1>3. CASE ~Recording
  <2>1. ledger' = ledger
    BY <1>3 DEF Dies
  <2>2. QED
    BY <1>1, <2>1, EndsFits DEF Outcomes
<1>4. QED
  BY <1>2, <1>3

-----------------------------------------------------------------------------
LEMMA InvInit == Init => GuidanceInv
<1> SUFFICES ASSUME Init PROVE GuidanceInv
  OBVIOUS
<1>1. TypeOK
  <2>1. page \in [address : Docs, number : Nat, drawn : Drawings]
    BY DEF Init
  <2>2. call \in Calls
    BY NothingListed DEF Init, Idle, Calls, Stages
  <2>3. result \in Results /\ ledger \in Ledgers
    BY DEF Init, NoResult, Results, Outcomes, NoRows, Ledgers
  <2>4. QED
    BY <2>1, <2>2, <2>3 DEF TypeOK
<1>2. QED
  BY <1>1 DEF Init, GuidanceInv, Undecided, Judged, StageFits, LedgerFits, LedgerIsComplete,
              ResultFits, JudgedThere, Decided, Over, Idle, NoRows

LEMMA InvStep == GuidanceInv /\ [Next]_vars => GuidanceInv'
<1> SUFFICES ASSUME GuidanceInv, [Next]_vars PROVE GuidanceInv'
  OBVIOUS
<1>1. CASE UNCHANGED vars
  BY <1>1 DEF vars, GuidanceInv, TypeOK, Undecided, Judged, StageFits, LedgerFits,
              LedgerIsComplete, Written, ResultFits, JudgedThere, Decided, Over
<1>2. QED
  BY <1>1, PageStep, EarlyStep, ReplayStep, ModelStep, RecordStep, WriteStep, EndStep, HighlightStep,
     DeathStep
  DEF Next

-----------------------------------------------------------------------------
(* The theorems. *)

THEOREM GuidanceInvHolds == Spec => []GuidanceInv
BY InvInit, InvStep, PTL DEF Spec

\* A step the model decided is presented only when the control, as it was seen, asks for
\* nothing sensitive, whatever its flags; money on an unfamiliar origin calls the helper,
\* unless the control is a password field too.
THEOREM SensitiveStaysHidden == Spec => []SensitiveIsNotPresented
<1>1. GuidanceInv => SensitiveIsNotPresented
  <2> SUFFICES ASSUME GuidanceInv, Over, Decided PROVE SensitiveIsNotPresented
    BY DEF SensitiveIsNotPresented
  <2>1. call.verdict \in Verdicts
    BY DEF GuidanceInv, TypeOK, Calls, Decided
  <2>2. result.outcome = "presented" => call.verdict = "allowed"
    BY DEF GuidanceInv, ResultFits
  <2>3. result.outcome = "safety_pause" =>
          call.verdict # "allowed" /\ (result.escalate <=> call.verdict # "pause")
    BY DEF GuidanceInv, ResultFits
  <2>4. QED
    BY <2>1, <2>2, <2>3 DEF GuidanceInv, Judged, SensitiveIsNotPresented
<1>2. QED
  BY <1>1, GuidanceInvHolds, PTL

\* A refusal of the policy becomes a pause, whatever becomes of the scam classifier; without
\* its row it becomes a failure, and is never presented.
THEOREM RefusalsStand == Spec => []RefusalStands
<1>1. GuidanceInv => RefusalStands
  <2> SUFFICES ASSUME GuidanceInv, Over, call.verdict \in {"unsure", "pause", "escalate"},
                      result.outcome # "died"
               PROVE  RefusalStands
    BY DEF RefusalStands
  <2>1. Decided
    BY NoneApart DEF Decided, Verdicts
  <2>2. result.escalate \in BOOLEAN
    BY DEF GuidanceInv, TypeOK, Results
  <2>3. QED
    BY <2>1, <2>2 DEF GuidanceInv, ResultFits, RefusalStands
<1>2. QED
  BY <1>1, GuidanceInvHolds, PTL

\* Every call that asked the model leaves its row and its report, unless the process ended or
\* no recording of it was carried through.
THEOREM LedgerHolds == Spec => []LedgerIsComplete
<1>1. GuidanceInv => LedgerIsComplete
  BY DEF GuidanceInv, LedgerFits
<1>2. QED
  BY <1>1, GuidanceInvHolds, PTL

\* What is presented stands in the document, and on the origin, that were judged.
THEOREM PresentedThere == Spec => PresentedWhereJudged
<1> DEFINE There == result'.outcome = "presented" /\ result' # result =>
                      page.number = call.doc /\ call.origin = Origin[page.address]
<1>1. GuidanceInv /\ [Next]_vars => [There]_vars
  <2> SUFFICES ASSUME GuidanceInv, Next, result'.outcome = "presented", result' # result
               PROVE  page.number = call.doc /\ call.origin = Origin[page.address]
    OBVIOUS
  <2>1. ASSUME NEW o \in Outcomes, NEW e \in BOOLEAN, NEW n \in BOOLEAN, Ends(o, e, n)
        PROVE  o = "presented"
    BY <2>1, CallEnded DEF GuidanceInv, TypeOK
  <2>2. Highlights
    <3>1. ASSUME \/ Navigates \/ Redraws \/ Tick \/ Snapshots \/ Identifies
                 \/ ModelFails \/ ModelAnswers
          PROVE  FALSE
      BY <3>1 DEF Navigates, Redraws, Tick, Snapshots, Identifies, ModelFails, ModelAnswers
    <3>2. ASSUME NEW mode \in {"cold", "replay"}, NEW attempts \in 0..2, Begins(mode, attempts)
          PROVE  FALSE
      BY <3>2 DEF Begins, NoResult
    <3>3. ~Unresolved
      BY <2>1 DEF Unresolved, Outcomes
    <3>4. ~Records /\ ~Triages
      BY <2>1 DEF Records, Triages, Outcomes
    <3>5. ~WriteFails
      BY DEF WriteFails
    <3>6. ~(SnapshotFails \/ SkillUnavailable \/ Dies)
      BY <2>1 DEF SnapshotFails, SkillUnavailable, Dies, Outcomes
    <3>7. ~(Resolves \/ HighlightFails \/ HighlightRaises)
      BY <2>1, <3>3 DEF Resolves, HighlightFails, HighlightRaises, Outcomes
    <3>8. QED
      BY <3>1, <3>2, <3>4, <3>5, <3>6, <3>7 DEF Next
  <2>3. QED
    BY <2>2 DEF Highlights, Highlightable, At, GuidanceInv, JudgedThere
<1>2. QED
  BY <1>1, GuidanceInvHolds, PTL DEF Spec, PresentedWhereJudged
===============================================================================
