--------------------------- MODULE AutopilotProofs ---------------------------
(* An autonomous run keeps its limits, for any pages, planners and budgets. *)
EXTENDS AutopilotProps, TLAPS

\* TypeOK in two parts: the run, and what it and its browser know of the page.
RunTyped ==
  /\ state \in Over \cup {"none", "running", "needs_confirmation"}
  /\ at \in Waits \cup {"none"}
  /\ steps \in Seq({"scroll", "other"})
  /\ plan \in Plan \cup {None}
  /\ pending \in {None, "question", "password", "irreversible"}
PageTyped ==
  /\ demo \in BOOLEAN
  /\ seen \in Pages \cup {None}
  /\ noScroll \in BOOLEAN
  /\ tried \subseteq Controls /\ typed \subseteq Controls
  /\ scrolls \in Nat
  /\ clicked \subseteq Controls /\ filled \subseteq Fields
  /\ asked \in Nat
  /\ page \in Pages /\ cache \in Pages /\ alive \in BOOLEAN
  /\ clicks \in [Controls -> Nat] /\ scrolled \in Nat

\* What was performed on the page is written down (the budgets of one page).
PageWritten ==
  /\ ~demo => \A c \in Controls : clicks[c] > 0 => clicks[c] = 1 /\ c \in tried
  /\ scrolls <= MaxScrolls
  /\ scrolled <= scrolls

\* The same of the plan that is about to be performed.
PlanWritten ==
  at = "act" =>
    /\ ~demo /\ plan.action = "click" /\ plan.target \in Controls =>
         clicks[plan.target] = 0 /\ plan.target \in tried
    /\ plan.action = "scroll" => scrolled < scrolls

\* The invariant in these parts.
LEMMA InvParts ==
  AutopilotInv <=>
    /\ RunTyped /\ PageTyped
    /\ RunningIsDriven /\ StepCeiling /\ StepToSpare
    /\ PlannerHasPage /\ PlanInHand
    /\ PageWritten /\ PlanWritten
    /\ HandedBack /\ DemoNeverAsks
<1>1. TypeOK <=> RunTyped /\ PageTyped
  BY DEF TypeOK, RunTyped, PageTyped
<1>2. ClicksWritten /\ ScrollsWritten <=> PageWritten /\ PlanWritten
  BY Zenon DEF ClicksWritten, ScrollsWritten, PageWritten, PlanWritten, InFlight
<1> QED
  BY <1>1, <1>2 DEF AutopilotInv

\* ... and after a step.
LEMMA InvPartsNext ==
  AutopilotInv' <=>
    /\ RunTyped' /\ PageTyped'
    /\ RunningIsDriven' /\ StepCeiling' /\ StepToSpare'
    /\ PlannerHasPage' /\ PlanInHand'
    /\ PageWritten' /\ PlanWritten'
    /\ HandedBack' /\ DemoNeverAsks'
<1>1. TypeOK' <=> RunTyped' /\ PageTyped'
  BY DEF TypeOK, RunTyped, PageTyped
<1>2. ClicksWritten' /\ ScrollsWritten' <=> PageWritten' /\ PlanWritten'
  BY Zenon DEF ClicksWritten, ScrollsWritten, PageWritten, PlanWritten, InFlight
<1> QED
  BY <1>1, <1>2 DEF AutopilotInv

-----------------------------------------------------------------------------
(* The ends of a stretch of the driver *)

\* The driver stops: the run is over, or waits for the person.
LEMMA RestsInv ==
  ASSUME PageTyped', PageWritten', RunTyped', StepCeiling', DemoNeverAsks',
         at' = "none", state' # "running"
  PROVE  AutopilotInv'
<1>1. RunningIsDriven' /\ StepToSpare' /\ PlannerHasPage' /\ PlanInHand'
  BY DEF RunningIsDriven, StepToSpare, PlannerHasPage, PlanInHand
<1>2. PlanWritten' /\ HandedBack'
  BY DEF PlanWritten, HandedBack
<1> QED
  BY <1>1, <1>2, InvPartsNext

\* The head of the loop: on to a snapshot with a step to spare, or over.
LEMMA LoopInv ==
  ASSUME AutopilotInv, at # "none", NEW b \in BOOLEAN, Loop(b), PageTyped', PageWritten'
  PROVE  AutopilotInv'
<1>0. state = "running" /\ RunTyped /\ StepCeiling /\ MaxSteps \in Nat
  BY InvParts, AutopilotAssumption DEF RunningIsDriven
<1>1. RunTyped' /\ StepCeiling'
  BY <1>0 DEF Loop, RunTyped, StepCeiling, Waits, Over
<1>2. RunningIsDriven' /\ StepToSpare'
  BY <1>0 DEF Loop, LoopsWhile, RunningIsDriven, StepToSpare
<1>3. at' # "planner" /\ at' # "act" /\ state' # "needs_confirmation"
  BY <1>0 DEF Loop
<1>4. PlannerHasPage' /\ PlanInHand' /\ PlanWritten' /\ HandedBack' /\ DemoNeverAsks'
  BY <1>3 DEF PlannerHasPage, PlanInHand, PlanWritten, HandedBack, DemoNeverAsks
<1> QED
  BY <1>1, <1>2, <1>4, InvPartsNext

\* One more step fits when the loop was entered with a step to spare.
LEMMA OneMoreStep ==
  ASSUME AutopilotInv, at \in {"snapshot", "planner"}, NEW s \in {"scroll", "other"},
         steps' = Append(steps, s)
  PROVE  steps' \in Seq({"scroll", "other"}) /\ StepCeiling'
<1>1. steps \in Seq({"scroll", "other"}) /\ Len(steps) < MaxSteps /\ MaxSteps \in Nat
  BY InvParts, AutopilotAssumption DEF RunTyped, StepToSpare
<1> QED
  BY <1>1 DEF StepCeiling

\* The ways a stretch ends the run.
LEMMA EndsInv ==
  ASSUME AutopilotInv, at # "none", PageTyped', PageWritten',
         \/ Fail
         \/ Complete /\ at \in {"snapshot", "planner"}
  PROVE  AutopilotInv'
<1>1. RunTyped /\ StepCeiling
  BY InvParts
<1>2. steps' \in Seq({"scroll", "other"}) /\ StepCeiling'
  BY <1>1, OneMoreStep DEF Fail, Complete, RunTyped, StepCeiling
<1>3. RunTyped' /\ DemoNeverAsks' /\ at' = "none" /\ state' # "running"
  BY <1>1, <1>2 DEF Fail, Complete, Finish, RunTyped, Over, DemoNeverAsks
<1> QED
  BY <1>2, <1>3, RestsInv

\* _pause: a demo pauses for a password only.
LEMMA PauseInv ==
  ASSUME AutopilotInv, at \in {"snapshot", "planner"}, PageTyped', PageWritten',
         NEW why \in {"question", "password", "irreversible"}, Pause(why),
         demo' => why = "password"
  PROVE  AutopilotInv'
<1>1. steps' \in Seq({"scroll", "other"}) /\ StepCeiling'
  BY OneMoreStep DEF Pause
<1>2. RunTyped' /\ DemoNeverAsks' /\ at' = "none" /\ state' # "running"
  BY <1>1 DEF Pause, RunTyped, DemoNeverAsks
<1> QED
  BY <1>1, <1>2, RestsInv

\* A plan is performed or handed to the person (_stopping_reason), and one that counts
\* against the page has been written down.
LEMMA CarryOutInv ==
  ASSUME AutopilotInv, at \in {"snapshot", "planner"}, PageTyped', PageWritten',
         UNCHANGED demo,
         NEW p, p.action \in Kinds, p.target \in Controls \cup {None}, CarryOut(p),
         ~demo /\ p.action = "click" /\ p.target \in Controls =>
           clicks'[p.target] = 0 /\ p.target \in tried',
         p.action = "scroll" => scrolled' < scrolls'
  PROVE  AutopilotInv'
<1>0. state = "running" /\ RunTyped /\ demo \in BOOLEAN
  BY InvParts DEF RunningIsDriven, PageTyped
<1>1. CASE Blocker(p) = None
  <2>1. Perform(p)
    BY <1>1 DEF CarryOut
  <2>2. steps' \in Seq({"scroll", "other"}) /\ StepCeiling'
    BY <2>1, OneMoreStep DEF Perform
  <2>3. at' = "act" /\ state' = "running"
    BY <1>0, <2>1 DEF Perform
  <2>4. plan' = [action |-> p.action, target |-> p.target] /\ plan' \in Plan
    BY <2>1 DEF Perform, Plan
  <2>5. RunTyped' /\ PlanInHand'
    BY <1>0, <2>1, <2>2, <2>3, <2>4 DEF Perform, RunTyped, PlanInHand, Waits
  <2>6. RunningIsDriven' /\ StepToSpare' /\ PlannerHasPage' /\ DemoNeverAsks'
    BY <2>3 DEF RunningIsDriven, StepToSpare, PlannerHasPage, DemoNeverAsks
  <2>7. plan'.action = p.action /\ plan'.target = p.target
    BY <2>4
  <2>8. PlanWritten'
    BY <2>7 DEF PlanWritten
  <2>9. HandedBack'
    BY <1>0, <1>1, <2>7, AutopilotAssumption DEF HandedBack, Blocker
  <2> QED
    BY <2>2, <2>5, <2>6, <2>8, <2>9, InvPartsNext
<1>2. CASE Blocker(p) # None
  <2>1. Blocker(p) \in {"password", "irreversible"} /\ (demo => Blocker(p) = "password")
    BY <1>2 DEF Blocker
  <2>2. Pause(Blocker(p))
    BY <1>2 DEF CarryOut
  <2> QED
    BY <2>1, <2>2, PauseInv
<1> QED
  BY <1>1, <1>2

-----------------------------------------------------------------------------
(* What the planner answers *)

\* What is offered has not been tried on the page (the filter in _plan).
LEMMA OfferedFresh ==
  ASSUME AutopilotInv, at = "planner"
  PROVE  Offered \subseteq Controls /\ Offered \cap tried = {}
<1>1. seen \in Pages
  BY InvParts DEF PlannerHasPage
<1> QED
  BY <1>1, AutopilotAssumption DEF Offered

\* A control that has not been tried has not been clicked either.
LEMMA FreshUnclicked ==
  ASSUME AutopilotInv, ~demo, NEW c \in Controls \ tried
  PROVE  clicks[c] = 0
<1>1. PageWritten /\ clicks[c] \in Nat
  BY InvParts DEF PageTyped
<1>2. ~(clicks[c] > 0)
  BY <1>1 DEF PageWritten
<1> QED
  BY <1>1, <1>2

PlanOf == [action : Kinds, target : Controls \cup {None}, class : Classes]

\* More written down of the page does no harm.
LEMMA WrittenGrows ==
  ASSUME AutopilotInv, UNCHANGED <<demo, history>>,
         tried \subseteq tried', scrolls' \in Nat, scrolls <= scrolls', scrolls' <= MaxScrolls
  PROVE  PageWritten'
<1>1. PageWritten /\ PageTyped
  BY InvParts
<1> QED
  BY <1>1, AutopilotAssumption DEF PageWritten, PageTyped, history

\* A click is of a control that was offered, the planner's or the one the goal names.
LEMMA TakeClickInv ==
  ASSUME AutopilotInv, at = "planner", UNCHANGED <<demo, pageKey, filled, asked, browser, history>>,
         Answered, NEW p \in PlanOf, p.target \in Offered \cup {None}, p.action = "click",
         TakeClick(p)
  PROVE  AutopilotInv'
<1> DEFINE named == IF p.target # None /\ Named[p.target] \in Offered \ clicked
                    THEN Named[p.target] ELSE None
           moved == [p EXCEPT !.target = named,
                              !.class = IF @ = "safe" THEN LabelClass[named] ELSE @]
           final == IF named = None THEN p ELSE moved
           target == {final.target} \ {None}
<1>0. PageTyped /\ PageWritten
  BY InvParts
<1>1. named \in Offered \cup {None} /\ final.target \in Offered \cup {None}
  BY DEF PlanOf
<1>2. final.action = "click" /\ target \subseteq Offered
  BY <1>1 DEF PlanOf
<1>3. /\ tried' = tried \cup target /\ clicked' = clicked \cup target
      /\ UNCHANGED <<typed, scrolls>>
      /\ CarryOut(final)
  BY Zenon DEF TakeClick
<1> HIDE DEF named, moved, final
<1>4. PageTyped'
  BY <1>0, <1>2, <1>3, OfferedFresh DEF PageTyped, Answered, browser, history
<1>5. PageWritten'
  BY <1>0, <1>3, WrittenGrows, AutopilotAssumption DEF PageTyped, PageWritten
<1>6. ASSUME ~demo, final.target \in Controls
      PROVE  clicks'[final.target] = 0 /\ final.target \in tried'
  <2>1. final.target \in Controls \ tried
    BY <1>1, <1>6, OfferedFresh, AutopilotAssumption
  <2> QED
    BY <1>3, <1>6, <2>1, FreshUnclicked, AutopilotAssumption DEF history
<1>7. final.action \in Kinds /\ final.target \in Controls \cup {None} /\ final.action # "scroll"
  BY <1>1, <1>2, OfferedFresh DEF Kinds, Targeted
<1> QED
  BY <1>3, <1>4, <1>5, <1>6, <1>7, CarryOutInv

\* Any other plan.
LEMMA TakeInv ==
  ASSUME AutopilotInv, at = "planner", UNCHANGED <<demo, pageKey, filled, asked, browser, history>>,
         Answered, NEW p \in PlanOf, p.target \in Offered \cup {None}, Take(p)
  PROVE  AutopilotInv'
<1>0. PageTyped /\ PageWritten /\ p.target \in Controls \cup {None} /\ p.action \in Kinds
  BY InvParts DEF PlanOf
<1>1. CASE p.action = "click" /\ TakeClick(p)
  BY <1>1, TakeClickInv
<1>2. CASE p.action = "fill" /\ TakeFill(p)
  <2> DEFINE q == [p EXCEPT !.action = "press"]
  <2>1. q.action = "press" /\ q.target = p.target
    BY DEF PlanOf
  <2>2. /\ tried \subseteq tried' /\ tried' \subseteq Controls
        /\ typed' \subseteq Controls
        /\ UNCHANGED <<clicked, scrolls>>
    BY <1>0, <1>2, OfferedFresh, AutopilotAssumption DEF TakeFill, PageTyped
  <2>3. CarryOut(p) \/ CarryOut(q)
    BY <1>2 DEF TakeFill
  <2> HIDE DEF q
  <2>4. PageTyped'
    BY <1>0, <2>2 DEF PageTyped, Answered, browser, history
  <2>5. PageWritten'
    BY <1>0, <2>2, WrittenGrows, AutopilotAssumption DEF PageTyped, PageWritten
  <2>6. "press" \in Kinds
    BY DEF Kinds, Targeted
  <2> QED
    BY <1>0, <1>2, <2>1, <2>3, <2>4, <2>5, <2>6, CarryOutInv
<1>3. CASE /\ p.action \in {"press", "navigate"} /\ CarryOut(p)
           /\ UNCHANGED <<tried, typed, clicked, scrolls>>
  <2>1. PageTyped'
    BY <1>0, <1>3 DEF PageTyped, Answered, browser, history
  <2>2. PageWritten'
    BY <1>0, <1>3 DEF PageWritten, history
  <2> QED
    BY <1>0, <1>3, <2>1, <2>2, CarryOutInv
<1>4. CASE Complete /\ UNCHANGED <<tried, typed, clicked, scrolls>>
  <2>1. PageTyped'
    BY <1>0, <1>4 DEF PageTyped, Answered, browser, history
  <2>2. PageWritten'
    BY <1>0, <1>4 DEF PageWritten, history
  <2> QED
    BY <1>4, <2>1, <2>2, EndsInv
<1> QED
  BY <1>1, <1>2, <1>3, <1>4 DEF Take

\* A scroll is counted before it is performed.
LEMMA TakeScrollInv ==
  ASSUME AutopilotInv, at = "planner", UNCHANGED <<demo, pageKey, filled, asked, browser, history>>,
         Answered, ~Exhausted, TakeScroll
  PROVE  AutopilotInv'
<1> DEFINE p == [action |-> "scroll", target |-> None, class |-> "safe"]
<1>0. PageTyped /\ PageWritten /\ MaxScrolls \in Nat
  BY InvParts, AutopilotAssumption
<1>1. scrolls' = scrolls + 1 /\ scrolls < MaxScrolls /\ scrolls \in Nat
  BY <1>0 DEF TakeScroll, Exhausted, PageTyped
<1>2. UNCHANGED <<tried, typed, clicked>> /\ scrolls' \in Nat
  BY <1>1 DEF TakeScroll
<1>3. PageTyped'
  BY <1>0, <1>2 DEF PageTyped, Answered, browser, history
<1>4. PageWritten'
  BY <1>0, <1>1, <1>2, WrittenGrows
<1>5. scrolled' < scrolls'
  BY <1>0, <1>1 DEF PageWritten, PageTyped, history
<1>6. CarryOut(p) /\ p.action = "scroll" /\ p.target = None /\ p.action \in Kinds
  BY DEF TakeScroll, Kinds
<1> HIDE DEF p
<1>7. p.action # "click" /\ p.target \in Controls \cup {None}
  BY <1>6
<1> QED
  BY <1>3, <1>4, <1>5, <1>6, <1>7, CarryOutInv

-----------------------------------------------------------------------------
(* The actions of the driver *)

\* _refresh_page: a page under another key has nothing done to it yet.
LEMMA ReadsInv ==
  ASSUME AutopilotInv, Reads
  PROVE  AutopilotInv'
<1>0. PageTyped /\ PageWritten /\ at # "none" /\ MaxScrolls \in Nat
  BY InvParts, AutopilotAssumption DEF Reads
<1>1. CASE Loop(FALSE) /\ UNCHANGED <<known, history>>
  <2>1. PageTyped' /\ PageWritten'
    BY <1>0, <1>1 DEF Reads, PageTyped, PageWritten, known, memory, browser, history
  <2> QED
    BY <1>0, <1>1, <2>1, LoopInv
<1>2. CASE Loop(page \in Blocked)
           /\ \/ UNCHANGED <<tried, typed, scrolls, history>>
              \/ /\ tried' = {} /\ typed' = {} /\ scrolls' = 0
                 /\ clicks' = [c \in Controls |-> 0] /\ scrolled' = 0
  <2>1. PageTyped'
    BY <1>0, <1>2 DEF Reads, PageTyped, memory, browser, history
  <2>2. PageWritten'
    BY <1>0, <1>2 DEF Reads, PageWritten, history
  <2>3. (page \in Blocked) \in BOOLEAN
    OBVIOUS
  <2> QED
    BY <1>0, <1>2, <2>1, <2>2, <2>3, LoopInv
<1> QED
  BY <1>1, <1>2 DEF Reads

\* The look at the page: a demo's own fill, or the planner's turn.
LEMMA LooksInv ==
  ASSUME AutopilotInv, Looks
  PROVE  AutopilotInv'
<1>0. PageTyped /\ PageWritten /\ RunTyped /\ at = "snapshot" /\ state = "running"
  BY InvParts DEF Looks, RunningIsDriven
<1>1. UNCHANGED <<demo, noScroll, known, clicked, asked, page, alive, history>> /\ cache' = page
  BY DEF Looks
<1>2. PageWritten'
  BY <1>0, <1>1 DEF PageWritten, known, history
<1>3. ASSUME NEW c \in Unfilled(page), filled' = filled \cup {c}, UNCHANGED seen,
             CarryOut([action |-> "fill", target |-> c, class |-> "safe"])
      PROVE  AutopilotInv'
  <2> DEFINE p == [action |-> "fill", target |-> c, class |-> "safe"]
  <2>1. c \in Fields /\ c \in Controls
    BY <1>3, AutopilotAssumption DEF Unfilled
  <2>2. PageTyped'
    BY <1>0, <1>1, <1>3, <2>1 DEF PageTyped, known, history
  <2>3. p.action = "fill" /\ p.target = c /\ p.action \in Kinds /\ CarryOut(p)
    BY <1>3 DEF Kinds, Targeted
  <2> HIDE DEF p
  <2> QED
    BY <1>0, <1>1, <1>2, <2>1, <2>2, <2>3, CarryOutInv
<1>4. CASE at' = "planner" /\ seen' = page /\ UNCHANGED <<state, steps, plan, pending, filled>>
  <2>1. PageTyped' /\ RunTyped'
    BY <1>0, <1>1, <1>4 DEF PageTyped, RunTyped, Waits, known, history
  <2>2. StepCeiling' /\ StepToSpare'
    BY <1>0, <1>4, InvParts DEF StepCeiling, StepToSpare
  <2>3. RunningIsDriven' /\ PlannerHasPage' /\ PlanInHand' /\ PlanWritten' /\ HandedBack'
    BY <1>0, <1>4 DEF RunningIsDriven, PlannerHasPage, PlanInHand, PlanWritten, HandedBack,
                      PageTyped
  <2>4. DemoNeverAsks'
    BY <1>0, <1>4 DEF DemoNeverAsks
  <2> QED
    BY <1>2, <2>1, <2>2, <2>3, <2>4, InvPartsNext
<1> QED
  BY <1>3, <1>4 DEF Looks

\* SnapshotRaises, NoPlan and ActRaises fail the run.
LEMMA FailsInv ==
  ASSUME AutopilotInv, SnapshotRaises \/ NoPlan \/ ActRaises
  PROVE  AutopilotInv'
<1>1. PageTyped /\ PageWritten /\ at # "none" /\ Fail
  BY InvParts DEF SnapshotRaises, NoPlan, ActRaises
<1>2. /\ UNCHANGED <<demo, known, memory, browser, history>>
      /\ seen' \in {seen, None} /\ noScroll' \in {noScroll, FALSE}
  BY DEF SnapshotRaises, NoPlan, ActRaises, Answered
<1>3. PageTyped' /\ PageWritten'
  BY <1>1, <1>2 DEF PageTyped, PageWritten, known, memory, browser, history
<1> QED
  BY <1>1, <1>3, EndsInv

\* What LocalActionPlanner takes is a plan for one of the controls it is given.
LEMMA LocalPlans ==
  ASSUME NEW S \in SUBSET Controls, NEW p \in Local(S), p # None
  PROVE  p \in PlanOf /\ p.target \in S \cup {None} /\ p.action # "scroll"
<1>1. CASE p = [action |-> "done", target |-> None, class |-> "safe"]
  BY <1>1 DEF PlanOf, Kinds, Classes
<1>2. ASSUME NEW c \in S, p = [action |-> "click", target |-> c, class |-> LabelClass[c]]
             \/ p = [action |-> "fill", target |-> c, class |-> LabelClass[c]]
      PROVE  p \in PlanOf /\ p.target \in S \cup {None} /\ p.action # "scroll"
  BY <1>2, AutopilotAssumption DEF PlanOf, Kinds, Targeted
<1> QED
  BY <1>1, <1>2 DEF Local

\* The planner's answers.
LEMMA AnswersInv ==
  ASSUME AutopilotInv, Answers
  PROVE  AutopilotInv'
<1>1. PICK action \in Kinds \ {"scroll"}, class \in Classes, target \in Offered \cup {None} :
        Take([action |-> action, target |-> target, class |-> class])
  BY Zenon DEF Answers
<1> DEFINE p == [action |-> action, target |-> target, class |-> class]
<1>2. p \in PlanOf /\ p.target = target
  BY OfferedFresh DEF PlanOf, Answers
<1>3. Take(p)
  BY <1>1
<1> HIDE DEF p
<1> QED
  BY <1>1, <1>2, <1>3, TakeInv DEF Answers

\* The planner wants to scroll.
LEMMA AnswersScrollInv ==
  ASSUME AutopilotInv, AnswersScroll
  PROVE  AutopilotInv'
<1>0. /\ PageTyped /\ PageWritten /\ at = "planner"
      /\ UNCHANGED <<demo, pageKey, filled, asked, browser, history>>
  BY InvParts DEF AnswersScroll
<1>1. CASE /\ noScroll' = TRUE
           /\ UNCHANGED <<state, at, steps, plan, seen, pending, tried, typed, clicked, scrolls>>
  <2>1. PageTyped' /\ PageWritten'
    BY <1>0, <1>1 DEF PageTyped, PageWritten, browser, history
  <2>2. RunTyped' /\ RunningIsDriven' /\ StepCeiling' /\ StepToSpare'
    BY <1>1, InvParts DEF RunTyped, RunningIsDriven, StepCeiling, StepToSpare
  <2>3. PlannerHasPage' /\ PlanInHand' /\ PlanWritten' /\ HandedBack' /\ DemoNeverAsks'
    BY <1>0, <1>1, InvParts DEF PlannerHasPage, PlanInHand, PlanWritten, HandedBack,
                                DemoNeverAsks
  <2> QED
    BY <2>1, <2>2, <2>3, InvPartsNext
<1>2. CASE ~Exhausted /\ TakeScroll /\ Answered
  BY <1>0, <1>2, TakeScrollInv
<1>3. ASSUME NEW p \in Local(Offered), p # None, Take(p), Answered
      PROVE  AutopilotInv'
  <2>1. p \in PlanOf /\ p.target \in Offered \cup {None}
    BY <1>0, <1>3, OfferedFresh, LocalPlans
  <2> QED
    BY <1>0, <1>3, <2>1, TakeInv
<1>4. CASE Fail /\ Answered /\ UNCHANGED <<tried, typed, clicked, scrolls>>
  <2>1. PageTyped' /\ PageWritten'
    BY <1>0, <1>4 DEF Answered, PageTyped, PageWritten, browser, history
  <2> QED
    BY <1>0, <1>4, <2>1, EndsInv
<1> QED
  BY <1>1, <1>2, <1>3, <1>4 DEF AnswersScroll

\* The planner asks: a free-form run pauses ...
LEMMA AsksInv ==
  ASSUME AutopilotInv, Asks
  PROVE  AutopilotInv'
<1>1. PageTyped /\ PageWritten /\ at = "planner" /\ ~demo /\ UNCHANGED demo
  BY InvParts DEF Asks
<1>2. PageTyped' /\ PageWritten'
  BY <1>1 DEF Asks, Answered, PageTyped, PageWritten, known, memory, browser, history
<1> QED
  BY <1>1, <1>2, PauseInv DEF Asks

\* ... a demo lets the deterministic planner take the step.
LEMMA AsksInDemoInv ==
  ASSUME AutopilotInv, AsksInDemo
  PROVE  AutopilotInv'
<1>0. PageTyped /\ PageWritten /\ at = "planner" /\ demo /\ UNCHANGED <<demo, known, history>>
  BY InvParts DEF AsksInDemo
<1>1. asked' \in Nat /\ Answered /\ UNCHANGED <<clicked, filled, browser>>
  BY <1>0 DEF AsksInDemo, PageTyped
<1>2. PageTyped' /\ PageWritten'
  BY <1>0, <1>1 DEF Answered, PageTyped, PageWritten, known, browser, history
<1>3. seen \in Pages /\ On[seen] \in SUBSET Controls
  BY <1>0, InvParts, AutopilotAssumption DEF PlannerHasPage
<1>4. ASSUME NEW p \in Local(On[seen]), p # None, CarryOut(p)
      PROVE  AutopilotInv'
  <2>1. p \in PlanOf /\ p.action # "scroll"
    BY <1>3, <1>4, LocalPlans
  <2>2. p.action \in Kinds /\ p.target \in Controls \cup {None}
    BY <2>1 DEF PlanOf
  <2> QED
    BY <1>0, <1>2, <1>4, <2>1, <2>2, CarryOutInv
<1>5. CASE Fail
  BY <1>0, <1>2, <1>5, EndsInv
<1>6. CASE Loop(FALSE)
  BY <1>0, <1>2, <1>6, LoopInv
<1> QED
  BY <1>4, <1>5, <1>6 DEF AsksInDemo

\* The action reaches the page.
LEMMA ActsInv ==
  ASSUME AutopilotInv, Acts
  PROVE  AutopilotInv'
<1>0. /\ PageTyped /\ PageWritten /\ PlanWritten /\ RunTyped /\ StepCeiling
      /\ at = "act" /\ state = "running"
      /\ UNCHANGED <<demo, seen, noScroll, known, memory, cache, alive>>
  BY InvParts DEF Acts, RunningIsDriven
<1>1. page' \in Pages
  BY <1>0 DEF Acts, PageTyped
<1>2. clicks' \in [Controls -> Nat] /\ scrolled' \in Nat
  <2>1. clicks' \in {clicks, [clicks EXCEPT ![plan.target] = @ + 1]}
    BY DEF Acts
  <2>2. scrolled' \in {scrolled, scrolled + 1}
    BY DEF Acts
  <2> QED
    BY <1>0, <2>1, <2>2 DEF PageTyped
<1>3. PageTyped'
  BY <1>0, <1>1, <1>2 DEF PageTyped, known, memory
<1>4. ASSUME ~demo, NEW c \in Controls, clicks'[c] > 0
      PROVE  clicks'[c] = 1 /\ c \in tried'
  <2>1. CASE plan.action = "click" /\ plan.target = c
    <3>1. clicks'[c] = clicks[c] + 1
      BY <1>0, <2>1 DEF Acts, PageTyped
    <3> QED
      BY <1>0, <1>4, <2>1, <3>1 DEF PlanWritten, known
  <2>2. CASE ~(plan.action = "click" /\ plan.target = c)
    <3>1. clicks'[c] = clicks[c]
      BY <1>0, <2>2 DEF Acts, PageTyped
    <3> QED
      BY <1>0, <1>4, <3>1 DEF PageWritten, known
  <2> QED
    BY <2>1, <2>2
<1>5. scrolled' <= scrolls'
  BY <1>0 DEF Acts, PageWritten, PlanWritten, PageTyped, known
<1>6. PageWritten'
  BY <1>0, <1>4, <1>5 DEF PageWritten, known
<1>7. CASE at' = "page_state_after" /\ plan' = None /\ UNCHANGED <<state, steps, pending>>
  <2>1. RunTyped' /\ StepCeiling' /\ RunningIsDriven' /\ DemoNeverAsks'
    BY <1>0, <1>7 DEF RunTyped, StepCeiling, RunningIsDriven, DemoNeverAsks, Waits
  <2>2. StepToSpare' /\ PlannerHasPage' /\ PlanInHand' /\ PlanWritten' /\ HandedBack'
    BY <1>7 DEF StepToSpare, PlannerHasPage, PlanInHand, PlanWritten, HandedBack
  <2> QED
    BY <1>3, <1>6, <2>1, <2>2, InvPartsNext
<1>8. CASE Loop(FALSE)
  BY <1>0, <1>3, <1>6, <1>8, LoopInv
<1> QED
  BY <1>7, <1>8 DEF Acts

\* The action does not reach it.
LEMMA ActFailsInv ==
  ASSUME AutopilotInv, ActFails
  PROVE  AutopilotInv'
<1>1. PageTyped /\ PageWritten /\ at # "none"
  BY InvParts DEF ActFails
<1>2. PageTyped' /\ PageWritten'
  BY <1>1 DEF ActFails, PageTyped, PageWritten, known, memory, browser, history
<1> QED
  BY <1>1, <1>2, LoopInv DEF ActFails

-----------------------------------------------------------------------------
(* The person, the browser, and the whole *)

\* start, stop and confirm.
LEMMA PersonInv ==
  ASSUME AutopilotInv, Start \/ Stop \/ \E approved \in BOOLEAN : Confirm(approved)
  PROVE  AutopilotInv'
<1>0. /\ PageTyped /\ PageWritten /\ RunTyped /\ StepCeiling /\ DemoNeverAsks
      /\ RunningIsDriven
  BY InvParts
<1>1. /\ UNCHANGED <<demo, steps, known, memory, browser, history>>
      /\ seen' \in {seen, None} /\ noScroll' \in {noScroll, FALSE}
  BY DEF Start, Stop, Confirm, Answered
<1>2. PageTyped' /\ PageWritten' /\ StepCeiling'
  BY <1>0, <1>1 DEF PageTyped, PageWritten, StepCeiling, known, memory, browser, history
<1>3. CASE at' = "page_state" /\ state' = "running" /\ UNCHANGED plan /\ pending' \in {pending, None}
  <2>1. RunTyped' /\ RunningIsDriven' /\ DemoNeverAsks'
    BY <1>0, <1>1, <1>3 DEF RunTyped, RunningIsDriven, DemoNeverAsks, Waits
  <2>2. StepToSpare' /\ PlannerHasPage' /\ PlanInHand' /\ PlanWritten' /\ HandedBack'
    BY <1>3 DEF StepToSpare, PlannerHasPage, PlanInHand, PlanWritten, HandedBack
  <2> QED
    BY <1>2, <2>1, <2>2, InvPartsNext
<1>4. CASE Start
  BY <1>3, <1>4 DEF Start
<1>5. CASE Stop
  <2>1. RunTyped' /\ DemoNeverAsks' /\ at' = "none" /\ state' # "running"
    BY <1>0, <1>5 DEF Stop, RunTyped, DemoNeverAsks, Over
  <2> QED
    BY <1>2, <2>1, RestsInv
<1>6. ASSUME NEW approved \in BOOLEAN, Confirm(approved)
      PROVE  AutopilotInv'
  <2>1. CASE approved
    BY <1>3, <1>6, <2>1 DEF Confirm
  <2>2. CASE ~approved
    <3>1. at = "none"
      BY <1>0, <1>6 DEF Confirm, RunningIsDriven
    <3>2. RunTyped' /\ DemoNeverAsks' /\ at' = "none" /\ state' # "running"
      BY <1>0, <1>1, <1>6, <2>2, <3>1 DEF Confirm, RunTyped, DemoNeverAsks, Over
    <3> QED
      BY <1>2, <3>2, RestsInv
  <2> QED
    BY <2>1, <2>2
<1> QED
  BY <1>4, <1>5, <1>6

\* The page changes, is looked at, or goes: the run does not.
LEMMA PageInv ==
  ASSUME AutopilotInv, UNCHANGED run, page' \in Pages, cache' \in Pages, alive' \in BOOLEAN
  PROVE  AutopilotInv'
<1>1. RunTyped' /\ PageTyped' /\ PageWritten' /\ PlanWritten'
  BY InvParts DEF RunTyped, PageTyped, PageWritten, PlanWritten, run, known, memory, history
<1>2. /\ RunningIsDriven' /\ StepCeiling' /\ StepToSpare' /\ PlannerHasPage' /\ PlanInHand'
      /\ HandedBack' /\ DemoNeverAsks'
  BY InvParts DEF RunningIsDriven, StepCeiling, StepToSpare, PlannerHasPage, PlanInHand,
                  HandedBack, DemoNeverAsks, run
<1> QED
  BY <1>1, <1>2, InvPartsNext

\* The first state satisfies the invariant.
LEMMA InitInv == Init => AutopilotInv
<1> SUFFICES ASSUME Init PROVE AutopilotInv
  OBVIOUS
<1>1. RunTyped /\ PageTyped
  <2>1. RunTyped
    BY DEF Init, RunTyped
  <2>2. page \in Pages /\ cache \in Pages /\ clicks \in [Controls -> Nat]
    BY DEF Init
  <2>3. PageTyped
    BY <2>2 DEF Init, PageTyped
  <2> QED
    BY <2>1, <2>3
<1>2. RunningIsDriven /\ PageWritten /\ DemoNeverAsks
  BY AutopilotAssumption DEF Init, RunningIsDriven, PageWritten, DemoNeverAsks
<1>3. StepCeiling
  BY AutopilotAssumption DEF Init, StepCeiling
<1>4. StepToSpare /\ PlannerHasPage /\ PlanInHand /\ PlanWritten /\ HandedBack
  BY DEF Init, StepToSpare, PlannerHasPage, PlanInHand, PlanWritten, HandedBack
<1> QED
  BY <1>1, <1>2, <1>3, <1>4, InvParts

\* Every step keeps it.
LEMMA NextInv == AutopilotInv /\ [Next]_vars => AutopilotInv'
<1> SUFFICES ASSUME AutopilotInv, [Next]_vars PROVE AutopilotInv'
  OBVIOUS
<1>0. PageTyped
  BY InvParts
<1>1. CASE Start \/ Stop \/ \E approved \in BOOLEAN : Confirm(approved)
  BY <1>1, PersonInv
<1>2. CASE Drive
  BY <1>2, ReadsInv, LooksInv, FailsInv, AnswersInv, AnswersScrollInv, AsksInv, AsksInDemoInv,
     ActsInv, ActFailsInv DEF Drive
<1>3. CASE PageChanges \/ EventSnapshot \/ BrowserGoes
  <2>1. UNCHANGED run /\ page' \in Pages /\ cache' \in Pages /\ alive' \in BOOLEAN
    BY <1>0, <1>3 DEF PageChanges, EventSnapshot, BrowserGoes, PageTyped
  <2> QED
    BY <2>1, PageInv
<1>4. CASE UNCHANGED vars
  <2>1. UNCHANGED run /\ UNCHANGED browser
    BY <1>4 DEF vars, run, known, memory, browser, history
  <2> QED
    BY <1>0, <2>1, PageInv DEF browser, PageTyped
<1> QED
  BY <1>1, <1>2, <1>3, <1>4 DEF Next

\* The invariant of _drive holds for any planner, page and budgets.
THEOREM AutopilotInvHolds == Spec => []AutopilotInv
<1>1. Init => AutopilotInv
  BY InitInv
<1>2. AutopilotInv /\ [Next]_vars => AutopilotInv'
  BY NextInv
<1> QED
  BY <1>1, <1>2, PTL DEF Spec

\* A running run has a driver and nothing else has (start, stop and confirm against the
\* task), within the step ceiling.
THEOREM RunIsDriven == Spec => [](RunningIsDriven /\ StepCeiling)
<1>1. AutopilotInv => RunningIsDriven /\ StepCeiling
  BY DEF AutopilotInv
<1> QED
  BY <1>1, AutopilotInvHolds, PTL

\* The budgets of one page: no second click of a free-form run, and no scroll too many.
THEOREM PageBudgets == Spec => [](NoSecondClick /\ ScrollsBounded)
<1>1. AutopilotInv => NoSecondClick /\ ScrollsBounded
  <2> SUFFICES ASSUME AutopilotInv PROVE NoSecondClick /\ ScrollsBounded
    OBVIOUS
  <2>1. PageTyped /\ PageWritten
    BY InvParts
  <2>2. NoSecondClick
    BY <2>1 DEF NoSecondClick, PageWritten, PageTyped
  <2>3. ScrollsBounded
    BY <2>1, AutopilotAssumption DEF ScrollsBounded, PageWritten, PageTyped
  <2> QED
    BY <2>2, <2>3
<1> QED
  BY <1>1, AutopilotInvHolds, PTL

\* Passwords and, in a free-form run, payments are left to the person on every path to act,
\* and a demo asks for nothing else (_stopping_reason).
THEOREM PersonDecides == Spec => [](HandedBack /\ DemoNeverAsks)
<1>1. AutopilotInv => HandedBack /\ DemoNeverAsks
  BY DEF AutopilotInv
<1> QED
  BY <1>1, AutopilotInvHolds, PTL
=============================================================================
