----------------------------- MODULE Autopilot -----------------------------
(***************************************************************************)
(* One run of services/autopilot.py: plan, perform and narrate the steps   *)
(* of a task in the managed browser of its session.                        *)
(*                                                                         *)
(* _drive is a task on the event loop; it is cut at the calls it really    *)
(* waits for: page_state, snapshot, the planner and act (publishing never  *)
(* waits, nor does LocalActionPlanner).  What runs between two of them is  *)
(* one step, and `at` names the call it waits for.  Meanwhile the person   *)
(* may stop or confirm, the page may change, and the browser may go.       *)
(*                                                                         *)
(* A control stands for its label; a page for what is drawn, and Key for   *)
(* the origin, path and title by which the run knows it.                   *)
(***************************************************************************)
EXTENDS Naturals, Sequences, FiniteSets

CONSTANTS
  Controls, Pages,
  On,           \* On[p]: the controls a snapshot of page p finds
  Key,          \* Key[p]: page_key, which two drawings of a page share
  Path,         \* Path[c]: the CSS path a snapshot records for c
  Blocked,      \* pages is_provider_block recognises
  Fields,       \* text inputs the persona has a value for
  Password,     \* controls flagged as password
  Costly,       \* controls flagged as payment or bank
  Withheld,     \* controls _is_never_offered recognises
  LabelClass,   \* LabelClass[c]: _candidate_safety
  Named,        \* Named[c]: the row the goal names when the plan took c, or None
  MaxSteps,     \* max_steps (24)
  MaxScrolls,   \* _MAX_SCROLLS_PER_PAGE (4)
  MaxQuestions, \* answered_questions before a demo gives up (6)
  None

Classes == {"safe", "other", "stops"}  \* _STOPPING_CLASSIFICATIONS are "stops"
Targeted == {"click", "fill", "press"} \* select and check are as press
Kinds == Targeted \cup {"scroll", "navigate", "done"}
Plan == [action : Kinds, target : Controls \cup {None}]

ASSUME AutopilotAssumption ==
  /\ On \in [Pages -> SUBSET Controls]
  /\ DOMAIN Key = Pages /\ DOMAIN Path = Controls
  /\ LabelClass \in [Controls -> Classes]
  /\ Named \in [Controls -> Controls \cup {None}]
  /\ Fields \subseteq Controls /\ Fields \cap (Password \cup Costly) = {}
  /\ MaxSteps \in Nat \ {0} /\ MaxScrolls \in Nat /\ MaxQuestions \in Nat
  /\ None \notin Controls \cup Pages \cup Plan \cup {"question", "password", "irreversible"}

VARIABLES
  state,     \* run.state, "none" before start
  demo,      \* run.persona is set
  at,        \* the call _drive waits for, "none" when there is no task
  steps,     \* run.steps, told apart only as scrolls and others
  plan,      \* the plan being performed
  seen,      \* the page whose candidates the planner was given
  noScroll,  \* the planner is asked again, with scrolling off the table
  pageKey, tried, typed, scrolls,           \* what the run knows of the page
  clicked, filled, asked,                   \* and remembers across pages
  pending,   \* why a paused run waits
  page, cache, alive,      \* the browser: its page, the page selector_cache
                           \* was taken from, and whether it is attached
  clicks, scrolled         \* history: acts since the page key last changed

known   == <<pageKey, tried, typed, scrolls>>
memory  == <<clicked, filled, asked>>
browser == <<page, cache, alive>>
history == <<clicks, scrolled>>
vars == <<state, demo, at, steps, plan, seen, noScroll, known, memory, pending,
          browser, history>>

Over == {"completed", "failed", "stopped"}
Waits == {"page_state", "snapshot", "planner", "act", "page_state_after"}

TypeOK ==
  /\ state \in Over \cup {"none", "running", "needs_confirmation"}
  /\ demo \in BOOLEAN
  /\ at \in Waits \cup {"none"}
  /\ steps \in Seq({"scroll", "other"})
  /\ plan \in Plan \cup {None}
  /\ seen \in Pages \cup {None}
  /\ noScroll \in BOOLEAN
  /\ tried \subseteq Controls /\ typed \subseteq Controls
  /\ scrolls \in Nat
  /\ clicked \subseteq Controls /\ filled \subseteq Fields
  /\ asked \in Nat
  /\ pending \in {None, "question", "password", "irreversible"}
  /\ page \in Pages /\ cache \in Pages /\ alive \in BOOLEAN
  /\ clicks \in [Controls -> Nat] /\ scrolled \in Nat

\* attach_browser has opened the page and taken a first snapshot.
Init ==
  /\ state = "none" /\ at = "none" /\ demo \in BOOLEAN
  /\ steps = <<>> /\ plan = None /\ seen = None /\ noScroll = FALSE
  /\ pageKey = None /\ tried = {} /\ typed = {} /\ scrolls = 0
  /\ clicked = {} /\ filled = {} /\ asked = 0
  /\ pending = None
  /\ page \in Pages \ Blocked /\ cache = page /\ alive = TRUE
  /\ clicks = [c \in Controls |-> 0] /\ scrolled = 0

-----------------------------------------------------------------------------
(* The ends of a stretch of _drive *)

Finish(to) == state' = to /\ at' = "none" /\ plan' = None /\ UNCHANGED pending

Fail == Finish("failed") /\ UNCHANGED steps

\* The plan is done: the last step says so.
Complete == Finish("completed") /\ steps' = Append(steps, "other")

\* What the planner was given is forgotten.
Answered == seen' = None /\ noScroll' = FALSE

\* _pause: the question is a step of its own.
Pause(why) ==
  /\ state' = "needs_confirmation" /\ at' = "none" /\ pending' = why
  /\ steps' = Append(steps, "other")
  /\ plan' = None

\* Mutant of LoopsWhile: the ceiling is tested one step late.
LoopsWhileLate(isBlocked) == ~isBlocked /\ Len(steps) <= MaxSteps

LoopsWhile(isBlocked) == ~isBlocked /\ Len(steps) < MaxSteps

\* The head of the loop, and what follows it.
Loop(isBlocked) ==
  /\ at' = IF LoopsWhile(isBlocked) THEN "snapshot" ELSE "none"
  /\ state' = IF LoopsWhile(isBlocked) THEN state ELSE "failed"
  /\ plan' = None
  /\ UNCHANGED <<steps, pending>>

Perform(p) ==
  /\ plan' = [action |-> p.action, target |-> p.target] /\ at' = "act"
  /\ steps' = Append(steps, IF p.action = "scroll" THEN "scroll" ELSE "other")
  /\ UNCHANGED <<state, pending>>

\* Mutant of Blocker: a demo is let through before the password is looked at.
BlockerAfterDemo(p) ==
  IF demo THEN None
  ELSE IF p.target \in Password THEN "password"
  ELSE IF p.class = "stops" \/ p.target \in Costly THEN "irreversible"
  ELSE None

\* _stopping_reason
Blocker(p) ==
  IF p.target \in Password THEN "password"
  ELSE IF ~demo /\ (p.class = "stops" \/ p.target \in Costly) THEN "irreversible"
  ELSE None

CarryOut(p) == IF Blocker(p) = None THEN Perform(p) ELSE Pause(Blocker(p))

\* _refresh_page; page_state may raise.  A page that was refused ends the run at once.
Reads ==
  /\ at \in {"page_state", "page_state_after"}
  /\ \/ Loop(FALSE) /\ UNCHANGED <<known, history>>
     \/ /\ alive
        /\ Loop(page \in Blocked)
        /\ pageKey' = Key[page]
        /\ IF pageKey' = pageKey
           THEN UNCHANGED <<tried, typed, scrolls, history>>
           ELSE /\ tried' = {} /\ typed' = {} /\ scrolls' = 0
                /\ clicks' = [c \in Controls |-> 0] /\ scrolled' = 0
  /\ UNCHANGED <<demo, seen, noScroll, memory, browser>>

-----------------------------------------------------------------------------
(* The person *)

Start ==
  /\ state = "none"
  /\ state' = "running" /\ at' = "page_state"
  /\ UNCHANGED <<demo, steps, plan, seen, noScroll, known, memory, pending, browser,
                 history>>

\* Mutant of Stop: the task is not cancelled.
StopOnlySays ==
  /\ state # "none"
  /\ state' = IF state = "running" THEN "stopped" ELSE state
  /\ UNCHANGED <<at, demo, steps, plan, seen, noScroll, known, memory, pending, browser,
                 history>>

\* The task is cancelled wherever it waits, and awaited.
Stop ==
  /\ state # "none"
  /\ state' = IF state = "running" THEN "stopped" ELSE state
  /\ at' = "none" /\ plan' = None /\ Answered
  /\ UNCHANGED <<demo, steps, known, memory, pending, browser, history>>

Confirm(approved) ==
  /\ state = "needs_confirmation"
  /\ pending' = None
  /\ IF approved THEN state' = "running" /\ at' = "page_state"
                 ELSE state' = "stopped" /\ UNCHANGED at
  /\ UNCHANGED <<demo, steps, plan, seen, noScroll, known, memory, browser, history>>

-----------------------------------------------------------------------------
(* The driver *)

\* snapshot raises, at the latest because the browser is gone.
SnapshotRaises ==
  /\ at = "snapshot"
  /\ Fail
  /\ UNCHANGED <<demo, seen, noScroll, known, memory, browser, history>>

Unfilled(p) == (On[p] \cap Fields) \ filled

\* The candidates are there; a demo types its own details before it asks a planner.
Looks ==
  /\ at = "snapshot" /\ alive
  /\ cache' = page
  /\ \/ /\ demo
        /\ \E c \in Unfilled(page) :
             /\ filled' = filled \cup {c}
             /\ CarryOut([action |-> "fill", target |-> c, class |-> "safe"])
        /\ UNCHANGED seen
     \/ /\ ~demo \/ Unfilled(page) = {}
        /\ at' = "planner" /\ seen' = page
        /\ UNCHANGED <<state, steps, plan, pending, filled>>
  /\ UNCHANGED <<demo, noScroll, known, clicked, asked, page, alive, history>>

\* Mutant of Offered: what was tried is offered again.
OfferedAgain == On[seen] \ Withheld

Offered == (On[seen] \ tried) \ Withheld

\* LocalActionPlanner: which control scores best is left open.
Local(candidates) ==
  LET buttons == candidates \ (Fields \cup Password \cup Costly) IN
  {[action |-> "click", target |-> c, class |-> LabelClass[c]] : c \in buttons}
  \cup {[action |-> "fill", target |-> c, class |-> LabelClass[c]] :
          c \in candidates \cap Fields}
  \cup {[action |-> "done", target |-> None, class |-> "safe"], None}

\* A click: the row the goal names wins over a sibling, once.
TakeClick(p) ==
  LET named == IF p.target # None /\ Named[p.target] \in Offered \ clicked
               THEN Named[p.target] ELSE None
      moved == [p EXCEPT !.target = named,
                         !.class = IF @ = "safe" THEN LabelClass[named] ELSE @]
      final == IF named = None THEN p ELSE moved
      target == {final.target} \ {None}
  IN /\ tried' = tried \cup target /\ clicked' = clicked \cup target
     /\ CarryOut(final)
     /\ UNCHANGED <<typed, scrolls>>

\* A fill: the same text a second time is submitted instead.
TakeFill(p) ==
  /\ IF p.target \in typed
     THEN tried' = tried \cup {p.target} /\ CarryOut([p EXCEPT !.action = "press"])
          /\ UNCHANGED typed
     ELSE typed' = typed \cup ({p.target} \ {None}) /\ CarryOut(p) /\ UNCHANGED tried
  /\ UNCHANGED <<clicked, scrolls>>

TakeScroll ==
  /\ scrolls' = scrolls + 1
  /\ CarryOut([action |-> "scroll", target |-> None, class |-> "safe"])
  /\ UNCHANGED <<tried, typed, clicked>>

\* The rest of _plan and of the loop body, for a plan that is no question.
Take(p) ==
  \/ p.action = "click" /\ TakeClick(p)
  \/ p.action = "fill" /\ TakeFill(p)
  \/ p.action \in {"press", "navigate"} /\ CarryOut(p)
     /\ UNCHANGED <<tried, typed, clicked, scrolls>>
  \/ p.action = "done" /\ Complete /\ UNCHANGED <<tried, typed, clicked, scrolls>>

\* The planner raises, times out, or has no usable plan.
NoPlan ==
  /\ at = "planner"
  /\ Fail /\ Answered
  /\ UNCHANGED <<demo, known, memory, browser, history>>

\* The planner answers with anything but a question or a scroll.  It can only name a
\* candidate it was shown, or an id there is not.
Answers ==
  /\ at = "planner"
  /\ \E action \in Kinds \ {"scroll"}, class \in Classes, target \in Offered \cup {None} :
       /\ action \notin Targeted => target = None
       /\ Take([action |-> action, target |-> target, class |-> class])
  /\ Answered
  /\ UNCHANGED <<demo, pageKey, filled, asked, browser, history>>

LastTwoScrolled ==
  /\ Len(steps) >= 2
  /\ \A i \in {Len(steps) - 1, Len(steps)} : steps[i] = "scroll"

Exhausted == scrolls >= MaxScrolls

\* The planner wants to scroll.
AnswersScroll ==
  /\ at = "planner"
  /\ \/ /\ ~(noScroll \/ Exhausted)
        /\ IF LastTwoScrolled
           THEN /\ noScroll' = TRUE  \* it is asked again
                /\ UNCHANGED <<state, at, steps, plan, seen, pending, tried, typed,
                               clicked, scrolls>>
           ELSE TakeScroll /\ Answered
     \/ /\ noScroll \/ Exhausted
        /\ \E fallback \in Local(Offered) :
             \/ fallback # None /\ Take(fallback)
             \/ fallback = None /\ ~Exhausted /\ TakeScroll
             \/ fallback = None /\ Exhausted /\ Fail
                /\ UNCHANGED <<tried, typed, clicked, scrolls>>
        /\ Answered
  /\ UNCHANGED <<demo, pageKey, filled, asked, browser, history>>

\* The planner asks the person.
Asks ==
  /\ at = "planner" /\ ~demo
  /\ Pause("question") /\ Answered
  /\ UNCHANGED <<demo, known, memory, browser, history>>

\* Mutant of GivesUp: a demo that is only asked questions goes on.
NeverGivesUp == FALSE

GivesUp == asked + 1 > MaxQuestions

\* In a demo the deterministic planner takes the step instead, from all candidates, and
\* what it takes is not written down.  If it has none, the loop goes round.  (More than
\* MaxQuestions + 1 questions need not be told apart.)
AsksInDemo ==
  /\ at = "planner" /\ demo
  /\ asked' = IF asked > MaxQuestions THEN asked ELSE asked + 1
  /\ \E forced \in Local(On[seen]) :
       \/ forced # None /\ CarryOut(forced)
       \/ forced = None /\ GivesUp /\ Fail
       \/ forced = None /\ ~GivesUp /\ Loop(FALSE)
  /\ Answered
  /\ UNCHANGED <<demo, known, clicked, filled, browser, history>>

\* The control that a targeted plan reaches on the page as it is by then.
Landing(p) == {c \in On[page] : p.target \in On[cache] /\ Path[c] = Path[p.target]}

\* act: the browser is gone; or the target is, or cannot be reached.
ActRaises ==
  /\ at = "act" /\ ~alive
  /\ Fail
  /\ UNCHANGED <<demo, seen, noScroll, known, memory, browser, history>>

ActFails ==
  /\ at = "act" /\ alive
  /\ Loop(FALSE)
  /\ UNCHANGED <<demo, seen, noScroll, known, memory, browser, history>>

\* The action reaches the page, which may change; it may still be reported as failed.
Acts ==
  /\ at = "act" /\ alive /\ plan.action # "done"
  /\ plan.action \in Targeted => Landing(plan) # {}
  /\ IF plan.action \in {"click", "press", "navigate"} THEN page' \in Pages
                                                       ELSE UNCHANGED page
  /\ clicks' = IF plan.action = "click" THEN [clicks EXCEPT ![plan.target] = @ + 1]
                                        ELSE clicks
  /\ scrolled' = IF plan.action = "scroll" THEN scrolled + 1 ELSE scrolled
  /\ \/ at' = "page_state_after" /\ plan' = None /\ UNCHANGED <<state, steps, pending>>
     \/ Loop(FALSE)
  /\ UNCHANGED <<demo, seen, noScroll, known, memory, cache, alive>>

Drive ==
  \/ Reads
  \/ Looks \/ SnapshotRaises
  \/ Answers \/ AnswersScroll \/ Asks \/ AsksInDemo \/ NoPlan
  \/ Acts \/ ActFails \/ ActRaises

-----------------------------------------------------------------------------
(* The browser *)

run == <<state, demo, at, steps, plan, seen, noScroll, known, memory, pending, history>>

\* What the browser does before and after the run does not matter to it.
Going == state \in {"running", "needs_confirmation"}

\* The site or the person changes what is drawn.
PageChanges ==
  /\ Going
  /\ alive
  /\ page' \in Pages \ {page}
  /\ UNCHANGED <<cache, alive, run>>

\* An observed event or navigation takes a snapshot of its own.
EventSnapshot ==
  /\ Going
  /\ alive /\ cache # page
  /\ cache' = page
  /\ UNCHANGED <<page, alive, run>>

\* stop_browser
BrowserGoes ==
  /\ Going
  /\ alive
  /\ alive' = FALSE
  /\ UNCHANGED <<page, cache, run>>

Next ==
  \/ Start
  \/ Stop
  \/ \E approved \in BOOLEAN : Confirm(approved)
  \/ Drive
  \/ PageChanges
  \/ EventSnapshot
  \/ BrowserGoes

Spec == Init /\ [][Next]_vars
=============================================================================
