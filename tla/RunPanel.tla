------------------------------- MODULE RunPanel -------------------------------
(***************************************************************************)
(* The task dashboard of web/src/agent beside the run it shows.  The run   *)
(* is driven by services/autopilot.py (module Autopilot); here it only     *)
(* steps, pauses and ends.  The panel learns of it in four ways: the event *)
(* stream of the session, a poll, and the answers to confirm and stop.     *)
(* Each may be lost, and each carries a view of the run as it was when it  *)
(* was made.                                                               *)
(***************************************************************************)
EXTENDS Integers, Sequences

CONSTANTS
  QueueSize,   \* event_hub's maxsize (20)
  MaxUpdates,  \* steps and pauses of the run (a bound)
  MaxLosses,   \* streams, requests and answers lost (a bound)
  MaxRestarts  \* restarts of the backend (a bound)

ASSUME RunPanelAssumption ==
  QueueSize \in Nat \ {0} /\ MaxUpdates \in Nat /\ MaxLosses \in Nat /\ MaxRestarts \in Nat

VARIABLES
  run,      \* what AgentRun.view() returns: state, and how many updates came before
  known,    \* the run is in _runs
  browser,  \* its browser is attached
  shown,    \* the view the panel shows
  stream,   \* the panel's session stream, with the hub's queue of views for it
  poll,     \* GET of the run: its view once it is answered
  post,     \* confirm or stop, busy while it is under way
  losses, restarts

vars == <<run, known, browser, shown, stream, poll, post, losses, restarts>>

Over == {"completed", "failed", "stopped"}
Idle == [at |-> "none"]

Init ==
  /\ run = [state |-> "running", update |-> 0]
  /\ known = TRUE /\ browser = TRUE
  /\ shown = run
  /\ stream = [at |-> "retry", queue |-> <<>>]
  /\ poll = Idle /\ post = Idle
  /\ losses = 0 /\ restarts = 0

-----------------------------------------------------------------------------
(* The run *)

\* _publish: a full queue loses its oldest view.
Publish(view) ==
  stream' = IF stream.at # "up" THEN stream
            ELSE LET all == Append(stream.queue, view)
                     lost == IF Len(all) > QueueSize THEN 1 ELSE 0
                 IN [stream EXCEPT !.queue = SubSeq(all, 1 + lost, Len(all))]

Becomes(state) ==
  /\ run' = [state |-> state, update |-> run.update + 1]
  /\ Publish(run')

Drives == known /\ run.state = "running" /\ run.update < MaxUpdates

Steps ==
  /\ Drives /\ browser
  /\ Becomes("running")
  /\ UNCHANGED <<known, browser, shown, poll, post, losses, restarts>>

Pauses ==
  /\ Drives /\ browser
  /\ Becomes("needs_confirmation")
  /\ UNCHANGED <<known, browser, shown, poll, post, losses, restarts>>

\* Without a browser the next call of _drive raises, and the run fails.
Finishes ==
  /\ known /\ run.state = "running"
  /\ Becomes("failed") \/ (browser /\ Becomes("completed"))
  /\ UNCHANGED <<known, browser, shown, poll, post, losses, restarts>>

-----------------------------------------------------------------------------
(* The stream *)

\* The stream first carries the session's state, which the panel ignores, and then what is
\* published from here on.
Subscribes ==
  /\ stream.at = "retry"
  /\ stream' = [at |-> "up", queue |-> <<>>]
  /\ UNCHANGED <<run, known, browser, shown, poll, post, losses, restarts>>

Delivered ==
  /\ stream.at = "up" /\ stream.queue # <<>>
  /\ shown' = Head(stream.queue)
  /\ stream' = [stream EXCEPT !.queue = Tail(@)]
  /\ UNCHANGED <<run, known, browser, poll, post, losses, restarts>>

\* The panel tries again only if the run it shows is running.
Lost ==
  [at |-> IF shown.state = "running" THEN "retry" ELSE "given_up", queue |-> <<>>]

StreamDrops ==
  /\ stream.at = "up" /\ losses < MaxLosses
  /\ losses' = losses + 1
  /\ stream' = Lost
  /\ UNCHANGED <<run, known, browser, shown, poll, post, restarts>>

-----------------------------------------------------------------------------
(* The poll: every ten seconds while a running run is shown.  (One at a time.) *)

\* Mutant of Polls: the poll stands in for a stream that is down.
PollsWithoutStream ==
  /\ poll.at = "none" /\ shown.state = "running" /\ stream.at # "up"
  /\ poll' = [at |-> "asked"]
  /\ UNCHANGED <<run, known, browser, shown, stream, post, losses, restarts>>

Polls ==
  /\ poll.at = "none" /\ shown.state = "running"
  /\ poll' = [at |-> "asked"]
  /\ UNCHANGED <<run, known, browser, shown, stream, post, losses, restarts>>

\* 404 when the backend has restarted; the panel ignores that.
PollServed ==
  /\ poll.at = "asked"
  /\ poll' = IF known THEN [at |-> "answered", view |-> run] ELSE Idle
  /\ UNCHANGED <<run, known, browser, shown, stream, post, losses, restarts>>

PollArrives ==
  /\ poll.at = "answered"
  /\ shown' = poll.view
  /\ poll' = Idle
  /\ UNCHANGED <<run, known, browser, stream, post, losses, restarts>>

PollLost ==
  /\ poll.at # "none" /\ losses < MaxLosses
  /\ losses' = losses + 1
  /\ poll' = Idle
  /\ UNCHANGED <<run, known, browser, shown, stream, post, restarts>>

-----------------------------------------------------------------------------
(* The buttons *)

\* Stop is shown while the run is, the two answers while it waits for one.
Buttons ==
  CASE shown.state = "running" -> {"stop"}
    [] shown.state = "needs_confirmation" -> {"approve", "refuse"}
    [] OTHER -> {}

Presses(do) ==
  /\ post.at = "none" /\ do \in Buttons
  /\ post' = [at |-> "asked", do |-> do]
  /\ UNCHANGED <<run, known, browser, shown, stream, poll, losses, restarts>>

\* Mutant of Confirmed: whatever state the run is in, the answer is taken.
ConfirmedAnyway ==
  IF post.do = "approve" THEN Becomes("running") ELSE Becomes("stopped")

\* AutopilotService.confirm: which pause is meant, the request does not say.
Confirmed ==
  IF run.state # "needs_confirmation" THEN UNCHANGED <<run, stream>>
  ELSE IF post.do = "approve" THEN Becomes("running") ELSE Becomes("stopped")

\* A run that waits for an answer goes on waiting for it.
Stopped == IF run.state = "running" THEN Becomes("stopped") ELSE UNCHANGED <<run, stream>>

PostServed ==
  /\ post.at = "asked"
  /\ \/ ~known /\ post' = Idle /\ UNCHANGED <<run, browser, stream>>
     \/ known /\ post.do # "stop" /\ Confirmed /\ UNCHANGED browser
        /\ post' = [at |-> "answered", view |-> run']
     \/ known /\ post.do = "stop" /\ Stopped /\ browser' = FALSE
        /\ post' = [at |-> "answered", view |-> run']
  /\ UNCHANGED <<known, shown, poll, losses, restarts>>

PostArrives ==
  /\ post.at = "answered"
  /\ shown' = post.view
  /\ post' = Idle
  /\ UNCHANGED <<run, known, browser, stream, poll, losses, restarts>>

\* Lost on its way there or back, or timed out; the panel waits for the stream.
PostLost ==
  /\ post.at # "none" /\ losses < MaxLosses
  /\ losses' = losses + 1
  /\ post' = Idle
  /\ UNCHANGED <<run, known, browser, shown, stream, poll, restarts>>

-----------------------------------------------------------------------------
\* Runs are in memory.
Restart ==
  /\ restarts < MaxRestarts
  /\ restarts' = restarts + 1
  /\ known' = FALSE /\ browser' = FALSE
  /\ stream' = IF stream.at = "up" THEN Lost ELSE stream
  /\ poll' = Idle /\ post' = Idle
  /\ UNCHANGED <<run, shown, losses>>

Next ==
  \/ Steps \/ Pauses \/ Finishes
  \/ Subscribes \/ Delivered \/ StreamDrops
  \/ Polls \/ PollServed \/ PollArrives \/ PollLost
  \/ \E do \in {"approve", "refuse", "stop"} : Presses(do)
  \/ PostServed \/ PostArrives \/ PostLost
  \/ Restart

\* Timers fire, and what is not lost arrives.  Nobody has to press anything, and the run
\* may take as long as it likes.
Fairness ==
  /\ WF_vars(Subscribes) /\ WF_vars(Delivered)
  /\ WF_vars(Polls) /\ WF_vars(PollServed) /\ WF_vars(PollArrives)
  /\ WF_vars(PostServed) /\ WF_vars(PostArrives)

Spec == Init /\ [][Next]_vars /\ Fairness
=============================================================================
