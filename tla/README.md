# Verification of WebAccessible

TLA+ models of the WebAccessible backend (`src/backend/app`), the configurations
TLC checks them with, and proofs checked by TLAPS. Paths below are relative to
`src/backend/app` unless they start with `src/`.

WebAccessible guides a person through a task on a web page, one step at a time,
in a managed browser. One FastAPI process keeps the sessions. It runs handlers as
coroutines on one event loop, keeps operational rows in SQLite, and calls four
services that may be slow, fail, or answer late: the browser provider
(Browserbase), a language model, the memory service EverOS, and Snowflake for
telemetry. An optional worker process releases browsers nobody holds.

## 1. Inventory

| component | state it keeps | operations | what is hard | what makes it correct |
|---|---|---|---|---|
| session graph: `domain/sessions.py` | a table of allowed transitions | `ensure_transition` | handlers ask for rows the table lacks | an end is final; what handlers promise can happen |
| orchestrator: `services/orchestrator.py`, `services/guidance.py` | the session row, the awaited step, the panel command, recorded steps, escalations, background tasks | `attach_browser`, `stop_browser`, `handle_event`, `begin_guidance`, escalation, completion, `abandon` | handlers cut at awaits, redelivered events, a restart | one outcome; a repeated event changes nothing; one current target; the browser is given back |
| connection pool: `integrations/snowflake/client.py` | idle connections, the count of leases, `closed` | `acquire`, `release`, `close` | threads, failed logins, timeouts, close during login | bound, ownership, nothing left logged in, no lost wakeup |
| outbox: `services/telemetry.py`, `persistence/repository.py` | rows `pending`, `failed`, `synced`; retry times | `flush`, `sync_bounded`, `start`, `stop` | lost answers, retries in any order, rejected rows, restart between merge and mark | at-least-once delivery, drain, orderly stop |
| autopilot: `services/autopilot.py` | a run's state, its steps, its memory of the page | `start`, `_drive`, `stop`, `confirm` | the page changes between plan and act; the person interrupts; an arbitrary planner | budgets, hand-back of passwords and money, coming to rest |
| browser lease: `browser/controller.py`, `services/browser_reconciliation.py`, `workers/`, `integrations/browserbase/` | provider sessions, `browser_sessions` rows, runtimes | start, stop, sweep at boot, worker passes | two processes, stale lists, crashes between create and save | no browser in use is released; none is lost; `stopped` means confirmed |
| reminders and event hub: `services/proactive.py`, `services/event_hub.py`, `api/routes.py`, `src/web/src/agent/TaskLauncher.tsx` | watchers, announced reminders, bounded queues, the launcher's list | attach, detach, evaluate, publish, subscribe; list, dismiss, accept | attach before subscribe; scans cut by EverOS; streams lost unnoticed | watchers are counted; a dismissed reminder returns; a start settles the reminder of its task |
| routines and skills: `list_routines`, revisions | a cache per participant; skills in EverOS | list, revise, delete | a failing EverOS leaves the starters in the cache | what is listed can be opened |
| dashboard: `src/web/src/agent/AgentDashboard.tsx` | the run it shows, a stream, a poll, a request | subscribe, poll, confirm, stop | four sources of the run's state, each late or lost | an ended run stays ended; the panel notices the end |
| memory of a task: `_complete`, `save_teach_run` | the session's sync state, the ledger, what EverOS extracted | save, search, record, summarise | EverOS indexes at its own pace; a restart half way | ready means replayable; the person hears of the end |
| recall: `services/recall.py`, `services/activity_memory.py` | an answer cache, the ledger, consent | answer | concurrent questions, cached answers | answers are not older than the waits allow |
| profile: `update_profile`, `create_participant_session` | items in EverOS, `profile_sync` | read, bootstrap, edit | two tabs read before either writes | a lone write heals |
| memory command line: `cli/memory.py` | none of its own; EverOS's skills | list, show, revise, delete, search, upload | two reads, failures in several layers | exit code and receipt are true |
| guidance: `begin_guidance`, `services/guidance.py`, `services/replay.py`, `domain/safety.py`, `services/scam_shield.py`, `services/cost_calculator.py` | what was seen, a verdict, the ledger of model calls | snapshot, resolve, decide, judge, highlight, record | the page changes between reads; three commits; a failing classifier | what is shown was judged; a refusal stands; the ledger is complete |
| stuck detector: `services/stuck_detector.py` | counters, last activity, cooldowns | `observe` | clocks and thresholds | fires once per episode |
| dashboards, personas, local browser, deployment scripts | none that interleaves here | | text, SQL, rendering | outside the models |

How they meet: the API calls the orchestrator and the autopilot. Both act through the
browser controller. The controller's listener feeds `SessionEvent`s back into
`handle_event`. The orchestrator publishes on the event hub, writes outbox rows, and
calls guidance, replay and repair. Telemetry drains the outbox through the pool. A
stream of the participant attaches to the reminders and subscribes to the hub before any
session exists. EverOS is reached by the reminders (routines), by a session that ends
(saving), by questions, by every new participant session (profile) and by the command
line, with nothing that orders them. The reconciliation service reads the controller's
rows with a SQLite connection of its own. The full list, with what is left out of each
part, is in `PROJECT.json`.

## 2. Modules

| module | what it models |
|---|---|
| `Sessions` | the states and `ALLOWED_TRANSITIONS`, row by row |
| `Orchestrator` | one session with every handler that changes it |
| `SessionLifecycle` | the abstract promise: a session ends once, and that end is reported at most once |
| `ConnectionPool` | `SnowflakeConnectionPool` as `_execute_sync` uses it |
| `Outbox`, `Delivery` | the outbox and its drain; the abstract at-least-once channel |
| `Autopilot` | one autonomous run, its planner and its page |
| `BrowserLease` | controller starts and stops, the sweep at boot, the worker, the provider |
| `ActivityPatterns` | functions: what is inferred from the starts of a task, and when it is due |
| `Reminders` | the participant's stream, scans, hub queues, reminder requests and the launcher |
| `RunPanel` | the dashboard beside the run it shows |
| `EverOSErrors` | what a fault of the EverOS SDK becomes on its way up |
| `TeachMemory`, `Recall` | a completed task becomes memory; questions about it meanwhile |
| `Profile` | `update_profile` of several tabs |
| `MemoryTool` | the memory command line on skills that EverOS is making |
| `Guidance` | one decision inside `begin_guidance` |

`XProps` states the properties of `X`, `XProofs` holds its theorems, `MCX` fixes
the constants for TLC (`MemoryToolProps` and `ConnectionPoolProps` need none). `ScreensProofs` holds the theorems
about what a participant's screens show (`Reminders` and `RunPanel`), `EverOSProofs` those
about what is kept in EverOS (`TeachMemory`, `Recall`, `MemoryTool` and `Profile`); each
extends the first of its components and takes the others by `INSTANCE`. `Reminders` extends
`ActivityPatterns`, `Recall` extends `TeachMemory`, and the three modules about EverOS
extend `EverOSErrors`. `PROJECT.json` maps each definition to its lines.

**Orchestrator.** Every handler takes the session's asyncio lock, reads the row
once, and works on with that copy. A handler is cut where it awaits, and a step of
the model is what runs between two awaits. `lock` names the await at which the
holder stands and `view` is the copy it read. `stop_browser` takes no lock. Tasks
started with `create_task` that do not have the lock yet are counted in `tasks`. A
crash keeps the SQLite rows and loses everything else. The write of a recorded
step and the caregiver's record of it are one action, since nothing awaits between
them. `BrowserStop` is one action here; its parts are in `BrowserLease`. The
`ValueError` of a record written without a runtime falls under the fault
`"provider"`. Telemetry of single steps is left out; the routine cache is in `Reminders`,
the save in `TeachMemory`, the decision in `Guidance`.

**ConnectionPool.** A step is what a thread does between taking and leaving the
condition's lock. Login and close run outside it. `threading.Condition` is modelled
from how CPython's `wait` and `notify` behave: a thread that timed out stays in the
waiters until it has the lock again. Closing an idle connection happens outside the
lock, so for a moment more than `max_size` connections may be open; the bound is
about idle and leased ones.

**Outbox.** `Log` is what the program writes, in order. `doing` is where a row's
send is: nothing, sending, or merged with the answer under way. A crash may fall
between the merge and `mark_outbox_synced`. Retry times are untimed: a failed row
becomes due at some later point. Rate card rows and two rows with one stable key
are left out, since the key makes the second a no-op.

**Autopilot.** `_drive` is cut at `page_state`, `snapshot`, the planner and `act`.
A control stands for its label and its element id. A page is what is drawn, and two
drawings may share the key by which the run knows the page. How
`LocalActionPlanner` scores a control is open: any control it is given may win. A
planner names only ids it was shown. `select`, `check` and `wait` are as `press`. A
forced `done` is performed as an unsupported action, as in the code. A click that
was sent before a cancellation may still be carried out; the model cuts at the
answer. A second run of the same session starts afresh and is not modelled.

**BrowserLease.** The controller's lock allows one start or stop at a time. Creating
the provider session, attaching, saving the row and confirming it are separate
steps, and any of them may fail. Each sweep lists the sessions, judges them by one
snapshot of the rows, confirms its verdict by a second, and then terminates one
after another within `max_terminations`. Ages are told apart as the policy does:
young, grown, expired, past the lease. Every write of the controller may raise
(`browser/controller.py:394`, `:400`, `:626`, `:630`): `StartUnwritten` leaves a runtime
without its row or with one that never becomes `connected`, `StopUnwritten` leaves the row as
it was. `slow`, `unwritten` (browsers the controller last failed to write about) and
`survivors` are history; what the writes leave behind is excepted by name in the properties
and nowhere assumed away. The dry run, sessions of another environment and the report are left out.

**Reminders.** A participant is a set of tabs, each with its consent. `streams` holds
every stream ever opened and where it stands: attaching, subscribed, ended, or
abandoned when it was cancelled inside `attach`. `watcher` is the entry of `_watchers`
with its count and its announced reminders, `scan` an evaluation that waits for EverOS.
An evaluation is one step when the routine cache is warm and two when it is cold; that
is where the code awaits. Reminders due at the same time are published in any order.
What is due is not state: `DueNow` computes it from the starts in the ledger, the offered
routines and the clock, as the service does. Starts are rare, so `DueAt` tabulates it. A start names any routine the
launcher offers, so "Yes, do it" starts the routine the reminder names, which may be another
task than the one it is about (`services/activity_memory.py:349`). `Restart` loses watchers and cache and keeps the ledger.
A zone is a fixed offset and years are common; daylight saving and leap days are left out.

**RunPanel.** The run is reduced to what `view()` shows: its state and how many updates
came before. Stream, poll and request each carry a view from the time they were made.
The hub's queue drops its oldest view when it is full, as `publish` does.

**TeachMemory and Recall.** `save` is where `_complete` is. EverOS keeps which sessions
were flushed, which have a case or an episode, and skills with the cases they came from
and whether their content can be read. It makes them when it likes. `Recall` adds
questions: the ledger and EverOS are read side by side, a sentence is phrased, and the
answer is cached when it is finished. A read of the ledger that fails counts as an empty
history, and its answer is cached like any other (`services/recall.py:281`). Time is counted
in ticks. The search and the model have their timeouts of the code; the read of the ledger
has none, so `LedgerTime` stands for the longest one there is. Ranking of tasks by words is
replaced by the task a question is about.

**Profile.** An item is a field, a value and the request that added it, so duplicates
exist. `update_profile` is cut at its read, its bootstrap conversation, its polls and
its edit. `session` is what the answer of `create_participant_session` said of it. An edit that needs
more than `MaxOperations` (50 in the code) is refused before the call; a receipt that counts
nothing is taken for a whole edit.

**MemoryTool.** A run of the tool is checked, calls EverOS and exits. It starts with settings
that are good, lack EverOS's key, or do not validate at all, which `main` reports as content of
EverOS. `had` is history: the documents there were when it began. A skill may be there, be
good enough for a summary (`listed`), or validate as a `SkillDocument` (`valid`), as two
functions of the client judge it. Listing reads one page. Revising and deleting always end in "unsupported", as EverOS has no such call.

**Guidance.** One call goes through `snapshot`, `frames`, then the replay or the model,
the three commits of the ledger, the triage of a refusal, and the highlight. `page` may
navigate or be redrawn between any two of them. Element ids stay with the element when a
script draws it anew (`candidate_extractor.py:105`), so the highlight may find the id
that was judged on a control that has changed; `PresentedWhereJudged` says what remains
true. A control inside a frame is listed but not found by the highlight script. An
answer of the model that is invalid is recorded without its tokens. A control carries a set of
flags, and the policy asks about passwords before anything else. A row of the ledger may be
refused by the store (`WriteFails`): a decision then becomes a failure and is recorded again
(stage `failed`), and a failure that cannot be recorded leaves the handler as an exception.
A request that is cancelled ends like a process that dies (`Dies`).

## 3. Runs

### Runs that pass

| run | instance | what it shows |
|---|---|---|
| `session_safety` | three event ids, two candidates, a routine of two steps, two abandons, failing calls, a restart | the lock protects the row, one outcome, steps follow accepted actions, two failures stop a replay, the awaited step is the row's, an end is final and reported, or its task is still to run, a pause needs a person, and `SessionLifecycle` is implemented |
| `pool_safety` | three threads, two slots, three connections, fairness | leases are counted, a connection has one place, a closed pool is empty and in the end has logged out |
| `outbox_safety` | three rows (attached, refused, terminated), batches of two, two at a time, one restart, fairness | `Delivery` is implemented, columns only one row reports stay, accepted rows drain, `stop` returns |
| `agent_safety` | a list page drawn in two ways, a refused page, four controls, three steps, two scrolls, one question, fairness | a run is running exactly while it is driven; budgets of steps, clicks and scrolls; passwords and money are the person's; every run comes to rest |
| `lease_safety` | two sessions, two browsers, one termination a pass, any write of the controller raising | no browser in use is released by a sweep, no running browser is marked stopped, no leaked browser looks held, but for what a failed write left without its row |
| `reminders_safety` | one tab, a bill paid on two nights at half past midnight, EverOS's name for it or a starter's that is another task, two moments, two streams, queues of one, an outage or a restart, fairness | watchers are counted, a start settles the reminder of its own task if it is the first of its day, and no other, a dismissed one returns to a screen that listens |
| `panel_safety` | three updates, queues of one, two losses, a restart, fairness | what has ended stays as it ended; the panel never goes on saying "running" |
| `memory_safety` | a saved and a new session of one task, two skills, two attempts, an outage or a read of the ledger that fails, a restart, one asker, fairness | ready is replayable, every completion is told, answers are no staler than their waits |
| `profile_safety` | two earlier tabs, two new ones, two fields, edits of at most three operations, two outages, a restart | a write that is alone, fits an edit and is applied whole leaves each of its fields once |
| `tool_safety` | three skills, pages of two, three runs of the tool, settings of each kind, one outage | exit codes and lists are true |
| `guidance_safety` | two controls (one in a frame), four looks, two origins, two selectors, three rate cards, a field that is a password and a payment field at once, one change of the page, writes that fail, a crash | sensitive steps are refused, refusals stand, the ledger is complete, what is presented is where it was judged |

### Disagreements met while modelling

`session_reroute` expects a violation: `REROUTING` to `OBSERVING` is not in the table, so
after a wrong click the session stays in `REROUTING` and the promised next step never
comes (`services/orchestrator.py:1238`). The others below are stated in the
property modules; TLC violates each when it is added to the configuration named, with the
constant changed as noted.

| property (module) | configuration | where | what TLC finds, and what the repository says |
|---|---|---|---|
| `EscalationPausesSession` (`OrchestratorProps`) | `session_safety` | `services/orchestrator.py:1090` | the escalation row is committed before a transition that `HELP_OFFERED` and `PROVIDER_UNAVAILABLE` refuse, so the caregiver sees an escalation of a session that is not paused; line 1094: "I have paused here so your caregiver can help with this step." |
| `OneCurrentTarget` (`OrchestratorProps`) | `session_safety` | `services/orchestrator.py:902` | help asked for while a step is awaited stores a new panel command before its transition is refused: the panel points at one control, the orchestrator waits for another; `src/IMPLEMENTATION_PLAN.md:1016`: "Exactly one sentence, one current target, one verification." |
| `NoLostWakeup` (`ConnectionPoolProps`) | `pool_safety`, `MaxSize = 1` | `integrations/snowflake/client.py:166` | `release` spends its only notify on a caller that has timed out and raises without looking again, while another sleeps beside the idle connection; `src/tests/test_snowflake_pool.py:121`: "a_waiting_caller_is_handed_the_next_released_connection" |
| `LastReportStands` (`OutboxProps`) | `outbox_safety` | `integrations/snowflake/client.py:608` | an `attached` row retried after the `terminated` row of the same browser is merged last: the warehouse says connected for good; `src/IMPLEMENTATION_PLAN.md:1069`: "Idempotent merge and reconciliation" |
| `WithheldUntouched` (`AutopilotProps`) | `agent_safety`, `Withheld = {"row"}` | `services/autopilot.py:346` | when a demo's planner asks, the local planner answers from candidates from which the withheld controls were not taken out; line 123: "Controls a run must never touch, whatever a planner proposes." |
| `OrphansAreNotStopped` (`BrowserLeaseProps`) | `lease_safety` | `browser/controller.py:394` | the save of a start raises after the runtime was entered, and the stop of that browser writes "stopped" into the row of an earlier one, which may still run; `src/IMPLEMENTATION_PLAN.md:760`: "no orphaned session is marked stopped without provider confirmation" |
| `DueIsShown` (`RemindersProps`) | `reminders_safety`, `Moments <- MCMoments` | `api/routes.py:543` | a reminder that comes due while the stream of an open screen is down is announced to nobody when the stream attaches, and never again; `src/web/src/agent/TaskLauncher.tsx:64`: "Reminders are pushed, so one that comes due while this screen is open arrives on its own." |
| `YesIsRespected` (`RemindersProps`) | `reminders_safety` | `services/activity_memory.py:349` | a reminder may name a routine that only shares most of its words; "Yes, do it" starts that one, another task, and the reminder stays due, as it does after a second start in one local day; `src/IMPLEMENTATION_PLAN.md:609`: "The in-app reminder explains its evidence and respects accept/snooze state." |
| `NeverFrozen` (`RunPanelProps`) | `panel_safety` | `src/web/src/agent/AgentDashboard.tsx:69` | poll and reconnection stop when the run shown waits for an answer; if the stream drops then and the answer to `confirm` is lost, the panel asks for the same decision for ever; line 18: "only so a dropped stream cannot leave the panel frozen" |
| `KnowsTheOutcome` (`RecallProps`) | `memory_safety` | `services/orchestrator.py:1038` | `record_outcome` runs after the save, which may take several attempts, and not at all after a restart: a question meanwhile finds no completion; `services/recall.py:11`: the ledger "is written in the same transaction as the task outcome" |
| `ReadyIsOwnSkill` (`RecallProps`) | `memory_safety` | `integrations/everos/client.py:1042` | the cases of every listed skill join the session's own, so an older skill passes for the new one; `src/docs/operations/runbook-everos-indexing-delay.md:57`: "Until the Skill is retrievable, the truthful state is `indexing`" |
| `InvalidIsContent` (`MemoryToolProps`) | `tool_safety` | `cli/memory.py:1264` | settings that do not validate exit with 6, although EverOS was never called; line 142: "EverOS returned content that failed WebAccessible validation" |
| `RoutinesValidate` (`MemoryToolProps`) | `tool_safety` | `integrations/everos/client.py:1408` | a summary asks for less than a `SkillDocument`, so `routines list` shows as validated a skill on which `skill show` exits with 6; `cli/memory.py:239`: "did not validate against the WebAccessible skill contract and are listed by provider ID only" |
| `UnknownSitesCallTheHelper` (`GuidanceProps`) | `guidance_safety` | `domain/safety.py:31` | a password field, also one that asks for a card or an identity, is a plain pause on any origin: nobody is called; `src/webaccessible-spec.md:51`: "Page requests sensitive data and is not in her known sites \| immediately" |
| `UnknownOriginPausesReplay` (`GuidanceProps`) | `guidance_safety` | `services/orchestrator.py:821` | a saved step that resolves on a foreign page is presented without asking policy or model; `src/IMPLEMENTATION_PLAN.md:108`: "Any unrecognized origin pauses replay and requests a new decision." |

Three more are visible in the code and need no search. After a crash the row still says
`connected`, so the sweep at boot calls the session held until it expires, whereas
`src/docs/sponsors/BROWSERBASE.md:26` says boot terminates it. A start that takes longer
than `startup_grace_seconds`, which its own timeouts permit, can be released while it is
being attached. The message of `cli/memory.py:857` allows queries of 240 characters; the
client refuses more than 128.

### Why the bounds are enough

* Session: three events allow the action asked for, a wrong one and a
  redelivery (an event already accepted may always come again); two candidates
  tell the target from another element; two steps give a first, a last, and a
  repaired one between; two abandons reach the end from an ended session.
  Event ids and candidates are symmetric.
* Pool: three threads and two slots give a holder, a waiter and a closer or a late
  waiter; three connections let one be replaced while two are in use.
* Outbox: the refused row stands between two rows about the same browser, with
  batches of two, so it is retried beside them; one restart falls at every point.
* Autopilot: two drawings under one key are the case in which memory by page and
  memory by control differ; a limit of two scrolls and three steps makes each limit
  bite before another does in some run.
* Lease: two browsers let a row be superseded, or kept from being, and leave the budget of one
  termination short. Both sweeps run against each other. Any number of writes may raise.
* Reminders: two nights make a pattern; the moments are an hour before the bill is due, which
  is on the local day it was last paid, and when a dismissal has lapsed (`MCMoments` has one
  before the reminder shows as well); queues of one overrun; two streams are the
  smallest number that can be open or lost at once.
* Panel: three updates overrun a queue of one; two losses take the stream and an answer,
  the poll is the third way.
* Memory: one task with two sessions, so answers mix an old outcome and a new one; an answer
  may be asked for, phrased and kept for a tick each. The outage falls on any call of the save
  or on a read of the ledger, the restart at any point. Checked apart with the same result: a
  read of the ledger that outlasts the search (`LedgerTime = 2`, 1 164 004 states), and two
  askers with one skill, one attempt and no outage (869 084 states).
* Profile: two earlier tabs at once store fields twice, two new ones meet them. Four items of
  two fields are more than the three operations an edit may have; one field of them is less.
* Command line: three skills and pages of two leave one off the page; three runs let one
  act on what another saw.
* Guidance: one call, since a call starts from a page that may be any; a link and a field
  that may change into a payment, or into a password that is a payment field too; two selectors of which either may fit;
  two cards that follow each other at an instant, and one in another currency.

`CHECK_DEADLOCK FALSE` stands where the modelled part really stops: sessions and runs
end, logs, calls and visits are finite. The pool of `pool_safety` and the lease never
stop.

### Fairness

* Orchestrator: weak on the handler that holds the lock, as every call it awaits has
  a timeout; strong on each kind of background task, as `asyncio.Lock` wakes waiters
  in order. Nothing is assumed of the participant.
* Pool: threads inside `acquire` go on, leases are returned (`_execute_sync` releases
  in `finally`), connections are closed. No timeout is assumed to fire.
* Outbox: calls return, retry times come, the drain polls; strong on merge and
  acknowledgement, that is, a row sent again and again is taken in the end. `Drains`
  also needs fewer rejected rows than fit a batch, as in the instance.
* Autopilot: weak on the driver alone. The planner and the person do as they like.
* Reminders: weak on the event loop (scans, answers of EverOS, streams) and on requests
  that arrive. Nobody has to open, answer or start anything, and time may stand still.
* Panel: weak on timers and on what is not lost. Nobody has to press anything, and the run
  may take as long as it likes.
* Memory: weak on the save of each session that is not over yet, as each call it awaits has
  a timeout.

`EndedRunsAreReported` needs no fairness: an ended session whose browser lives has its
stop task waiting. With fairness of that task the browser is released.

## 4. Proofs

| module | theorems |
|---|---|
| `OrchestratorProofs` | `InvHolds`, `TypeCorrect`, `LockExcludes`, `OutcomeUnique`, `RunsReported`, `StepsAreActions`, `TwoFailuresEnd`, `AwaitedCurrent`, `EndStays`, `PauseHolds`, `LifecycleImplemented` |
| `ConnectionPoolProofs` | `PoolInvHolds`, `PoolBounded`, `PoolStaysEmpty`, `ConnectionsAreOwned` |
| `OutboxProofs` | `OutboxInvHolds`, `ColumnsStay`, `DeliveryImplemented` |
| `AutopilotProofs` | `AutopilotInvHolds`, `RunIsDriven`, `PageBudgets`, `PersonDecides` |
| `BrowserLeaseProofs` | `LedgerInvHolds`, `TypeCorrect`, `LeaseInvHolds`, `StoppedHolds`, `LeaksHold`, `UsedStays` |
| `EverOSProofs` | `TeachInvHolds`, `ReadyHolds`, `RecallInvHolds`, `StaleHolds`, `ReceiptsAreTrue`, `ProfilesHeal` |
| `GuidanceProofs` | `GuidanceInvHolds`, `SensitiveStaysHidden`, `RefusalsStand`, `LedgerHolds`, `PresentedThere` |
| `ScreensProofs` | `RemindersInvHolds`, `RemindersTyped`, `WatchersHold`, `ViewsAreOfThePast`, `EndedRunStays` |

They hold for every value of the constants that satisfies the named assumptions of the
module: `ConstantsOK` and `NoneIsNoStep`, `PoolAssumption`, `OutboxAssumption`,
`AutopilotAssumption`, `LeaseAssumption` and `NoneIsNeither`, `TeachMemoryAssumption`
and `RecallAssumption`, `MemoryToolAssumption`, `ProfileAssumption`,
`GuidanceAssumption`, `RemindersAssumption`, `DueAreListed` and `NoneIsNoWatcher`. The
theorems about the panel need none. `ReceiptsAreTrue` and `ProfilesHeal` name the
assumption of the module they speak of as their hypothesis. TLC evaluates each of the
assumptions in a run. Those about `None` say only that the value for "nothing" is not
also something. `DueAreListed` says that finitely many reminders can ever be due, which
the code grants: an evaluation walks a list of patterns inferred from rows of a table.
The proof needs it because a publication goes through what is due in order. The
assumptions bound nothing but the limits the code is configured with: there may be any
number of threads, sessions, browsers, tasks, controls, rate cards, tabs, streams,
requests and skills.

No hypothesis is about what may fail: any write of the controller may raise in the theorems of
`BrowserLeaseProofs`. `StoppedHolds`, `LeaksHold` and `UsedStays` name what such a write leaves
behind, the browsers in `unwritten`.

`Inv`, `PoolInv` and `AutopilotInv` stand with the properties, so their runs
check the very invariants that are proved. `OutboxInv` stands there too; it says little more
than `ReportedColumnsStay` and `ImplementsDelivery`, which its run checks. Those of the lease, guidance, the screens and
what is kept in EverOS stand with their proofs, where the types they need are; TLC found
each of them invariant on the instance of its run too, with the types it cannot enumerate
left out.

* **Session.** A handler checks each transition against its copy of the row, so nothing is
  inductive without `LockedViewIsCurrent`. `HandlerKnowsState` adds in which states a
  handler can be waiting where: what a save or a check finds when it comes back is what it
  left. `StepsCounted` is `StepsTakeActions` with one to spare while an action is being
  checked, since the step is written after the action. `FailuresAreAttempts` says each
  failure used up an attempt at repair, and attempts stop at two. `PauseHolds` needs only
  that no handler but guidance waits in a paused session, and that guidance can leave it
  only by escalation.
  `EndStays` follows from the rows of terminal states in `Sessions`. The refinement maps
  the row's terminal state to `ended` and the outbox keys to `reported`.
* **Pool.** `PoolInv` counts the leasing threads with `Cardinality`. One lemma says
  how the count moves when a thread starts or stops leasing, and one lemma per
  action uses it. `ConnectionsOwned` is inductive beside it: the idle list never names a
  connection twice, and what is taken from it or put back is held by one thread.
* **Outbox.** `OutboxInv` orders what happens to a row: written, merged, marked. The
  refinement to `Delivery` needs just that: no row is marked that was not
  merged, none is sent after it is marked.
* **Autopilot.** `RunningIsDriven`, `NoSecondClick` and `ScrollsBounded` are not
  inductive alone. `StepToSpare` says the loop is entered with room for a step,
  `ClicksWritten` and `ScrollsWritten` say that what counts against the page is
  written down before it is performed, `PlanInHand` that an act has a plan.
* **Lease.** A pass acts on a list and two snapshots that may all be out of date. What saves
  it is that some facts do not go back: a browser that is out of use is never used again,
  ages only grow, and what has ended stays ended (the lemma `Stays`). `PassSpares` says
  of everything a pass still has to release that one of these facts holds of it already.
  To establish it, `UsedRowsFit` says that a row says so while its browser is in use; its
  time may lag only between the save of a start and its return, when the browser is still
  young, or slow; and that a runtime whose row could not be written is in `unwritten`
  (`RuntimesFit`). `StoppedIsConfirmed` needs `PassFits`: a pass writes down only what it
  saw end. `LeaksAreOrphans` follows the browser from hand to hand; it needs that a start
  never enters a runtime over another one, which `OpFits` says.
* **Memory.** `ReadyIsReplayable` rests on `Sound`: a search takes up no skill that could
  not be read when EverOS listed it, and what is readable stays so. `StaleNoLonger` needs
  one bound for each place where an answer may lie: what was read is behind by the age of
  the reading, a phrase by the time of a read more, what is cached by the model's time more,
  and what an answer does not mention is as new as the ledger; or a read of the ledger failed
  no longer ago than the same bound. That a history names no
  completion without its start closes the case of an answer that had nothing to say.
* **Guidance.** `Undecided` says nothing is judged or written before the model has answered;
  `Judged` keeps the verdict to the control as it was seen, however the page changes after.
  `StageFits` ties the place in the handler to the verdict, which is what keeps a refused
  control from the highlight. `LedgerFits` follows the three commits: while no
  write has failed (`torn`), what was decided has its row, its report and the same cost in both
  (`Written`) before anything is shown. What is recorded a second time as a failure leaves
  those rows as they are.
* **Panel.** `ViewsTell` says that what is shown, queued, or on its way as an answer is no
  newer than the run, and equal to it when it is of the same update. A full queue loses its
  oldest view, so the window that is left needs a lemma of its own. `EndedRunStays` needs
  no invariant: every handler looks at the state it finds.
* **Reminders.** `WatchersCounted` ties the count in the watcher's entry to the streams
  that hold it: subscribed ones, and those given up inside `attach`. One lemma says how
  `Cardinality` of the holders moves when a stream is opened, one when it ends, and one that
  everything else leaves them alone; each action uses one of the three. `StreamsFit` says
  only what the queues may hold and that a stream that is up was not given up. `ScanFits` is
  the part that needs the interleaving: a scan that waits for EverOS on behalf of the current
  watcher finds it when it comes back, since the last stream cannot leave without the scan
  becoming one of a watcher that is gone. `TypeOK` needs that a publication to a bounded
  queue leaves a window of what was queued and what is new.
* **Command line.** `ToolInv` says what is true of a run until it exits: it knows how many
  documents there were when it began, and the list it read names skills that are still
  there, since nothing deletes one. Then a page that may be full is the only reason a
  listed skill can be missing from the second read, and the exit code of each handler
  follows from the exceptions it can meet.
* **Profile.** A duplicate is an item of another request. `ProfileInv` says that a request
  adds at most one item per field and only in the step that ends its write, so a write
  that is still under way has none. `SessionFits` says a request is made once, so it never
  writes a second time. The lemma `WholeEditHeals` then follows one edit that sees the
  profile as it is: it keeps one item of each field, corrects it, and removes the others.

Only model-checked:

* everything about liveness, which is out of the prover's reach: `ClosedPoolLogsOut`,
  `Drains`, `StopReturns`, `ComesToRest`, `LapsedReturns`, `NoticesTheEnd`,
  `CompletionIsTold`;
* `StartSettles` of `Reminders`. What is due is computed from sorted starts and medians of
  sequences, and what such a computation yields for every ledger takes an induction over
  data. The proofs about the reminders hold whatever `DueAt` says.

Everything else that a passing run checks is a theorem.

## 5. Plan

Done: every component above that has several actors is modelled, and has proofs.
Left: `StuckDetector` as a pure function against a reference definition, and a run each for
the hazards below that no property covers.

Hazards known and without a property: the CSS
path looked up in an old snapshot (`browser/controller.py:515`; `Landing` in `Autopilot`
models it); a click that outlives its cancelled caller (`services/autopilot.py:278`);
more refused outbox rows than `scan_limit` hide newer ones (`persistence/repository.py:710`);
an exception that ends the drain for good (`services/telemetry.py:154`); a start slower
than its grace (`services/browser_reconciliation.py:119`); a control that is redrawn under
its old id (`browser/candidate_extractor.py:105`). A failure of EverOS leaves the starters
in the routine cache for 20 seconds, so reminders vanish for that long
(`services/orchestrator.py:512`); `Reminders` models it, and its liveness properties speak
of what is due for good. A restart between the end of a session and its report loses the
report, and one while an action is awaited loses the step (`services/orchestrator.py:969`):
the code has no recovery of either, so `EndedRunsAreReported` and `AwaitedStepIsCurrent` speak
of runs without a restart, and only `ImplementsLifecycle` and `StepsTakeActions` of those with
one. An edit of the profile takes at most 50 operations (`integrations/everos/client.py:293`)
and a setup has seven fields (`api/routes.py:276`), so when eight tabs have stored them at
once, every later write of all of them is refused, the session says `unavailable`, and the
duplicates stay; `ProfileHeals` leaves these writes out. In `agent_safety` no control costs
money, so the half of its hand-back that is about payments rests on the theorem
`PersonDecides`.

## 6. Not modelled

The patterns in text (which words flag a control, label scoring, prompts, redaction,
ranking of remembered tasks), parsing of documents, SQL executed by Snowflake, decimal
arithmetic, HTTP validation and token signing, rendering (screens, dashboards, layout of
receipts), and deployment scripts. Where a modelled component asks them something, every
answer they can give is an input of the model. The stuck detector is sequential and has
no second actor; its verdict is an input. Clocks are order, or ticks where two waits are
compared; only `ActivityPatterns` computes with dates.

Checking a module: `tlc -config session_safety.cfg MCOrchestrator.tla`. Checking its
proofs: `tlapm OrchestratorProofs.tla`.
