------------------------------ MODULE Reminders ------------------------------
(***************************************************************************)
(* Reminders of one participant: services/proactive.py evaluates them for  *)
(* whoever has the app open, services/event_hub.py carries them to the     *)
(* streams of api/routes.py, and web/src/agent/TaskLauncher.tsx shows what *)
(* it was sent and what it listed.                                         *)
(*                                                                         *)
(* The server is an event loop.  An evaluation is atomic when the list of  *)
(* routines is cached and waits for EverOS when it is not; only then can   *)
(* anything come between the two halves of attach or of a scan.            *)
(***************************************************************************)
EXTENDS ActivityPatterns

CONSTANTS
  Tabs,        \* windows of the participant's app, each a participant session
  Consent,     \* Consent[t]: "none", "memory", or "reminders" too
  Moments,     \* the moments at which the model looks at the clock, in order
  FirstStarts, \* task starts already in the activity ledger, in order
  Zone,        \* the participant's offset from UTC
  Confirmed,   \* names of the routines EverOS knows, in order
  Starters,    \* names of DEMO_TASKS, offered after them
  Typed,       \* other names a participant may type, in order
  Snooze,      \* snooze_minutes of a dismissal
  QueueSize,   \* event_hub's maxsize (20)
  MaxStarts,   \* tasks started in the model (a bound)
  MaxStreams,  \* streams ever opened (a bound)
  MaxFaults,   \* reads of EverOS that fail, and restarts of the backend (a bound)
  None

ASSUME RemindersAssumption ==
  /\ Consent \in [Tabs -> {"none", "memory", "reminders"}]
  /\ QueueSize \in Nat \ {0} /\ Snooze \in Nat
  /\ MaxStarts \in Nat /\ MaxStreams \in Nat /\ MaxFaults \in Nat
  /\ Moments \in Seq(Int) /\ Moments # <<>>

Streams == 1..MaxStreams

VARIABLES
  now,      \* how many of Moments have come
  starts,   \* task_started rows added to FirstStarts
  answers,  \* reminder_actions
  cache,    \* _routine_cache: "cold", "everos", or "starters" when EverOS failed
  watcher,  \* _watchers[user_id], or None
  scan,     \* the watcher a scan waits to evaluate: the current one, or one popped since
  streams,  \* GET /v1/stream, both ends
  screen,   \* the launchers
  faults

server == <<cache, watcher, scan, faults>>
ledger == <<starts, answers>>
vars == <<now, ledger, server, streams, screen>>

NoScan == [of |-> "nobody", old |-> None]
NewStream(t, at) == [tab |-> t, at |-> at, up |-> TRUE, queue |-> <<>>]
Launcher == [open |-> TRUE, shown |-> {}, listing |-> "asked", listed |-> {}, post |-> None]
Gone == [open |-> FALSE, shown |-> {}, listing |-> "none", listed |-> {}, post |-> None]

Init ==
  /\ now = 1 /\ starts = {} /\ answers = {}
  /\ cache = "cold" /\ watcher = None /\ scan = NoScan
  /\ streams = <<>>
  /\ screen = [t \in Tabs |-> Gone]
  /\ faults = 0

Id(r) == [task |-> r.task, due |-> r.due]
Ids(rs) == {Id(r) : r \in rs}

-----------------------------------------------------------------------------
(* What is due *)

Clock == Moments[now]
Offered == Confirmed \o Starters \o Typed
\* Every start the model can add, in the order of time.
Later == [i \in 1..(Len(Moments) * Len(Offered)) |->
            [name |-> Offered[((i - 1) % Len(Offered)) + 1],
             at |-> Moments[((i - 1) \div Len(Offered)) + 1], zone |-> Zone]]
Ledgers == {{Later[i] : i \in I} :
              I \in {J \in SUBSET DOMAIN Later : Cardinality(J) <= MaxStarts}}

\* What is due at a moment, by what EverOS last said: DueNow, tabulated.
DueAt == [more \in Ledgers, said \in {"everos", "starters"}, m \in DOMAIN Moments |->
            DueNow(FirstStarts \o SelectSeq(Later, LAMBDA s : s \in more),
                   IF said = "everos" THEN Confirmed \o Starters ELSE Starters, Moments[m])]

EverDue == UNION {DueAt[k] : k \in Ledgers \X {"everos", "starters"} \X DOMAIN Moments}

\* A watcher counts its streams, and knows the latest tab and what it announced.
Watcher == [subs : Nat, by : Tabs, announced : SUBSET Ids(EverDue)]

ASSUME DueAreListed == IsFiniteSet(EverDue)
ASSUME NoneIsNoWatcher == None \notin Watcher

\* An accepted reminder is done with; a dismissed one until its snooze lapses.
Answered(id) ==
  \E a \in answers : a.id = id /\ (a.status = "accepted" \/ Clock < a.until)

\* orchestrator.reminders, for the participant session of t.
Current(t) ==
  IF Consent[t] # "reminders" THEN {}
  ELSE {r \in DueAt[starts, cache, now] : ~Answered(Id(r))}

Warm == cache # "cold"

\* Mutant of Published: a full queue grows.
PublishedWithoutBound(news) ==
  [c \in DOMAIN streams |->
     IF streams[c].at # "subscribed" \/ ~streams[c].up THEN streams[c]
     ELSE [streams[c] EXCEPT !.queue = @ \o news]]

\* publish: to every subscriber; a full queue loses its oldest.  (A queue nobody reads any
\* more is taken to be empty.)
Published(news) ==
  [c \in DOMAIN streams |->
     IF streams[c].at # "subscribed" \/ ~streams[c].up THEN streams[c]
     ELSE LET all == streams[c].queue \o news
          IN [streams[c] EXCEPT !.queue = SubSeq(all, Larger(1, Len(all) - QueueSize + 1),
                                                 Len(all))]]

\* In the order of their due moments; those due at once stand in any order.
ByDue(rs) ==
  {list \in [1..Cardinality(rs) -> rs] :
     \A i, j \in DOMAIN list : i < j => list[i] # list[j] /\ list[i].due <= list[j].due}

\* _evaluate: the lists of what the watcher w has not announced yet.
News(w) == ByDue({r \in Current(w.by) : Id(r) \notin w.announced})
Told(w) == [w EXCEPT !.announced = Ids(Current(w.by))]

-----------------------------------------------------------------------------
(* The stream *)

\* The first half of attach.
Registered(t) ==
  IF watcher = None THEN [subs |-> 1, by |-> t, announced |-> {}]
  ELSE [watcher EXCEPT !.by = t, !.subs = @ + 1]

\* The launcher opens its stream, at first and five seconds after losing one.  attach
\* evaluates and publishes before this stream is one of the subscribers.
Connect(t) ==
  /\ screen[t].open /\ Len(streams) < MaxStreams
  /\ \A c \in DOMAIN streams : streams[c].tab = t => ~streams[c].up
  /\ \/ /\ Warm
        /\ \E w \in {Registered(t)} : \E news \in News(w) :
             /\ watcher' = Told(w)
             /\ streams' = Append(Published(news), NewStream(t, "subscribed"))
     \/ /\ ~Warm
        /\ watcher' = Registered(t)
        /\ streams' = Append(streams, NewStream(t, "attaching"))
  /\ UNCHANGED <<now, ledger, cache, scan, faults, screen>>

\* The second half of attach, and the subscription.
Attached(c) ==
  /\ streams[c].at = "attaching" /\ Warm
  /\ watcher' = Told(watcher)
  /\ \E news \in News(watcher) :
       streams' = [Published(news) EXCEPT ![c].at = "subscribed"]
  /\ UNCHANGED <<now, ledger, cache, scan, faults, screen>>

\* The connection breaks; the launcher knows at once, the server does not.
Breaks(c) ==
  /\ streams[c].up
  /\ streams' = [streams EXCEPT ![c].up = FALSE, ![c].queue = <<>>]
  /\ UNCHANGED <<now, ledger, server, screen>>

\* Mutant of Detached: the watcher outlives its last stream.
DetachedNever ==
  /\ watcher' = [watcher EXCEPT !.subs = @ - 1]
  /\ UNCHANGED scan

\* detach.  A scan that waits keeps the watcher it was given.
Detached ==
  /\ watcher' = IF watcher.subs > 1 THEN [watcher EXCEPT !.subs = @ - 1] ELSE None
  /\ scan' = IF scan.of = "current" /\ watcher.subs <= 1
             THEN [of |-> "popped", old |-> [watcher EXCEPT !.subs = @ - 1]] ELSE scan

\* The server ends the response.  One still attaching has not reached its finally.
Notices(c) ==
  /\ ~streams[c].up
  /\ \/ /\ streams[c].at = "subscribed"
        /\ Detached
        /\ streams' = [streams EXCEPT ![c].at = "ended", ![c].queue = <<>>]
     \/ /\ streams[c].at = "attaching"
        /\ streams' = [streams EXCEPT ![c].at = "abandoned"]
        /\ UNCHANGED <<watcher, scan>>
  /\ UNCHANGED <<now, ledger, cache, faults, screen>>

\* A pushed reminder is added unless it is there.
Arrives(c) ==
  /\ streams[c].up /\ streams[c].queue # <<>>
  /\ LET r == Head(streams[c].queue)
         t == streams[c].tab
     IN screen' = IF Id(r) \in Ids(screen[t].shown) THEN screen
                  ELSE [screen EXCEPT ![t].shown = @ \cup {r}]
  /\ streams' = [streams EXCEPT ![c].queue = Tail(@)]
  /\ UNCHANGED <<now, ledger, server>>

-----------------------------------------------------------------------------
(* The scheduler and the list of routines *)

\* The timer fires, or attach woke the runner.
ScanBegins ==
  /\ scan = NoScan /\ watcher # None
  /\ IF Warm THEN /\ watcher' = Told(watcher)
                  /\ \E news \in News(watcher) : streams' = Published(news)
                  /\ UNCHANGED scan
             ELSE scan' = [NoScan EXCEPT !.of = "current"] /\ UNCHANGED <<watcher, streams>>
  /\ UNCHANGED <<now, ledger, cache, faults, screen>>

ScanEnds ==
  /\ scan # NoScan /\ Warm
  /\ \E w \in {IF scan.of = "current" THEN watcher ELSE scan.old} : \E news \in News(w) :
       /\ streams' = Published(news)
       /\ watcher' = IF scan.of = "current" THEN Told(w) ELSE watcher
  /\ scan' = NoScan
  /\ UNCHANGED <<now, ledger, cache, faults, screen>>

\* An evaluation is suspended until the list of routines is there; or a request needs it.
Suspended == scan # NoScan \/ \E c \in DOMAIN streams : streams[c].at = "attaching"
Waited ==
  \/ Suspended
  \/ \E t \in Tabs : screen[t].listing = "asked" \/ screen[t].post # None

\* list_routines: what EverOS says, or only the starters, is kept either way.
RoutinesRead ==
  /\ ~Warm /\ Waited
  /\ \/ cache' = "everos" /\ UNCHANGED faults
     \/ cache' = "starters" /\ faults < MaxFaults /\ faults' = faults + 1
  /\ UNCHANGED <<now, ledger, watcher, scan, streams, screen>>

\* Twenty seconds after the read: who waited for it has gone on long before.
CacheExpires ==
  /\ Warm /\ ~Suspended
  /\ cache' = "cold"
  /\ UNCHANGED <<now, ledger, watcher, scan, faults, streams, screen>>

-----------------------------------------------------------------------------
(* The launcher *)

Opens(t) ==
  /\ ~screen[t].open
  /\ screen' = [screen EXCEPT ![t] = [Launcher EXCEPT !.post = screen[t].post]]
  /\ UNCHANGED <<now, ledger, server, streams>>

\* GET /v1/reminders
ListServed(t) ==
  /\ screen[t].listing = "asked" /\ Warm
  /\ screen' = [screen EXCEPT ![t].listing = "answered", ![t].listed = Current(t)]
  /\ UNCHANGED <<now, ledger, server, streams>>

\* loadReminders shows the list it got, or nothing, in place of what was shown.
ListArrives(t) ==
  /\ screen[t].listing = "answered"
  /\ screen' = [screen EXCEPT ![t].listing = "none", ![t].listed = {},
                              ![t].shown = screen[t].listed]
  /\ UNCHANGED <<now, ledger, server, streams>>

ListFails(t) ==
  /\ screen[t].listing = "asked"
  /\ screen' = [screen EXCEPT ![t].listing = "none", ![t].shown = {}]
  /\ UNCHANGED <<now, ledger, server, streams>>

\* dismissReminder takes it off the screen, then tells the server.  (One request of a tab
\* is under way at a time.)
Dismisses(t) ==
  /\ screen[t].post = None
  /\ \E r \in screen[t].shown :
       screen' = [screen EXCEPT ![t].shown = @ \ {r},
                                ![t].post = [do |-> "dismiss", id |-> Id(r)]]
  /\ UNCHANGED <<now, ledger, server, streams>>

\* A client of the API accepts one it was shown.
Accepts(t) ==
  /\ screen[t].post = None
  /\ \E r \in screen[t].shown :
       screen' = [screen EXCEPT ![t].post = [do |-> "accept", id |-> Id(r)]]
  /\ UNCHANGED <<now, ledger, server, streams>>

PostLost(t) ==
  /\ screen[t].post # None
  /\ screen' = [screen EXCEPT ![t].post = None]
  /\ UNCHANGED <<now, ledger, server, streams>>

AnswerOf(id) == {a \in answers : a.id = id}

\* record_reminder_action: the last answer about a reminder counts.
Acted(id, status, until) ==
  (answers \ AnswerOf(id)) \cup {[id |-> id, status |-> status, until |-> until]}

\* 404: the reminder is not active by now.
Refused(t) == screen[t].post.id \notin Ids(Current(t))

\* Mutant of DismissServed: the marker of the announcement stays.
DismissServedQuietly(t) ==
  /\ screen[t].post # None /\ screen[t].post.do = "dismiss" /\ Warm
  /\ LET id == screen[t].post.id
     IN answers' = IF Refused(t) THEN answers
                   ELSE Acted(id, "dismissed", Clock + Snooze)
  /\ screen' = [screen EXCEPT ![t].post = None]
  /\ UNCHANGED <<now, starts, server, streams>>

\* POST /v1/reminders/{id}:dismiss
DismissServed(t) ==
  /\ screen[t].post # None /\ screen[t].post.do = "dismiss" /\ Warm
  /\ LET id == screen[t].post.id
     IN IF Refused(t) THEN UNCHANGED <<answers, watcher>>
        ELSE /\ answers' = Acted(id, "dismissed", Clock + Snooze)
             /\ watcher' = IF watcher = None THEN None
                           ELSE [watcher EXCEPT !.announced = @ \ {id}]
  /\ screen' = [screen EXCEPT ![t].post = None]
  /\ UNCHANGED <<now, starts, cache, scan, faults, streams>>

\* record_activity: INSERT OR IGNORE, and the moment as the participant's clock tells it.
Logged(name) == starts \cup {[name |-> name, at |-> Clock, zone |-> Zone]}

\* create_session and record_session_start, which asks for consent.
Started(t, name) == IF Consent[t] = "none" THEN starts ELSE Logged(name)

\* POST /v1/reminders/{id}:accept
AcceptServed(t) ==
  /\ screen[t].post # None /\ screen[t].post.do = "accept" /\ Warm
  /\ LET id == screen[t].post.id
     IN IF Refused(t) THEN UNCHANGED ledger
        ELSE /\ answers' = Acted(id, "accepted", Clock)
             /\ starts' = Started(t, (CHOOSE r \in Current(t) : Id(r) = id).routine)
             /\ starts' \in Ledgers
  /\ screen' = [screen EXCEPT ![t].post = None]
  /\ UNCHANGED <<now, server, streams>>

\* The launcher goes; what it asked of the server is still under way.
Away(t) == [screen EXCEPT ![t] = [Gone EXCEPT !.post = screen[t].post]]
HangsUp(t) ==
  [c \in DOMAIN streams |-> IF streams[c].tab = t
                            THEN [streams[c] EXCEPT !.up = FALSE, !.queue = <<>>]
                            ELSE streams[c]]

\* "Yes, do it" starts an agent run for the name of the reminder's routine, as choosing or
\* typing any other does, and the launcher makes way for the run; the answer of the request
\* may be lost, and then it stays.
StartsRun(t) ==
  /\ screen[t].open
  /\ \E i \in DOMAIN Offered : starts' = Started(t, Offered[i]) /\ starts' \in Ledgers
  /\ \/ screen' = Away(t) /\ streams' = HangsUp(t)
     \/ UNCHANGED <<screen, streams>>
  /\ UNCHANGED <<now, answers, server>>

Leaves(t) ==
  /\ screen[t].open
  /\ screen' = Away(t) /\ streams' = HangsUp(t)
  /\ UNCHANGED <<now, ledger, server>>

-----------------------------------------------------------------------------
TimePasses ==
  /\ now < Len(Moments)
  /\ now' = now + 1
  /\ UNCHANGED <<ledger, server, streams, screen>>

\* The ledger is on disk; watchers, cache, streams and requests are gone.
Restart ==
  /\ faults < MaxFaults
  /\ faults' = faults + 1
  /\ cache' = "cold" /\ watcher' = None /\ scan' = NoScan
  /\ streams' = [c \in DOMAIN streams |->
                   [streams[c] EXCEPT !.at = "ended", !.up = FALSE, !.queue = <<>>]]
  /\ screen' = [t \in Tabs |->
                  [screen[t] EXCEPT !.listing = "none", !.listed = {}, !.post = None,
                     !.shown = IF screen[t].listing = "none" THEN @ ELSE {}]]
  /\ UNCHANGED <<now, ledger>>

StreamMoves(c) == Attached(c) \/ Breaks(c) \/ Notices(c) \/ Arrives(c)
ServerMoves == ScanBegins \/ ScanEnds \/ RoutinesRead \/ CacheExpires
TabMoves(t) ==
  \/ Opens(t) \/ Connect(t) \/ Leaves(t) \/ StartsRun(t)
  \/ ListServed(t) \/ ListArrives(t) \/ ListFails(t)
  \/ Dismisses(t) \/ Accepts(t) \/ PostLost(t) \/ DismissServed(t) \/ AcceptServed(t)

Next ==
  \/ \E c \in Streams : c \in DOMAIN streams /\ StreamMoves(c)
  \/ ServerMoves
  \/ \E t \in Tabs : TabMoves(t)
  \/ TimePasses \/ Restart

\* The event loop and the network go on; nobody has to open, answer or start anything.
Fairness ==
  /\ \A c \in Streams :
       /\ WF_vars(c \in DOMAIN streams /\ Attached(c))
       /\ WF_vars(c \in DOMAIN streams /\ Notices(c))
       /\ WF_vars(c \in DOMAIN streams /\ Arrives(c))
  /\ WF_vars(ScanBegins) /\ WF_vars(ScanEnds) /\ WF_vars(RoutinesRead)
  /\ WF_vars(CacheExpires)
  /\ \A t \in Tabs : WF_vars(ListServed(t)) /\ WF_vars(ListArrives(t))

Spec == Init /\ [][Next]_vars /\ Fairness
=============================================================================
