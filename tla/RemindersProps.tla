---------------------------- MODULE RemindersProps ----------------------------
(* What must hold of the reminders of a participant who comes and goes. *)
EXTENDS Reminders

CONSTANT Watched  \* a reminder, as its task and due moment, the liveness properties follow

TypeOK ==
  /\ now \in 1..Len(Moments)
  /\ starts \in Ledgers
  /\ \A a \in answers : a.status \in {"dismissed", "accepted"}
  /\ \A a, b \in answers : a.id = b.id => a = b
  /\ cache \in {"cold", "everos", "starters"}
  /\ faults \in 0..MaxFaults
  /\ \A c \in DOMAIN streams :
       /\ streams[c].at \in {"attaching", "subscribed", "ended", "abandoned"}
       /\ streams[c].up => streams[c].at \in {"attaching", "subscribed"}
       /\ Len(streams[c].queue) <= QueueSize

\* The watcher of a participant lives as long as one of their streams: attach and detach
\* balance over streams that are opened, lost unnoticed, ended and abandoned half way, with
\* scans in between.  One abandoned while it attaches keeps the watcher for good.
Held == {c \in DOMAIN streams : streams[c].at \in {"attaching", "subscribed", "abandoned"}}
WatchersCounted ==
  IF watcher = None THEN Held = {} ELSE watcher.subs = Cardinality(Held) /\ Held # {}

\* The web app sends no answer when "Yes, do it" is pressed, so a reminder is settled by what
\* is inferred from the starts alone: by the first start of a local day of the very task it is
\* about (activity_memory.py:213), and by no other.  It stays due when EverOS knows the routine
\* by a name that is another task, or when the task was done that day already, shortly after
\* the midnight before the one it is due after.
FirstOfItsDay(s) ==
  LET log == FirstStarts \o SelectSeq(Later, LAMBDA old : old \in starts)
  IN \A i \in DOMAIN log : TaskOf[log[i].name] = TaskOf[s.name] => LocalDay(log[i]) # LocalDay(s)
StartSettles ==
  [][\A s \in starts' \ starts, said \in {"everos", "starters"} :
       \A r \in DueAt[starts, said, now] :
         Id(r) \notin Ids(DueAt[starts', said, now])
           <=> TaskOf[s.name] = r.task /\ FirstOfItsDay(s)]_vars

\* Violated.  "The in-app reminder explains its evidence and respects accept/snooze state."
\* (IMPLEMENTATION_PLAN.md:609): who starts what a reminder on the screen offers is not asked
\* again.
YesIsRespected ==
  [][\A t \in Tabs, s \in starts' \ starts : \A r \in screen[t].shown :
       s.name = r.routine =>
         \A said \in {"everos", "starters"} : Id(r) \notin Ids(DueAt[starts', said, now])]_vars

\* "Clearing the announced marker lets the same suggestion return once the snooze lapses,
\* instead of being suppressed for the rest of the visit." (api/routes.py:723): a launcher
\* that goes on listening shows a dismissed reminder again, if it is due for good once the
\* snooze has lapsed.  Listening: the stream stays subscribed, with no list on its way.
Due(id) == id \in Ids(DueAt[starts, "everos", now]) /\ ~Answered(id)
Subscribed(t) == \E c \in DOMAIN streams :
                   streams[c].tab = t /\ streams[c].up /\ streams[c].at = "subscribed"
Listening(t) == Subscribed(t) /\ screen[t].listing = "none" /\ watcher.by = t
Shown(t, id) == id \in Ids(screen[t].shown)
Snoozed(id) == \E a \in answers : a.id = id /\ a.status = "dismissed" /\ Clock < a.until
LapsedReturns ==
  \A t \in {u \in Tabs : Consent[u] = "reminders"} :
    [](Snoozed(Watched) /\ []Listening(t) /\ <>[]Due(Watched) => <>Shown(t, Watched))

\* Violated.  "Reminders are pushed, so one that comes due while this screen is open arrives on its
\* own." (web/src/agent/TaskLauncher.tsx:64): on a screen that listens before the reminder is
\* due and stays open, it is shown at some time if it is due for good and the stream, which
\* the launcher opens anew when it breaks, is subscribed in the end.
DueIsShown ==
  \A t \in {u \in Tabs : Consent[u] = "reminders"} :
    [](Listening(t) /\ ~Due(Watched) /\ []screen[t].open
       /\ <>[](Due(Watched) /\ Subscribed(t)) => <>Shown(t, Watched))
=============================================================================
