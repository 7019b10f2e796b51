-------------------------------- MODULE Recall --------------------------------
(***************************************************************************)
(* Questions about what was done (services/recall.py), asked while tasks   *)
(* end and are saved.  An answer is made of the activity ledger and of     *)
(* EverOS episodes, read at the same time, phrased by a model or by a      *)
(* template, and kept for a while.  A read of the ledger that fails is     *)
(* answered like an empty ledger, and the code puts no limit on the time a *)
(* read takes: LedgerTime is the longest there is.                         *)
(***************************************************************************)
EXTENDS TeachMemory

CONSTANTS
  TaskOf,      \* TaskOf[s]: the task a session is about
  Askers,      \* requests that may be under way at once
  EverosTime,  \* everos_timeout_seconds, in ticks
  LedgerTime,  \* the ticks the longest read of the ledger takes
  ModelTime,   \* model_timeout_seconds
  CacheTime,   \* cache_seconds
  CacheLimit,  \* the size past which the cache is cleared (512)
  Unread

ASSUME RecallAssumption ==
  /\ {EverosTime, LedgerTime, ModelTime, CacheTime} \subseteq Nat \ {0} /\ CacheLimit \in Nat

Tasks == {TaskOf[s] : s \in Sessions}
Of(t) == {s \in Sessions : TaskOf[s] = t}

VARIABLES
  ask,    \* RecallService.answer, for each asker
  cache,  \* _cache: the answer to a question about a task, and its age
  since,  \* ticks since the outcome of a session was recorded
  failed  \* ticks since a read of the ledger about a task failed

clocks == <<since, failed>>
recall == <<ask, cache, clocks>>
allVars == <<vars, recall>>

ReadTime == IF EverosTime < LedgerTime THEN LedgerTime ELSE EverosTime
Staleness == ReadTime + ModelTime + CacheTime
Idle == [at |-> "none"]
Uncached == [age |-> CacheTime]

RecallInit ==
  /\ Init
  /\ ask = [a \in Askers |-> Idle]
  /\ cache = [t \in Tasks |-> Uncached]
  /\ since = [s \in Sessions |-> IF s \in ledger.done THEN Staleness ELSE 0]
  /\ failed = [t \in Tasks |-> Staleness]

Held == {t \in Tasks : cache[t] # Uncached}
Asks(a, to) == ask' = [ask EXCEPT ![a] = to]
Says(answer, t) == [at |-> "answered", about |-> t, says |-> answer]

\* Mutant of Cached: an entry that has expired is good.
CachedForGood(a, t) ==
  /\ ask[a].at = "none" /\ t \in Held
  /\ Asks(a, Says(cache[t].answer, t))
  /\ UNCHANGED <<vars, cache, clocks>>

\* An entry is good for cache_seconds from when it was stored.
Cached(a, t) ==
  /\ ask[a].at = "none" /\ t \in Held /\ cache[t].age < CacheTime
  /\ Asks(a, Says(cache[t].answer, t))
  /\ UNCHANGED <<vars, cache, clocks>>

Ask(a, t) ==
  /\ ask[a].at = "none" /\ cache[t].age = CacheTime
  /\ cache' = [cache EXCEPT ![t] = Uncached]
  /\ Asks(a, [at |-> "read", about |-> t, history |-> Unread, episode |-> Unread, age |-> 0])
  /\ UNCHANGED <<vars, clocks>>

\* task_history: one row for each task, with its starts and completions.
History(t) == [begun |-> ledger.begun \cap Of(t), done |-> ledger.done \cap Of(t)]

\* _local_history: the row of task_history that best fits the question.
ReadsHistory(a) ==
  /\ ask[a].at = "read" /\ ask[a].history = Unread
  /\ Asks(a, [ask[a] EXCEPT !.history = History(ask[a].about)])
  /\ UNCHANGED <<vars, cache, clocks>>

\* One that fails is logged, and no row is found.  It counts among the outages.
HistoryFails(a) ==
  /\ ask[a].at = "read" /\ ask[a].history = Unread
  /\ outages < MaxOutages /\ outages' = outages + 1
  /\ Asks(a, [ask[a] EXCEPT !.history = [begun |-> {}, done |-> {}]])
  /\ failed' = [failed EXCEPT ![ask[a].about] = 0]
  /\ UNCHANGED <<consent, task, save, row, ledger, told, everos, restarts, cache, since>>

\* _best_episode: of what the search returns, only an episode about the task will do.
Episodes(t) == episodes \cap Of(t)

\* _everos_context: the search may find an episode or none; one that fails or is late finds none.
ReadsEverOS(a) ==
  /\ ask[a].at = "read" /\ ask[a].episode = Unread
  /\ \E found \in BOOLEAN :
       /\ found => Episodes(ask[a].about) # {}
       /\ Asks(a, [ask[a] EXCEPT !.episode = found])
  /\ UNCHANGED <<vars, cache, clocks>>

\* _store: past its limit the cache is cleared first.
Stored(t, answer) ==
  LET new == [age |-> 0, answer |-> answer]
  IN cache' = IF Cardinality(Held) > CacheLimit
              THEN [u \in Tasks |-> IF u = t THEN new ELSE Uncached]
              ELSE [cache EXCEPT ![t] = new]

Answers(a, answer) ==
  /\ Asks(a, Says(answer, ask[a].about))
  /\ Stored(ask[a].about, answer)

\* _facts: what an answer may say.  Of that only the completions it knows of are kept.
Facts(q) == q.history.done

\* Both reads are back.  Nothing to say is an answer too, and is kept like any other.
Gathered(a) ==
  /\ ask[a].at = "read" /\ ask[a].history # Unread /\ ask[a].episode # Unread
  /\ LET q == ask[a]
     IN IF q.history.begun = {} /\ ~q.episode THEN Answers(a, {})
        ELSE /\ Asks(a, [at |-> "phrase", about |-> q.about, says |-> Facts(q), age |-> 0])
             /\ UNCHANGED cache
  /\ UNCHANGED <<vars, clocks>>

\* _phrase, or _template when the model fails or is late: the same facts in other words.
Phrased(a) ==
  /\ ask[a].at = "phrase"
  /\ Answers(a, ask[a].says)
  /\ UNCHANGED <<vars, clocks>>

Heard(a) ==
  /\ ask[a].at = "answered"
  /\ Asks(a, Idle)
  /\ UNCHANGED <<vars, cache, clocks>>

Under(limit, n) == IF n < limit THEN n + 1 ELSE limit
InTime(a) ==
  /\ ask[a].at = "read" => /\ ask[a].age < ReadTime
                           /\ ask[a].history = Unread => ask[a].age < LedgerTime
                           /\ ask[a].episode = Unread => ask[a].age < EverosTime
  /\ ask[a].at = "phrase" => ask[a].age < ModelTime

Tick ==
  /\ \A a \in Askers : InTime(a)
  /\ ask' = [a \in Askers |-> IF ask[a].at \in {"read", "phrase"}
                              THEN [ask[a] EXCEPT !.age = @ + 1] ELSE ask[a]]
  /\ cache' = [t \in Tasks |-> [cache[t] EXCEPT !.age = Under(CacheTime, @)]]
  /\ since' = [s \in Sessions |-> IF s \in ledger.done THEN Under(Staleness, since[s]) ELSE 0]
  /\ failed' = [t \in Tasks |-> Under(Staleness, failed[t])]
  /\ UNCHANGED vars

RecallRestart ==
  /\ Restart
  /\ ask' = [a \in Askers |-> Idle]
  /\ cache' = [t \in Tasks |-> Uncached]
  /\ UNCHANGED clocks

RecallNext ==
  \/ TeachNext /\ UNCHANGED recall
  \/ RecallRestart \/ Tick
  \/ \E a \in Askers : \/ ReadsHistory(a) \/ HistoryFails(a) \/ ReadsEverOS(a)
                       \/ Gathered(a) \/ Phrased(a) \/ Heard(a)
  \/ \E a \in Askers, t \in Tasks : Cached(a, t) \/ Ask(a, t)

\* Every call _complete awaits is answered or fails.
Spec == RecallInit /\ [][RecallNext]_allVars
        /\ \A s \in Sessions \ Earlier : WF_allVars(Saves(s) /\ UNCHANGED recall)
=============================================================================
