------------------------------ MODULE RecallProps ------------------------------
(* What is remembered of a completed task, and what is said of it. *)
EXTENDS Recall

\* A session whose row says ready names a skill that can be opened for replay
\* (client.py:1335), also when EverOS worked its case into another skill, or named skills it
\* had not finished.
ReadyIsReplayable ==
  \A s \in Sessions : row[s].status = "ready" => row[s].skill # None /\ skills[row[s].skill].readable

\* The participant hears that the task is complete whatever becomes of its memory: without
\* steps to save, with EverOS failing at any call, or never indexing (orchestrator.py:1028).
CompletionIsTold ==
  \A s \in Sessions \ Earlier : task[s] = "completed" ~> (s \in told \/ save[s].at = "lost")

\* An answer misses no outcome recorded longer ago than a read, a sentence and the cache may
\* take together, although it is kept for cache_seconds from when it is done and not from
\* when it was read (recall.py:501); and one that says nothing because a read of the ledger
\* failed (recall.py:281), kept like any other, is given for no longer than that after it.
StaleNoLonger ==
  [][\A a \in Askers : ask'[a].at = "answered" /\ ask[a].at # "answered"
                   /\ failed[ask'[a].about] = Staleness =>
       {s \in Of(ask'[a].about) : since[s] = Staleness} \subseteq ask'[a].says]_allVars

\* Violated.  "Until the Skill is retrievable, the truthful state is indexing"
\* (docs/operations/runbook-everos-indexing-delay.md:57): what is ready is a skill made of
\* the session.
ReadyIsOwnSkill ==
  \A s \in Sessions : row[s].status = "ready" =>
    s \in skills[row[s].skill].cases \cup {skills[row[s].skill].of}

\* Violated.  "the local activity ledger, which is written in the same transaction as the task outcome"
\* (recall.py:11): a read that does not fail finds the completion of a completed task.
KnowsTheOutcome ==
  [][\A a \in Askers :
       (ask[a].at = "read" /\ ask[a].history = Unread) =>
         (ask'[a].at = "read" /\ ask'[a].history # Unread /\ consent /\ failed'[ask[a].about] # 0 =>
            {s \in Of(ask[a].about) : task[s] = "completed"} \subseteq ask'[a].history.done)]_allVars
=============================================================================
