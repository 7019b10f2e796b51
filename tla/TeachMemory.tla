----------------------------- MODULE TeachMemory -----------------------------
(***************************************************************************)
(* A completed task becomes memory: SessionOrchestrator._complete, with    *)
(* save_teach_run and the bounded search for what EverOS made of it        *)
(* (integrations/everos/client.py), then the activity ledger and its       *)
(* summary (services/activity_memory.py).  The tasks are one participant's *)
(* and end in sessions of their own, each under its own lock.  EverOS      *)
(* extracts cases, episodes and skills when it likes, or never.            *)
(***************************************************************************)
EXTENDS EverOSErrors, Naturals, FiniteSets

CONSTANTS
  Sessions,     \* teaching sessions of one participant
  Earlier,      \* those of them that are over and saved, or still indexing
  Attempts,     \* how many delays _MEMORY_RETRIEVAL_DELAYS_SECONDS lists (5)
  Outages,      \* the faults an EverOS call may meet, a subset of Faults
  MaxSkills,    \* agent skills EverOS ever makes (a bound)
  MaxOutages,   \* EverOS calls that fail (a bound)
  MaxRestarts   \* restarts of the backend (a bound)

ASSUME TeachMemoryAssumption ==
  /\ Earlier \subseteq Sessions /\ Cardinality(Earlier) <= 1
  /\ Attempts \in Nat \ {0} /\ Outages \subseteq Faults
  /\ MaxSkills \in Nat \ {0} /\ MaxOutages \in Nat /\ MaxRestarts \in Nat

Ids == 1..MaxSkills
None == 0

VARIABLES
  consent,   \* activity_memory_enabled
  task,      \* the session row: "new", "active", "completed"
  save,      \* where _complete is, and what it has found
  row,       \* skill_id, sync_state and indexing_status of the session
  ledger,    \* activity_observations: sessions with a start, with a completion, synced
  told,      \* sessions whose COMPLETED command was published
  sent,      \* EverOS: sessions whose trajectory was flushed
  cases,     \* EverOS: sessions with an agent case
  episodes,  \* EverOS: sessions with an episode
  skills,    \* EverOS: agent skills, and which of Ids they have
  outages, restarts

everos == <<sent, cases, episodes, skills>>
vars == <<consent, task, save, row, ledger, told, everos, outages, restarts>>

NoSkill == [of |-> "nobody", cases |-> {}, readable |-> FALSE]
Silence == [cases |-> {}, episode |-> FALSE, skills |-> {}]
Nothing == [at |-> "none", try |-> 0, reads |-> {}, heard |-> Silence,
            cases |-> {}, skills |-> {}, episode |-> FALSE, replay |-> None]
At(stage) == [Nothing EXCEPT !.at = stage]

\* The skill of the earlier session, if there is one, may not be readable yet.
Init ==
  /\ consent \in BOOLEAN
  /\ task = [s \in Sessions |-> IF s \in Earlier THEN "completed" ELSE "new"]
  /\ save = [s \in Sessions |-> IF s \in Earlier THEN At("done") ELSE Nothing]
  /\ LET remembered == IF consent THEN Earlier ELSE {}
     IN ledger = [begun |-> remembered, done |-> remembered, synced |-> remembered]
  /\ told = Earlier /\ sent = Earlier /\ cases = Earlier /\ episodes = Earlier
  /\ \E readable \in BOOLEAN :
       /\ skills = [k \in Ids |-> IF \E s \in Earlier : k = 1
                                  THEN [of |-> CHOOSE s \in Earlier : TRUE, cases |-> Earlier,
                                        readable |-> readable]
                                  ELSE NoSkill]
       /\ row = [s \in Sessions |-> IF s \notin Earlier THEN [skill |-> None, status |-> "unsaved"]
                                    ELSE IF readable THEN [skill |-> 1, status |-> "ready"]
                                    ELSE [skill |-> None, status |-> "indexing"]]
  /\ outages = 0 /\ restarts = 0

Fails(f) == outages < MaxOutages /\ f \in Outages /\ outages' = outages + 1
Moves(s, to) == save' = [save EXCEPT ![s] = to]
Stage(s) == save[s].at

-----------------------------------------------------------------------------
(* EverOS *)

\* The extraction that a flush starts.
Extracts(s) ==
  /\ s \in sent
  /\ \/ s \notin cases /\ cases' = cases \cup {s} /\ UNCHANGED episodes
     \/ s \notin episodes /\ episodes' = episodes \cup {s} /\ UNCHANGED cases
  /\ UNCHANGED <<consent, task, save, row, ledger, told, sent, skills, outages, restarts>>

Made == {k \in Ids : skills[k] # NoSkill}

\* A case becomes a skill, or is worked into one there is.  What comes out may not be the
\* document that was sent; a skill that can be read stays so.
Distils(s) ==
  /\ s \in cases /\ \A k \in Ids : s \notin skills[k].cases
  /\ \/ \E readable \in BOOLEAN : \E k \in Ids \ Made :
          /\ \A j \in Ids \ Made : k <= j
          /\ skills' = [skills EXCEPT ![k] = [of |-> s, cases |-> {s}, readable |-> readable]]
     \/ \E k \in Made :
          skills' = [skills EXCEPT ![k].cases = @ \cup {s}, ![k].readable = TRUE]
  /\ UNCHANGED <<consent, task, save, row, ledger, told, sent, cases, episodes, outages, restarts>>

-----------------------------------------------------------------------------
(* The task *)

\* create_session and record_session_start.
Start(s) ==
  /\ task[s] = "new"
  /\ task' = [task EXCEPT ![s] = "active"]
  /\ ledger' = IF consent THEN [ledger EXCEPT !.begun = @ \cup {s}] ELSE ledger
  /\ UNCHANGED <<consent, save, row, told, everos, outages, restarts>>

Ends(s) == told' = told \cup {s} /\ Moves(s, At("done"))

\* _finish_run, record_outcome, and the first lines of sync_session_summary, which returns
\* at once without consent.
Recorded(s, skill, status) ==
  /\ row' = [row EXCEPT ![s] = [skill |-> skill, status |-> status]]
  /\ IF consent
     THEN /\ ledger' = [ledger EXCEPT !.done = @ \cup {s}]
          /\ Moves(s, At("summary"))
          /\ UNCHANGED told
     ELSE Ends(s) /\ UNCHANGED ledger

\* The except of _complete: sync_state becomes FAILED, and the task is still complete.
NotSaved(s) == Recorded(s, None, "failed")

Kinds == {"teach", "untaught", "replay"}

\* Mutant of Complete: only failures of EverOS are caught.
CompleteUncaught(s, kind) ==
  /\ task[s] = "active"
  /\ task' = [task EXCEPT ![s] = "completed"]
  /\ CASE kind = "teach" -> Moves(s, At("add")) /\ UNCHANGED <<row, ledger, told>>
       [] kind = "untaught" -> Moves(s, At("dead")) /\ UNCHANGED <<row, ledger, told>>
       [] kind = "replay" -> Recorded(s, row[s].skill, row[s].status)
  /\ UNCHANGED <<consent, everos, outages, restarts>>

\* _complete, up to its first await.  compile_skill raises when no step was recorded, and a
\* replay has nothing to save.
Complete(s, kind) ==
  /\ task[s] = "active"
  /\ task' = [task EXCEPT ![s] = "completed"]
  /\ CASE kind = "teach" -> Moves(s, At("add")) /\ UNCHANGED <<row, ledger, told>>
       [] kind = "untaught" -> NotSaved(s)
       [] kind = "replay" -> Recorded(s, row[s].skill, row[s].status)
  /\ UNCHANGED <<consent, everos, outages, restarts>>

-----------------------------------------------------------------------------
(* save_teach_run *)

\* The trajectory is sent, one message for each thing that happened in each step.
Added(s) ==
  /\ Stage(s) = "add"
  /\ Moves(s, At("flush"))
  /\ UNCHANGED <<consent, task, row, ledger, told, everos, outages, restarts>>

FlushArrives(s) ==
  /\ Stage(s) = "flush" /\ s \notin sent
  /\ sent' = sent \cup {s}
  /\ UNCHANGED <<consent, task, save, row, ledger, told, cases, episodes, skills, outages, restarts>>

AllReads == {"cases", "skills", "episodes"}

\* The answer of flush may already name skills made of the session.
Flushed(s) ==
  /\ Stage(s) = "flush" /\ s \in sent
  /\ \E named \in SUBSET {k \in Made : s \in skills[k].cases} :
       Moves(s, [At("read") EXCEPT !.try = 1, !.reads = AllReads, !.skills = named])
  /\ UNCHANGED <<consent, task, row, ledger, told, everos, outages, restarts>>

\* add or flush raises a WriteError, whether or not EverOS got what was sent.
WriteFails(s, f) ==
  /\ Stage(s) \in {"add", "flush"} /\ Fails(f)
  /\ NotSaved(s)
  /\ UNCHANGED <<consent, task, everos, restarts>>

-----------------------------------------------------------------------------
(* _retrieve_saved_memory: three reads at once, a few times *)

\* One of them is answered: cases and episodes of the session, and every skill there is.
Answered(s, what) ==
  /\ Stage(s) = "read" /\ what \in save[s].reads
  /\ Moves(s, [save[s] EXCEPT
       !.reads = @ \ {what},
       !.heard.cases = IF what = "cases" THEN cases \cap {s} ELSE @,
       !.heard.episode = IF what = "episodes" THEN s \in episodes ELSE @,
       !.heard.skills = IF what = "skills" THEN {[id |-> k, skill |-> skills[k]] : k \in Made}
                        ELSE @])
  /\ UNCHANGED <<consent, task, row, ledger, told, everos, outages, restarts>>

\* What save_teach_run returns: an attempt with a skill, a case and an episode is the last,
\* and so is a failure that no retry would mend.
Found(s, v) ==
  IF v.replay # None THEN Recorded(s, v.replay, "ready")
  ELSE IF v.skills = {} THEN Recorded(s, None, "indexing")
  ELSE \E k \in v.skills : Recorded(s, k, "indexing")

\* After the last attempt the search is over, else it sleeps and asks again.
Again(s, v) ==
  IF v.try = Attempts THEN Found(s, v)
  ELSE /\ Moves(s, [v EXCEPT !.try = @ + 1, !.reads = AllReads, !.heard = Silence])
       /\ UNCHANGED <<row, ledger, told>>

\* _skill_document: the front matter of the skill's content, where it still has one.
Parsed(e) == e.skill.readable

\* Mutant of Replayable: a skill the flush has named need not be readable.
ReplayableUnread(s, e, v) ==
  \/ e.id \in v.skills
  \/ Parsed(e) /\ (e.skill.of = s \/ e.skill.cases \cap v.cases # {})

\* _replay_skill_id, for a listed skill: its document can be read, and it is known, or is
\* the one sent, or comes from the session or from a known case.
Replayable(s, e, v) ==
  /\ Parsed(e)
  /\ e.id \in v.skills \/ e.skill.of = s \/ e.skill.cases \cap v.cases # {}

\* _extract_provider_ids: every key that ends in case_ids counts, source_case_ids too.
CasesNamed(listing) == UNION {e.skill.cases : e \in listing}

\* The cases of every skill listed count as known (client.py:1042); the first skill listed
\* that will do is taken, and EverOS promises no order.
Joined(s) ==
  /\ Stage(s) = "read" /\ save[s].reads = {}
  /\ LET heard == save[s].heard
         v == [save[s] EXCEPT
                 !.cases = @ \cup heard.cases \cup CasesNamed(heard.skills),
                 !.episode = @ \/ heard.episode]
         fit == {e.id : e \in {x \in heard.skills : Replayable(s, x, v)}}
     IN IF fit = {} THEN Again(s, [v EXCEPT !.replay = None])
        ELSE \E k \in fit :
               LET w == [v EXCEPT !.replay = k, !.skills = @ \cup {k}]
               IN IF w.cases # {} /\ w.episode THEN Found(s, w) ELSE Again(s, w)
  /\ UNCHANGED <<consent, task, everos, outages, restarts>>

\* gather raises with the first read that fails, and what the others say is lost.
ReadFails(s, f) ==
  /\ Stage(s) = "read" /\ save[s].reads # {} /\ Fails(f)
  /\ IF MapError(f).retryable THEN Again(s, save[s]) ELSE Found(s, save[s])
  /\ UNCHANGED <<consent, task, everos, restarts>>

-----------------------------------------------------------------------------
(* sync_session_summary *)

\* save_activity_memory, and then save_foresight when the task has a pattern.
Summarised(s) ==
  /\ Stage(s) = "summary"
  /\ ledger' = [ledger EXCEPT !.synced = @ \cup {s}]
  /\ Ends(s) \/ (Moves(s, At("foresight")) /\ UNCHANGED told)
  /\ UNCHANGED <<consent, task, row, everos, outages, restarts>>

SummaryFails(s, f) ==
  /\ Stage(s) = "summary" /\ Fails(f)
  /\ Ends(s)
  /\ UNCHANGED <<consent, task, row, ledger, everos, restarts>>

\* Whether the foresight was stored or not, COMPLETED is published.
Foreseen(s) ==
  /\ Stage(s) = "foresight"
  /\ Ends(s)
  /\ UNCHANGED <<consent, task, row, ledger, everos, outages, restarts>>

\* What was under way is gone; the session row and the ledger are on disk.
Restart ==
  /\ restarts < MaxRestarts /\ restarts' = restarts + 1
  /\ save' = [s \in Sessions |-> IF save[s].at \in {"none", "done"} THEN save[s] ELSE At("lost")]
  /\ UNCHANGED <<consent, task, row, ledger, told, everos, outages>>

-----------------------------------------------------------------------------
Saves(s) ==
  \/ Added(s) \/ FlushArrives(s) \/ Flushed(s) \/ Joined(s) \/ Summarised(s) \/ Foreseen(s)
  \/ \E what \in AllReads : Answered(s, what)
  \/ \E f \in Outages : WriteFails(s, f) \/ ReadFails(s, f) \/ SummaryFails(s, f)

TeachNext ==
  \/ \E s \in Sessions : Start(s) \/ Saves(s) \/ Extracts(s) \/ Distils(s)
  \/ \E s \in Sessions, kind \in Kinds : Complete(s, kind)
=============================================================================
