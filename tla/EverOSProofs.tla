---------------------------- MODULE EverOSProofs ----------------------------
(***************************************************************************)
(* What is kept in EverOS, for any sessions, requests, outages and         *)
(* restarts.  A session that is ready can be replayed, and an answer about *)
(* it is stale only for so long as the reads, the model and the cache      *)
(* take; the receipts of the caregiver's command line are true; the        *)
(* profile that several tabs write at once heals.                          *)
(***************************************************************************)
EXTENDS RecallProps, FiniteSetTheorems, TLAPS

CONSTANTS
  SkillIds, PageSize, MaxRuns,   \* of the command line
  MaxOperations,                 \* of the profile
  Setups, Wanted, Cleared, Wrote \* of the profile: Wrote are the requests that wrote before

VARIABLES made, objects, tool, runs, profile, setup, write, session, failures

Tool == INSTANCE MemoryToolProps WITH skills <- made, outages <- failures
Profile == INSTANCE ProfileProps WITH Earlier <- Wrote, outages <- failures

-----------------------------------------------------------------------------
(* The inductive invariant of the memory *)

\* A skill, what a listing says of one, and what a search has heard and found.
Documents == [of : Sessions \cup {"nobody"}, cases : SUBSET Sessions, readable : BOOLEAN]
Listed == [id : Ids, skill : Documents]
Words == [cases : SUBSET Sessions, episode : BOOLEAN, skills : SUBSET Listed]
Stages == {"none", "add", "flush", "read", "summary", "foresight", "done", "lost"}
Progress == [at : Stages, try : Nat, reads : SUBSET AllReads, heard : Words,
             cases : SUBSET Sessions, skills : SUBSET Ids, episode : BOOLEAN,
             replay : Ids \cup {None}]
Statuses == {"unsaved", "ready", "indexing", "failed"}
Outcome == [skill : Ids \cup {None}, status : Statuses]
Books == [begun : SUBSET Sessions, done : SUBSET Sessions, synced : SUBSET Sessions]

TeachTypes ==
  /\ consent \in BOOLEAN
  /\ task \in [Sessions -> {"new", "active", "completed"}]
  /\ save \in [Sessions -> Progress]
  /\ row \in [Sessions -> Outcome]
  /\ ledger \in Books
  /\ skills \in [Ids -> Documents]
  /\ cases \subseteq Sessions

\* A search takes up no skill that cannot be read, and a listing is no more hopeful.
Sound(v) ==
  /\ v.replay # None => skills[v.replay].readable
  /\ \A e \in v.heard.skills : e.skill.readable => skills[e.id].readable
SearchFits == \A s \in Sessions : Sound(save[s])

\* A task is saved once it has begun, and with consent the ledger has its start.
UnderWay == {"add", "flush", "read"}
LedgerFits ==
  /\ \A s \in Sessions : save[s].at \in UnderWay => task[s] # "new"
  /\ consent => \A s \in Sessions : task[s] # "new" => s \in ledger.begun
  /\ ledger.done \subseteq ledger.begun

TeachInv == TeachTypes /\ SearchFits /\ LedgerFits /\ ReadyIsReplayable

-----------------------------------------------------------------------------
(* What the steps have in common *)

\* None numbers no skill.
LEMMA SkillNumbers == MaxSkills \in Nat /\ None \notin Ids /\ (\A k \in Ids : k \in Nat)
  BY TeachMemoryAssumption DEF None, Ids

\* A save enters a stage with nothing heard and nothing found.
LEMMA StageEntered ==
  ASSUME NEW stage \in Stages
  PROVE  /\ At(stage) \in Progress
         /\ At(stage).at = stage /\ At(stage).replay = None /\ At(stage).heard.skills = {}
         /\ Sound(At(stage))
<1>1. Silence \in Words /\ Silence.skills = {}
  BY DEF Silence, Words
<1>2. /\ At(stage) \in Progress /\ At(stage).at = stage /\ At(stage).replay = None
      /\ At(stage).heard = Silence
  <2> HIDE DEF Silence
  <2> QED
    BY <1>1 DEF At, Nothing, Progress
<1>3. QED
  BY <1>1, <1>2 DEF Sound

\* The search of s goes on to v.
LEMMA Moved ==
  ASSUME TeachInv, NEW s \in Sessions, NEW v \in Progress, Moves(s, v), Sound(v),
         v.at \in UnderWay => task[s] # "new",
         UNCHANGED <<consent, task, row, ledger, skills>>, cases' \subseteq Sessions
  PROVE  TeachInv'
<1> USE DEF TeachInv, Moves
<1>1. \A r \in Sessions : save'[r] = IF r = s THEN v ELSE save[r]
  BY DEF TeachTypes
<1>2. TeachTypes'
  BY DEF TeachTypes
<1>3. SearchFits'
  BY <1>1 DEF SearchFits, Sound
<1>4. LedgerFits'
  BY <1>1 DEF LedgerFits
<1>5. ReadyIsReplayable'
  BY DEF ReadyIsReplayable
<1>6. QED
  BY <1>2, <1>3, <1>4, <1>5

\* The outcome of s is recorded, in the row and, with consent, in the ledger.
LEMMA RecordedInv ==
  ASSUME TeachInv, NEW s \in Sessions, NEW skill \in Ids \cup {None}, NEW status \in Statuses,
         Recorded(s, skill, status), task[s] # "new",
         status = "ready" => skill # None /\ skills[skill].readable,
         task' = task \/ task' = [task EXCEPT ![s] = "completed"],
         UNCHANGED <<consent, skills, cases>>
  PROVE  TeachInv' /\ ledger.done \subseteq ledger'.done
<1> USE DEF TeachInv
<1>1. \E stage \in {"summary", "done"} : Moves(s, At(stage))
  BY DEF Recorded, Ends
<1>2. PICK v \in Progress : /\ save' = [save EXCEPT ![s] = v]
                            /\ v.at \notin UnderWay /\ Sound(v)
  BY <1>1, StageEntered DEF Moves, UnderWay, Stages
<1>3. \A r \in Sessions : save'[r] = IF r = s THEN v ELSE save[r]
  BY <1>2 DEF TeachTypes
<1>4. row' = [row EXCEPT ![s] = [skill |-> skill, status |-> status]]
  BY DEF Recorded
<1>5. /\ ledger' \in Books /\ ledger'.begun = ledger.begun
      /\ ledger.done \subseteq ledger'.done
      /\ ledger'.done \subseteq ledger.done \cup (IF consent THEN {s} ELSE {})
  BY DEF Recorded, TeachTypes, Books
<1>6. TeachTypes'
  BY <1>2, <1>4, <1>5 DEF TeachTypes, Outcome
<1>7. SearchFits'
  BY <1>2, <1>3 DEF SearchFits, Sound
<1>8. LedgerFits'
  BY <1>2, <1>3, <1>5 DEF LedgerFits, TeachTypes
<1>9. ReadyIsReplayable'
  BY <1>4 DEF ReadyIsReplayable, TeachTypes
<1>10. QED
  BY <1>5, <1>6, <1>7, <1>8, <1>9

\* The search ends with a skill that can be read, or with none.
LEMMA FoundInv ==
  ASSUME TeachInv, NEW s \in Sessions, NEW v \in Progress, Sound(v), Found(s, v),
         task[s] # "new", UNCHANGED <<consent, task, skills, cases>>
  PROVE  TeachInv' /\ ledger.done \subseteq ledger'.done
<1>1. v.replay \in Ids \cup {None} /\ v.skills \subseteq Ids
  BY DEF Progress
<1>2. CASE v.replay # None
  BY <1>1, <1>2, RecordedInv DEF Found, Sound, Statuses
<1>3. CASE v.replay = None
  <2>1. \E k \in Ids \cup {None} : Recorded(s, k, "indexing")
    BY <1>1, <1>3 DEF Found
  <2>2. QED
    BY <2>1, RecordedInv DEF Statuses
<1>4. QED
  BY <1>2, <1>3

\* Or it asks again, and has heard nothing yet.
LEMMA AgainInv ==
  ASSUME TeachInv, NEW s \in Sessions, NEW v \in Progress, Sound(v), Again(s, v),
         task[s] # "new", UNCHANGED <<consent, task, skills, cases>>
  PROVE  TeachInv' /\ ledger.done \subseteq ledger'.done
<1>1. CASE v.try = Attempts
  BY <1>1, FoundInv DEF Again
<1>2. CASE v.try # Attempts
  <2> DEFINE w == [v EXCEPT !.try = @ + 1, !.reads = AllReads, !.heard = Silence]
  <2>1. Silence \in Words /\ Silence.skills = {}
    BY DEF Silence, Words
  <2>2. w \in Progress /\ w.replay = v.replay /\ w.heard = Silence
    <3>1. v.try + 1 \in Nat
      BY DEF Progress
    <3>2. QED
      <4> HIDE DEF Silence
      <4> QED
        BY <2>1, <3>1 DEF Progress
  <2>3. Moves(s, w) /\ UNCHANGED <<row, ledger>>
    BY <1>2 DEF Again
  <2>4. QED
    <3> HIDE DEF w
    <3>1. Sound(w)
      BY <2>1, <2>2 DEF Sound
    <3>2. cases' \subseteq Sessions
      BY DEF TeachInv, TeachTypes
    <3>3. QED
      BY <2>2, <2>3, <3>1, <3>2, Moved
<1>3. QED
  BY <1>1, <1>2

\* The first state satisfies the invariant.
LEMMA InitTeach == Init => TeachInv
<1> SUFFICES ASSUME Init PROVE TeachInv
  OBVIOUS
<1> USE DEF Init
<1>1. Earlier \subseteq Sessions
  BY TeachMemoryAssumption
<1>2. Nothing \in Progress /\ Nothing.at = "none" /\ Sound(Nothing)
  <2>1. Silence \in Words /\ Silence.skills = {}
    BY DEF Silence, Words
  <2>2. QED
    <3> HIDE DEF Silence
    <3> QED
      BY <2>1 DEF Nothing, Progress, Stages, Sound
<1>3. \A s \in Sessions : /\ save[s] \in Progress /\ save[s].at \notin UnderWay
                          /\ Sound(save[s])
  <2>1. "done" \in Stages /\ "done" \notin UnderWay /\ "none" \notin UnderWay
    BY DEF Stages, UnderWay
  <2>2. QED
    BY <1>2, <2>1, StageEntered
<1>4. save \in [Sessions -> Progress]
  BY <1>3
<1>5. PICK readable \in BOOLEAN :
        /\ skills = [k \in Ids |-> IF \E s \in Earlier : k = 1
                                   THEN [of |-> CHOOSE s \in Earlier : TRUE, cases |-> Earlier,
                                         readable |-> readable]
                                   ELSE NoSkill]
        /\ row = [s \in Sessions |-> IF s \notin Earlier THEN [skill |-> None, status |-> "unsaved"]
                                     ELSE IF readable THEN [skill |-> 1, status |-> "ready"]
                                     ELSE [skill |-> None, status |-> "indexing"]]
  OBVIOUS
<1>6. 1 \in Ids
  BY TeachMemoryAssumption DEF Ids
<1>7. skills \in [Ids -> Documents]
  <2>1. NoSkill \in Documents
    BY DEF NoSkill, Documents
  <2>2. Earlier # {} => (CHOOSE s \in Earlier : TRUE) \in Sessions
    BY <1>1
  <2>3. ASSUME Earlier # {}
        PROVE  [of |-> CHOOSE s \in Earlier : TRUE, cases |-> Earlier, readable |-> readable]
                 \in Documents
    BY <1>1, <2>2, <2>3 DEF Documents
  <2>4. QED
    BY <1>5, <2>1, <2>3
<1>8. row \in [Sessions -> Outcome]
  BY <1>5, <1>6 DEF Outcome, Statuses
<1>9. TeachTypes
  BY <1>1, <1>4, <1>7, <1>8 DEF TeachTypes, Books
<1>10. SearchFits /\ LedgerFits
  BY <1>1, <1>3 DEF SearchFits, LedgerFits, UnderWay
<1>11. ReadyIsReplayable
  <2> SUFFICES ASSUME NEW s \in Sessions, row[s].status = "ready"
               PROVE  row[s].skill # None /\ skills[row[s].skill].readable
    BY DEF ReadyIsReplayable
  <2>1. s \in Earlier /\ readable /\ row[s].skill = 1
    BY <1>5
  <2>2. skills[1].readable
    BY <1>5, <1>6, <2>1
  <2>3. QED
    BY <1>6, <2>1, <2>2, SkillNumbers
<1>12. QED
  BY <1>9, <1>10, <1>11 DEF TeachInv

\* EverOS makes skills of cases; what can be read stays so.
LEMMA EverOSTeach ==
  ASSUME TeachInv, NEW s \in Sessions, Extracts(s) \/ Distils(s)
  PROVE  TeachInv' /\ ledger' = ledger
<1> USE DEF TeachInv
<1>1. UNCHANGED <<consent, task, save, row, ledger>> /\ cases' \subseteq Sessions
  BY DEF Extracts, Distils, TeachTypes
<1>2. /\ skills' \in [Ids -> Documents]
      /\ \A k \in Ids : skills[k].readable => skills'[k].readable
  <2>1. CASE skills' = skills
    BY <2>1 DEF TeachTypes
  <2>2. CASE Distils(s)
    <3>1. ASSUME NEW k \in Ids \ Made, NEW readable \in BOOLEAN,
                 skills' = [skills EXCEPT ![k] = [of |-> s, cases |-> {s}, readable |-> readable]]
          PROVE  /\ skills' \in [Ids -> Documents]
                 /\ \A j \in Ids : skills[j].readable => skills'[j].readable
      <4>1. ~skills[k].readable
        BY DEF Made, NoSkill
      <4>2. QED
        BY <3>1, <4>1 DEF TeachTypes, Documents
    <3>2. ASSUME NEW k \in Ids,
                 skills' = [skills EXCEPT ![k].cases = @ \cup {s}, ![k].readable = TRUE]
          PROVE  /\ skills' \in [Ids -> Documents]
                 /\ \A j \in Ids : skills[j].readable => skills'[j].readable
      <4>1. PICK d \in Documents : d.readable /\ skills' = [skills EXCEPT ![k] = d]
        <5> DEFINE d == [skills[k] EXCEPT !.cases = @ \cup {s}, !.readable = TRUE]
        <5>1. skills[k] \in Documents
          BY DEF TeachTypes
        <5>2. d \in Documents /\ d.readable
          BY <5>1 DEF Documents
        <5>3. skills' = [skills EXCEPT ![k] = d]
          BY <3>2 DEF TeachTypes
        <5>4. QED
          BY <5>2, <5>3
      <4>2. QED
        BY <4>1 DEF TeachTypes
    <3>3. QED
      BY <2>2, <3>1, <3>2 DEF Distils, Made
  <2>3. QED
    BY <2>1, <2>2 DEF Extracts
<1>3. TeachTypes'
  BY <1>1, <1>2 DEF TeachTypes
<1>4. SearchFits'
  <2> SUFFICES ASSUME NEW r \in Sessions PROVE Sound(save[r])'
    BY DEF SearchFits
  <2>1. save[r].replay \in Ids \cup {None} /\ save[r].heard.skills \subseteq Listed
    BY DEF TeachTypes, Progress, Words
  <2>2. QED
    BY <1>1, <1>2, <2>1 DEF SearchFits, Sound, Listed
<1>5. LedgerFits'
  BY <1>1 DEF LedgerFits
<1>6. ReadyIsReplayable'
  BY <1>1, <1>2 DEF ReadyIsReplayable, TeachTypes, Outcome
<1>7. QED
  BY <1>1, <1>3, <1>4, <1>5, <1>6

\* A task starts; with consent the ledger has its start.
LEMMA StartTeach ==
  ASSUME TeachInv, NEW s \in Sessions, Start(s)
  PROVE  TeachInv' /\ ledger'.done = ledger.done
<1> USE DEF TeachInv, Start, everos
<1>1. /\ ledger' \in Books /\ ledger'.done = ledger.done
      /\ ledger.begun \subseteq ledger'.begun /\ (consent => s \in ledger'.begun)
  BY DEF TeachTypes, Books
<1>2. TeachTypes'
  BY <1>1 DEF TeachTypes
<1>3. SearchFits' /\ ReadyIsReplayable'
  BY DEF SearchFits, Sound, ReadyIsReplayable
<1>4. LedgerFits'
  BY <1>1 DEF LedgerFits, TeachTypes
<1>5. QED
  BY <1>1, <1>2, <1>3, <1>4

\* A task is complete, whatever it has to save.
LEMMA CompleteTeach ==
  ASSUME TeachInv, NEW s \in Sessions, NEW kind \in Kinds, Complete(s, kind)
  PROVE  TeachInv' /\ ledger.done \subseteq ledger'.done
<1> USE DEF everos
<1>1. /\ task[s] # "new" /\ task' = [task EXCEPT ![s] = "completed"]
      /\ UNCHANGED <<consent, skills, cases>>
  BY DEF Complete
<1>2. row[s] \in Outcome
  BY DEF TeachInv, TeachTypes
<1>3. CASE kind = "untaught"
  <2>1. Recorded(s, None, "failed")
    BY <1>3 DEF Complete, NotSaved
  <2>2. QED
    BY <1>1, <2>1, RecordedInv DEF Statuses
<1>4. CASE kind = "replay"
  <2>1. Recorded(s, row[s].skill, row[s].status)
    BY <1>4 DEF Complete
  <2>2. row[s].status = "ready" => row[s].skill # None /\ skills[row[s].skill].readable
    BY DEF TeachInv, ReadyIsReplayable
  <2>3. QED
    BY <1>1, <1>2, <2>1, <2>2, RecordedInv DEF Outcome
<1>5. CASE kind = "teach"
  <2> USE DEF TeachInv
  <2>1. PICK v \in Progress : save' = [save EXCEPT ![s] = v] /\ Sound(v)
    BY <1>5, StageEntered DEF Complete, Moves, Stages
  <2>2. UNCHANGED <<row, ledger>>
    BY <1>5 DEF Complete
  <2>3. TeachTypes'
    BY <1>1, <2>1, <2>2 DEF TeachTypes
  <2>4. SearchFits'
    BY <1>1, <2>1 DEF SearchFits, Sound, TeachTypes
  <2>5. LedgerFits' /\ ReadyIsReplayable'
    BY <1>1, <2>1, <2>2 DEF LedgerFits, ReadyIsReplayable, TeachTypes
  <2>6. QED
    BY <2>2, <2>3, <2>4, <2>5
<1>6. QED
  BY <1>3, <1>4, <1>5 DEF Kinds

\* A read of the search is answered; what is listed as readable can be read.
LEMMA AnsweredTeach ==
  ASSUME TeachInv, NEW s \in Sessions, NEW what \in AllReads, Answered(s, what)
  PROVE  TeachInv' /\ ledger' = ledger
<1> USE DEF everos
<1>1. save[s] \in Progress /\ save[s].heard \in Words
  BY DEF TeachInv, TeachTypes, Progress
<1>2. PICK E \in BOOLEAN : E = (s \in episodes)
  <2>1. (s \in episodes) \in BOOLEAN
    OBVIOUS
  <2>2. QED
    BY <2>1, Zenon
<1> DEFINE listing == {[id |-> k, skill |-> skills[k]] : k \in Made}
           C == IF what = "cases" THEN cases \cap {s} ELSE save[s].heard.cases
           F == IF what = "episodes" THEN E ELSE save[s].heard.episode
           K == IF what = "skills" THEN listing ELSE save[s].heard.skills
           v == [save[s] EXCEPT !.reads = @ \ {what}, !.heard.cases = C,
                                !.heard.episode = F, !.heard.skills = K]
<1>3. Moves(s, v) /\ save[s].at = "read"
  BY <1>2 DEF Answered, Stage
<1>4. listing \subseteq Listed
  BY DEF TeachInv, TeachTypes, Listed, Made
<1>5. \A e \in listing : e.skill.readable => skills[e.id].readable
  OBVIOUS
<1>6. C \in SUBSET Sessions /\ F \in BOOLEAN /\ K \in SUBSET Listed
  <2> HIDE DEF listing
  <2>1. save[s].heard.cases \subseteq Sessions /\ save[s].heard.skills \subseteq Listed
    BY <1>1 DEF Words
  <2>2. save[s].heard.episode \in BOOLEAN
    BY <1>1 DEF Words
  <2>3. cases \subseteq Sessions
    BY DEF TeachInv, TeachTypes
  <2>4. C \in SUBSET Sessions
    BY <2>1, <2>3
  <2>5. K \in SUBSET Listed
    BY <1>4, <2>1
  <2>6. F \in BOOLEAN
    BY <2>2
  <2>7. QED
    BY <2>4, <2>5, <2>6
<1>7. \A e \in K : e.skill.readable => skills[e.id].readable
  <2>1. \A e \in save[s].heard.skills : e.skill.readable => skills[e.id].readable
    BY DEF TeachInv, SearchFits, Sound
  <2>2. QED
    <3> HIDE DEF listing
    <3> QED
      BY <1>5, <2>1
<1>8. /\ v \in Progress /\ v.at = "read" /\ v.replay = save[s].replay /\ v.heard.skills = K
  <2> HIDE DEF C, F, K
  <2> DEFINE h == [save[s].heard EXCEPT !.cases = C, !.episode = F, !.skills = K]
  <2>1. h \in Words /\ h.skills = K
    BY <1>1, <1>6 DEF Words
  <2>2. v = [save[s] EXCEPT !.reads = @ \ {what}, !.heard = h]
    BY <1>1 DEF Progress, Words
  <2>3. QED
    <3> HIDE DEF h, v
    <3> QED
      BY <1>1, <1>3, <2>1, <2>2 DEF Progress
<1>9. UNCHANGED <<consent, task, row, ledger, skills>> /\ cases' \subseteq Sessions
  BY DEF Answered, TeachInv, TeachTypes
<1>10. Sound(v)
  <2> HIDE DEF v, K
  <2> QED
    BY <1>7, <1>8 DEF TeachInv, SearchFits, Sound
<1>11. task[s] # "new"
  BY <1>3 DEF TeachInv, LedgerFits, UnderWay
<1>12. QED
  <2> HIDE DEF v
  <2> QED
    BY <1>3, <1>8, <1>9, <1>10, <1>11, Moved

\* The reads are joined: only a skill that can be read will do.
LEMMA JoinedTeach ==
  ASSUME TeachInv, NEW s \in Sessions, Joined(s)
  PROVE  TeachInv' /\ ledger.done \subseteq ledger'.done
<1> USE DEF everos
<1> DEFINE heard == save[s].heard
           C == save[s].cases \cup heard.cases \cup CasesNamed(heard.skills)
           E == save[s].episode \/ heard.episode
           v == [save[s] EXCEPT !.cases = C, !.episode = E]
           fit == {e.id : e \in {x \in heard.skills : Replayable(s, x, v)}}
           none == [v EXCEPT !.replay = None]
           with(k) == [v EXCEPT !.replay = k, !.skills = @ \cup {k}]
<1>1. /\ fit = {} => Again(s, none)
      /\ fit # {} => \E k \in fit : Found(s, with(k)) \/ Again(s, with(k))
  BY DEF Joined
<1>2. save[s] \in Progress /\ heard \in Words /\ heard.skills \subseteq Listed
  BY DEF TeachInv, TeachTypes, Progress, Words
<1>3. C \in SUBSET Sessions
  <2>1. CasesNamed(heard.skills) \subseteq Sessions
    BY <1>2 DEF CasesNamed, Listed, Documents
  <2>2. save[s].cases \subseteq Sessions /\ heard.cases \subseteq Sessions
    BY <1>2 DEF Progress, Words
  <2>3. QED
    BY <2>1, <2>2
<1>4. E \in BOOLEAN
  OBVIOUS
<1>5. v \in Progress /\ v.heard = heard
  <2> HIDE DEF C, E
  <2> QED
    BY <1>2, <1>3, <1>4 DEF Progress
<1>6. \A k \in fit : k \in Ids /\ skills[k].readable
  <2>1. \A e \in heard.skills : e.skill.readable => skills[e.id].readable
    BY DEF TeachInv, SearchFits, Sound
  <2>2. \A x \in heard.skills : Replayable(s, x, v) => x.skill.readable
    BY DEF Replayable, Parsed
  <2>3. QED
    <3> HIDE DEF v, heard
    <3> QED
      BY <1>2, <2>1, <2>2 DEF Listed
<1>7. none \in Progress /\ Sound(none)
  <2> HIDE DEF v
  <2>1. none \in Progress /\ none.replay = None /\ none.heard = heard
    BY <1>5 DEF Progress
  <2>2. QED
    <3> HIDE DEF none
    <3> QED
      BY <2>1 DEF Sound, TeachInv, SearchFits
<1>8. ASSUME NEW k \in fit PROVE with(k) \in Progress /\ Sound(with(k))
  <2>1. k \in Ids /\ skills[k].readable
    BY <1>6
  <2> HIDE DEF v, fit
  <2>2. with(k) \in Progress /\ with(k).replay = k /\ with(k).heard = heard
    BY <1>5, <2>1 DEF Progress
  <2>3. QED
    <3> HIDE DEF with
    <3> QED
      BY <2>1, <2>2 DEF Sound, TeachInv, SearchFits
<1>9. task[s] # "new" /\ UNCHANGED <<consent, task, skills, cases>>
  BY DEF Joined, Stage, TeachInv, LedgerFits, UnderWay
<1>10. QED
  <2> HIDE DEF none, with, fit
  <2> QED
    BY <1>1, <1>7, <1>8, <1>9, FoundInv, AgainInv

\* The other steps of a save.
LEMMA SavesTeach ==
  ASSUME TeachInv, NEW s \in Sessions, Saves(s)
  PROVE  TeachInv' /\ ledger.done \subseteq ledger'.done
<1> USE DEF everos
<1>1. save[s] \in Progress /\ Sound(save[s])
  BY DEF TeachInv, TeachTypes, SearchFits
<1>2. cases \subseteq Sessions
  BY DEF TeachInv, TeachTypes
<1>3. CASE Added(s) \/ Foreseen(s)
  <2>1. PICK stage \in {"flush", "done"} :
          Moves(s, At(stage)) /\ (stage = "flush" => save[s].at = "add")
    BY <1>3 DEF Added, Foreseen, Ends, Stage
  <2>2. At(stage) \in Progress /\ At(stage).at = stage /\ Sound(At(stage))
    BY StageEntered DEF Stages
  <2>3. At(stage).at \in UnderWay => task[s] # "new"
    BY <2>1, <2>2 DEF UnderWay, TeachInv, LedgerFits
  <2>4. UNCHANGED <<consent, task, row, ledger, skills, cases>>
    BY <1>3 DEF Added, Foreseen
  <2>5. QED
    BY <1>2, <2>1, <2>2, <2>3, <2>4, Moved
<1>4. CASE FlushArrives(s)
  BY <1>4 DEF FlushArrives, TeachInv, TeachTypes, SearchFits, Sound, LedgerFits,
              ReadyIsReplayable
<1>5. CASE Flushed(s)
  <2>1. PICK named \in SUBSET Ids :
          Moves(s, [At("read") EXCEPT !.try = 1, !.reads = AllReads, !.skills = named])
    BY <1>5 DEF Flushed, Made
  <2> DEFINE v == [At("read") EXCEPT !.try = 1, !.reads = AllReads, !.skills = named]
  <2>2. /\ At("read") \in Progress /\ At("read").at = "read" /\ Sound(At("read"))
    BY StageEntered DEF Stages
  <2>3. v \in Progress /\ v.replay = At("read").replay /\ v.heard = At("read").heard
    BY <2>2 DEF Progress
  <2>4. task[s] # "new" /\ UNCHANGED <<consent, task, row, ledger, skills, cases>>
    BY <1>5 DEF Flushed, Stage, TeachInv, LedgerFits, UnderWay
  <2>5. QED
    <3> HIDE DEF v
    <3>1. Sound(v)
      BY <2>2, <2>3 DEF Sound
    <3>2. Moves(s, v)
      BY <2>1 DEF v
    <3>3. QED
      BY <1>2, <2>3, <2>4, <3>1, <3>2, Moved
<1>6. CASE Joined(s)
  BY <1>6, JoinedTeach
<1>7. CASE Summarised(s)
  <2> USE DEF TeachInv
  <2>1. PICK v \in Progress : /\ save' = [save EXCEPT ![s] = v]
                              /\ v.at \notin UnderWay /\ Sound(v)
    BY <1>7, StageEntered DEF Summarised, Ends, Moves, Stages, UnderWay
  <2>2. UNCHANGED <<consent, task, row, skills, cases>>
    BY <1>7 DEF Summarised
  <2>3. /\ ledger' \in Books /\ ledger'.done = ledger.done /\ ledger'.begun = ledger.begun
    BY <1>7 DEF Summarised, TeachTypes, Books
  <2>4. TeachTypes'
    BY <2>1, <2>2, <2>3 DEF TeachTypes
  <2>5. SearchFits'
    BY <2>1, <2>2 DEF SearchFits, Sound, TeachTypes
  <2>6. LedgerFits' /\ ReadyIsReplayable'
    BY <2>1, <2>2, <2>3 DEF LedgerFits, ReadyIsReplayable, TeachTypes
  <2>7. QED
    BY <2>3, <2>4, <2>5, <2>6
<1>8. CASE \E what \in AllReads : Answered(s, what)
  BY <1>8, AnsweredTeach
<1>9. CASE \E f \in Outages : WriteFails(s, f)
  <2>1. Recorded(s, None, "failed") /\ UNCHANGED <<consent, task, skills, cases>>
    BY <1>9 DEF WriteFails, NotSaved
  <2>2. task[s] # "new"
    BY <1>9 DEF WriteFails, Stage, TeachInv, LedgerFits, UnderWay
  <2>3. QED
    BY <2>1, <2>2, RecordedInv DEF Statuses
<1>10. CASE \E f \in Outages : ReadFails(s, f)
  <2>1. Again(s, save[s]) \/ Found(s, save[s])
    BY <1>10 DEF ReadFails
  <2>2. task[s] # "new" /\ UNCHANGED <<consent, task, skills, cases>>
    BY <1>10 DEF ReadFails, Stage, TeachInv, LedgerFits, UnderWay
  <2>3. QED
    BY <1>1, <2>1, <2>2, FoundInv, AgainInv
<1>11. CASE \E f \in Outages : SummaryFails(s, f)
  <2>1. Moves(s, At("done")) /\ UNCHANGED <<consent, task, row, ledger, skills, cases>>
    BY <1>11 DEF SummaryFails, Ends
  <2>2. At("done") \in Progress /\ At("done").at = "done" /\ Sound(At("done"))
    BY StageEntered DEF Stages
  <2>3. QED
    BY <1>2, <2>1, <2>2, Moved DEF UnderWay
<1>12. QED
  BY <1>3, <1>4, <1>5, <1>6, <1>7, <1>8, <1>9, <1>10, <1>11 DEF Saves

\* A restart loses what was under way.
LEMMA RestartTeach ==
  ASSUME TeachInv, Restart
  PROVE  TeachInv' /\ ledger' = ledger
<1> USE DEF TeachInv, Restart, everos
<1>1. \A s \in Sessions : save'[s] = save[s] \/ save'[s] = At("lost")
  OBVIOUS
<1>2. /\ At("lost") \in Progress /\ At("lost").at = "lost" /\ Sound(At("lost"))
  BY StageEntered DEF Stages
<1>3. save' \in [Sessions -> Progress]
  BY <1>2 DEF TeachTypes
<1>4. TeachTypes'
  BY <1>3 DEF TeachTypes
<1>5. SearchFits'
  BY <1>1, <1>2 DEF SearchFits, Sound
<1>6. LedgerFits' /\ ReadyIsReplayable'
  BY <1>1, <1>2 DEF LedgerFits, UnderWay, ReadyIsReplayable
<1>7. QED
  BY <1>4, <1>5, <1>6

\* Every step keeps what holds of the memory, and the ledger forgets no outcome.
LEMMA TeachStep ==
  ASSUME TeachInv, [RecallNext]_allVars
  PROVE  TeachInv' /\ ledger.done \subseteq ledger'.done
<1>1. CASE TeachNext
  BY <1>1, StartTeach, SavesTeach, EverOSTeach, CompleteTeach DEF TeachNext
<1>2. CASE Restart
  BY <1>2, RestartTeach
<1>3. CASE UNCHANGED <<consent, task, save, row, ledger, skills, cases>>
  BY <1>3 DEF TeachInv, TeachTypes, SearchFits, Sound, LedgerFits, ReadyIsReplayable
<1>4. QED
  BY <1>1, <1>2, <1>3 DEF RecallNext, RecallRestart, Tick, ReadsHistory, HistoryFails,
                          ReadsEverOS, Gathered, Phrased, Heard, Cached, Ask, allVars, vars,
                          everos

\* What is true of the memory in every reachable state.
THEOREM TeachInvHolds == Spec => []TeachInv
<1>1. RecallInit => TeachInv
  BY InitTeach DEF RecallInit
<1>2. TeachInv /\ [RecallNext]_allVars => TeachInv'
  BY TeachStep
<1>3. QED
  BY <1>1, <1>2, PTL DEF Spec

\* A session that is ready names a skill that can be opened for replay, whatever EverOS makes
\* of the cases, lists in which order, and fails to answer.
THEOREM ReadyHolds == Spec => []ReadyIsReplayable
<1>1. TeachInv => ReadyIsReplayable
  BY DEF TeachInv
<1>2. QED
  BY <1>1, TeachInvHolds, PTL

-----------------------------------------------------------------------------
(* The inductive invariant of the questions *)

Histories == [begun : SUBSET Sessions, done : SUBSET Sessions]
Asked == [at : {"read"}, about : Tasks, history : Histories \cup {Unread},
          episode : BOOLEAN \cup {Unread}, age : 0..ReadTime]
Phrasing == [at : {"phrase"}, about : Tasks, says : SUBSET Sessions, age : 0..ModelTime]
Told == [at : {"answered"}, about : Tasks, says : SUBSET Sessions]
Queries == {Idle} \cup Asked \cup Phrasing \cup Told
Entry == [age : 0..CacheTime, answer : SUBSET Sessions]

RecallTypes ==
  /\ ask \in [Askers -> Queries]
  /\ cache \in [Tasks -> {Uncached} \cup Entry]
  /\ since \in [Sessions -> 0..Staleness] /\ failed \in [Tasks -> 0..Staleness]

\* An answer leaves out no outcome of the task older than so many ticks, unless a read of the
\* ledger failed as lately.
Misses(t, answer, ticks) ==
  failed[t] <= ticks \/ \A s \in Of(t) : s \notin answer => since[s] <= ticks

\* What was read, and what is put into words, is behind by no more than it took so far.
Fresh(q) ==
  /\ q.at = "read" /\ q.history # Unread =>
       /\ Misses(q.about, q.history.done, q.age)
       /\ q.history.done \subseteq q.history.begun
  /\ q.at = "phrase" => Misses(q.about, q.says, ReadTime + q.age)

\* What is kept, by no more than that and its age.
Kept(t) == cache[t] # Uncached =>
  Misses(t, cache[t].answer, ReadTime + ModelTime + cache[t].age)

\* What is not in the ledger has no age.
AgesFit ==
  /\ \A s \in Sessions : s \notin ledger.done => since[s] = 0
  /\ \A a \in Askers : Fresh(ask[a])
  /\ \A t \in Tasks : Kept(t)

RecallInv == TeachInv /\ RecallTypes /\ AgesFit

-----------------------------------------------------------------------------
(* The questions *)

\* The bounds are numbers, and each part takes a tick at least.
LEMMA Times ==
  /\ ReadTime \in Nat /\ ModelTime \in Nat /\ CacheTime \in Nat /\ Staleness \in Nat
  /\ ReadTime > 0 /\ ModelTime > 0 /\ CacheTime > 0
  /\ Staleness = ReadTime + ModelTime + CacheTime
  BY RecallAssumption DEF Staleness, ReadTime

\* The sessions of a task are sessions.
LEMMA OfTasks == \A t \in Tasks : Of(t) \subseteq Sessions
  BY DEF Of

\* A query is known by where it is.
LEMMA QueryShapes ==
  ASSUME NEW q \in Queries
  PROVE  /\ q.at = "read" => q \in Asked
         /\ q.at = "phrase" => q \in Phrasing
         /\ q.at = "answered" => q \in Told
         /\ q.at = "none" => q = Idle
  BY DEF Queries, Asked, Phrasing, Told, Idle

\* An idle or answered query is fresh.
LEMMA Quiet ==
  ASSUME NEW q, q.at \in {"none", "answered"}
  PROVE  Fresh(q)
  BY DEF Fresh

\* What is read of the ledger when the read fails.
Blank == [begun |-> {}, done |-> {}]

\* The query of a goes on to q, a read of the ledger may have failed, and the cache keeps what
\* fits.
LEMMA AskMoved ==
  ASSUME RecallInv, NEW a \in Askers, NEW q \in Queries, Asks(a, q),
         \/ Fresh(q)
         \/ q.at = "read" /\ q.history = Blank /\ failed'[q.about] = 0,
         UNCHANGED <<ledger, since>>, failed' \in [Tasks -> 0..Staleness],
         \A t \in Tasks : failed'[t] \in {failed[t], 0},
         cache' \in [Tasks -> {Uncached} \cup Entry],
         \A t \in Tasks : cache'[t] = cache[t] \/ Kept(t)'
  PROVE  RecallTypes' /\ AgesFit'
<1> USE DEF RecallInv
<1>1. \A b \in Askers : ask'[b] = IF b = a THEN q ELSE ask[b]
  BY DEF Asks, RecallTypes
<1>2. RecallTypes'
  BY DEF RecallTypes, Asks
<1>3. ledger' = ledger /\ since' = since
  OBVIOUS
<1>4. ASSUME NEW t \in Tasks, NEW answer, NEW ticks \in Nat, Misses(t, answer, ticks)
      PROVE  Misses(t, answer, ticks)'
  BY <1>3, <1>4, Times DEF Misses
<1>5. ASSUME NEW p \in Queries, Fresh(p) PROVE Fresh(p)'
  <2>1. CASE p.at = "read"
    <3>1. p.about \in Tasks /\ p.age \in Nat
      BY <2>1, QueryShapes, Times DEF Asked
    <3>2. QED
      BY <1>4, <1>5, <2>1, <3>1 DEF Fresh
  <2>2. CASE p.at = "phrase"
    <3>1. p.about \in Tasks /\ ReadTime + p.age \in Nat
      BY <2>2, QueryShapes, Times DEF Phrasing
    <3>2. QED
      BY <1>4, <1>5, <2>2, <3>1 DEF Fresh
  <2>3. QED
    BY <2>1, <2>2 DEF Fresh
<1>6. ASSUME q.at = "read", q.history = Blank, failed'[q.about] = 0 PROVE Fresh(q)'
  <2>1. q.about \in Tasks /\ q.age \in Nat
    BY <1>6, QueryShapes, Times DEF Asked
  <2>2. QED
    BY <1>6, <2>1 DEF Fresh, Misses, Blank
<1>7. \A b \in Askers : Fresh(ask[b])'
  <2>1. Fresh(q)'
    BY <1>5, <1>6
  <2>2. \A b \in Askers : ask[b] \in Queries /\ Fresh(ask[b])
    BY DEF AgesFit, RecallTypes
  <2>3. ASSUME NEW b \in Askers, b # a PROVE Fresh(ask[b])'
    <3>1. PICK p \in Queries : p = ask[b] /\ p = ask'[b] /\ Fresh(p)
      BY <1>1, <2>2, <2>3
    <3>2. Fresh(p)'
      BY <1>5, <3>1
    <3>3. QED
      BY <3>1, <3>2 DEF Fresh, Misses
  <2>4. ask'[a] = q
    BY <1>1
  <2>5. QED
    BY <2>1, <2>3, <2>4 DEF Fresh, Misses
<1>8. ASSUME NEW t \in Tasks, cache'[t] = cache[t] PROVE Kept(t)'
  <2>1. CASE cache[t] = Uncached
    BY <1>8, <2>1 DEF Kept
  <2>2. CASE cache[t] # Uncached
    <3>1. ReadTime + ModelTime + cache[t].age \in Nat
      BY <2>2, Times DEF RecallTypes, Entry
    <3>2. PICK answer \in {cache[t].answer}, n \in Nat :
            n = ReadTime + ModelTime + cache[t].age /\ Misses(t, answer, n)
      BY <2>2, <3>1 DEF AgesFit, Kept
    <3>3. Misses(t, answer, n)'
      BY <1>4, <3>2
    <3>4. QED
      BY <1>8, <3>2, <3>3 DEF Kept, Misses
  <2>3. QED
    BY <2>1, <2>2
<1>9. \A t \in Tasks : Kept(t)'
  BY <1>8
<1>10. QED
  BY <1>2, <1>3, <1>7, <1>9 DEF AgesFit

\* The same, when no read failed.
LEMMA AskGoes ==
  ASSUME RecallInv, NEW a \in Askers, NEW q \in Queries, Asks(a, q), Fresh(q),
         UNCHANGED <<vars, clocks>>,
         cache' \in [Tasks -> {Uncached} \cup Entry],
         \A t \in Tasks : cache'[t] = cache[t] \/ Kept(t)'
  PROVE  RecallTypes' /\ AgesFit'
BY AskMoved DEF vars, clocks, RecallInv, RecallTypes

\* At first nobody asks and nothing is kept.
LEMMA InitRecall == RecallInit => RecallInv
<1> SUFFICES ASSUME RecallInit PROVE RecallInv
  OBVIOUS
<1> USE DEF RecallInit
<1>1. TeachInv
  BY InitTeach
<1>2. RecallTypes
  BY Times DEF RecallTypes, Queries
<1>3. AgesFit
  BY Quiet DEF AgesFit, Idle, Kept
<1>4. QED
  BY <1>1, <1>2, <1>3 DEF RecallInv

\* Outcomes are recorded, and enter the ledger with no age; or the backend restarts.
LEMMA TeachRecall ==
  ASSUME RecallInv,
         \/ TeachNext /\ UNCHANGED recall
         \/ RecallRestart
         \/ UNCHANGED allVars
  PROVE  RecallTypes' /\ AgesFit'
<1> USE DEF RecallInv
<1>1. ledger.done \subseteq ledger'.done
  <2>1. [RecallNext]_allVars
    BY DEF RecallNext
  <2>2. QED
    BY <2>1, TeachStep
<1>2. since' = since /\ failed' = failed
  BY DEF recall, clocks, allVars, RecallRestart
<1>3. \A s \in Sessions : s \notin ledger'.done => since'[s] = 0
  BY <1>1, <1>2 DEF AgesFit
<1>4. CASE ask' = ask /\ cache' = cache
  <2>1. RecallTypes'
    BY <1>2, <1>4 DEF RecallTypes
  <2>2. QED
    BY <1>2, <1>3, <1>4, <2>1 DEF AgesFit, Fresh, Kept, Misses
<1>5. CASE RecallRestart
  <2>1. RecallTypes'
    BY <1>2, <1>5 DEF RecallTypes, RecallRestart, Queries
  <2>2. \A a \in Askers : ask'[a] = Idle
    BY <1>5 DEF RecallRestart
  <2>3. \A a \in Askers : Fresh(ask[a])'
    BY <2>2 DEF Fresh, Idle
  <2>4. \A t \in Tasks : Kept(t)'
    BY <1>5 DEF RecallRestart, Kept
  <2>5. QED
    BY <1>3, <2>1, <2>3, <2>4 DEF AgesFit
<1>6. QED
  BY <1>4, <1>5 DEF recall, allVars

\* A cached answer is given; it left out nothing older than the parts it is made of.
LEMMA CachedRecall ==
  ASSUME RecallInv, NEW a \in Askers, NEW t \in Tasks, Cached(a, t)
  PROVE  /\ RecallTypes' /\ AgesFit'
         /\ Asks(a, Says(cache[t].answer, t))
         /\ Misses(t, cache[t].answer, Staleness - 1)
<1> USE DEF RecallInv
<1> DEFINE q == Says(cache[t].answer, t)
<1>1. cache[t] # Uncached /\ cache[t] \in Entry /\ cache[t].age < CacheTime
  BY DEF Cached, Held, RecallTypes
<1>2. Misses(t, cache[t].answer, Staleness - 1)
  <2>1. ReadTime + ModelTime + cache[t].age <= Staleness - 1
    BY <1>1, Times DEF Entry
  <2>2. cache[t].age \in Nat
    BY <1>1, Times DEF Entry
  <2>3. failed[t] \in Nat /\ \A s \in Of(t) : since[s] \in Nat
    BY OfTasks, Times DEF RecallTypes
  <2>4. QED
    BY <1>1, <2>1, <2>2, <2>3, Times DEF AgesFit, Kept, Misses
<1>3. q \in Queries /\ q.at = "answered"
  BY <1>1 DEF Says, Queries, Told, Entry
<1>4. Asks(a, q) /\ UNCHANGED <<vars, cache, clocks>>
  BY DEF Cached
<1>5. QED
  <2> HIDE DEF q
  <2>1. RecallTypes' /\ AgesFit'
    BY <1>3, <1>4, AskGoes, Quiet DEF RecallTypes
  <2>2. Asks(a, Says(cache[t].answer, t))
    BY <1>4 DEF q
  <2>3. QED
    BY <1>2, <2>1, <2>2

\* A question is asked, and the ledger or EverOS answers.
LEMMA ReadsRecall ==
  ASSUME RecallInv, NEW a \in Askers,
         \/ \E t \in Tasks : Ask(a, t)
         \/ ReadsHistory(a) \/ HistoryFails(a) \/ ReadsEverOS(a) \/ Heard(a)
  PROVE  RecallTypes' /\ AgesFit' /\ ask'[a].at # "answered"
<1> USE DEF RecallInv
<1>0. ask[a] \in Queries
  BY DEF RecallTypes
<1>1. ASSUME NEW q \in Queries, Asks(a, q), q.at # "answered"
      PROVE  ask'[a].at # "answered"
  BY <1>1 DEF Asks, RecallTypes
<1>2. ASSUME NEW t \in Tasks, Ask(a, t) PROVE RecallTypes' /\ AgesFit' /\ ask'[a].at # "answered"
  <2> DEFINE q == [at |-> "read", about |-> t, history |-> Unread, episode |-> Unread, age |-> 0]
  <2>1. q \in Asked /\ q.at = "read" /\ q.history = Unread
    BY Times DEF Asked
  <2>2. Asks(a, q) /\ cache' = [cache EXCEPT ![t] = Uncached] /\ UNCHANGED <<vars, clocks>>
    BY <1>2 DEF Ask
  <2> HIDE DEF q
  <2>3. q \in Queries /\ Fresh(q)
    BY <2>1 DEF Queries, Fresh
  <2>4. /\ cache' \in [Tasks -> {Uncached} \cup Entry]
        /\ \A u \in Tasks : cache'[u] = cache[u] \/ cache'[u] = Uncached
    BY <2>2 DEF RecallTypes
  <2>5. \A u \in Tasks : cache'[u] = cache[u] \/ Kept(u)'
    BY <2>4 DEF Kept
  <2>6. RecallTypes' /\ AgesFit'
    BY <2>2, <2>3, <2>4, <2>5, AskGoes
  <2>7. QED
    BY <1>1, <2>1, <2>2, <2>3, <2>6
<1>3. CASE ReadsHistory(a)
  <2> DEFINE H == History(ask[a].about)
             q == [ask[a] EXCEPT !.history = H]
  <2>1. ask[a] \in Asked
    BY <1>0, <1>3, QueryShapes DEF ReadsHistory
  <2>2. H \in Histories /\ H.done \subseteq H.begun
        /\ \A s \in Of(ask[a].about) : s \notin H.done => s \notin ledger.done
    BY <2>1, OfTasks DEF History, Histories, Asked, TeachInv, LedgerFits
  <2>3. q \in Asked /\ q.at = "read" /\ q.history = H /\ q.about = ask[a].about /\ q.age \in Nat
    <3> HIDE DEF H
    <3> QED
      BY <2>1, <2>2, Times DEF Asked
  <2>4. \A s \in Of(ask[a].about) : s \in Sessions
    BY <2>1, OfTasks DEF Asked
  <2>5. Fresh(q)
    <3> HIDE DEF H, q
    <3>1. Misses(ask[a].about, H.done, q.age)
      BY <2>2, <2>3, <2>4 DEF Misses, AgesFit
    <3>2. QED
      BY <2>2, <2>3, <3>1 DEF Fresh
  <2>6. Asks(a, q) /\ UNCHANGED <<vars, cache, clocks>>
    BY <1>3 DEF ReadsHistory
  <2>7. QED
    <3> HIDE DEF q
    <3>1. q \in Queries
      BY <2>3 DEF Queries
    <3>2. RecallTypes' /\ AgesFit'
      BY <2>5, <2>6, <3>1, AskGoes DEF RecallTypes
    <3>3. QED
      BY <1>1, <2>3, <2>6, <3>1, <3>2
<1>4. CASE ReadsEverOS(a)
  <2>1. ask[a] \in Asked
    BY <1>0, <1>4, QueryShapes DEF ReadsEverOS
  <2>2. PICK found \in BOOLEAN : Asks(a, [ask[a] EXCEPT !.episode = found])
    BY <1>4 DEF ReadsEverOS
  <2> DEFINE q == [ask[a] EXCEPT !.episode = found]
  <2>3. /\ q \in Asked /\ q.at = "read" /\ q.history = ask[a].history
        /\ q.about = ask[a].about /\ q.age = ask[a].age
    BY <2>1 DEF Asked
  <2>4. Asks(a, q) /\ UNCHANGED <<vars, cache, clocks>> /\ ask[a].at = "read"
    BY <1>4, <2>2 DEF ReadsEverOS
  <2>5. QED
    <3> HIDE DEF q
    <3>1. q \in Queries /\ Fresh(q)
      BY <2>3, <2>4 DEF Queries, Fresh, AgesFit
    <3>2. RecallTypes' /\ AgesFit'
      BY <2>4, <3>1, AskGoes DEF RecallTypes
    <3>3. QED
      BY <1>1, <2>3, <2>4, <3>1, <3>2
<1>5. CASE Heard(a)
  <2>1. Idle \in Queries /\ Idle.at = "none"
    BY DEF Queries, Idle
  <2>2. Asks(a, Idle) /\ UNCHANGED <<vars, cache, clocks>>
    BY <1>5 DEF Heard
  <2>3. RecallTypes' /\ AgesFit'
    BY <2>1, <2>2, AskGoes, Quiet DEF RecallTypes
  <2>4. QED
    BY <1>1, <2>1, <2>2, <2>3
<1>6. CASE HistoryFails(a)
  <2>1. ask[a] \in Asked
    BY <1>0, <1>6, QueryShapes DEF HistoryFails
  <2> DEFINE q == [ask[a] EXCEPT !.history = Blank]
  <2>2. /\ q \in Asked /\ q.at = "read" /\ q.history = Blank
        /\ q.about = ask[a].about /\ q.about \in Tasks
    BY <2>1 DEF Asked, Histories, Blank
  <2>3. Asks(a, q) /\ UNCHANGED <<ledger, cache, since>>
    BY <1>6 DEF HistoryFails, Blank
  <2>4. /\ failed' \in [Tasks -> 0..Staleness] /\ failed'[q.about] = 0
        /\ \A t \in Tasks : failed'[t] \in {failed[t], 0}
    BY <1>6, <2>2, Times DEF HistoryFails, RecallTypes
  <2>5. QED
    <3> HIDE DEF q
    <3>1. q \in Queries
      BY <2>2 DEF Queries
    <3>2. RecallTypes' /\ AgesFit'
      BY <2>2, <2>3, <2>4, <3>1, AskMoved DEF RecallTypes
    <3>3. QED
      BY <1>1, <2>2, <2>3, <3>1, <3>2
<1>7. QED
  BY <1>2, <1>3, <1>4, <1>5, <1>6

\* What is answered is kept, with age nought.
LEMMA AnswersRecall ==
  ASSUME RecallInv, NEW a \in Askers, NEW answer \in SUBSET Sessions, ask[a].about \in Tasks,
         Answers(a, answer), UNCHANGED <<vars, clocks>>,
         Misses(ask[a].about, answer, ReadTime + ModelTime)
  PROVE  /\ RecallTypes' /\ AgesFit'
         /\ Asks(a, Says(answer, ask[a].about))
<1> DEFINE t == ask[a].about
           q == Says(answer, t)
           new == [age |-> 0, answer |-> answer]
<1>1. q \in Queries /\ q.at = "answered" /\ Asks(a, q)
  BY DEF Says, Queries, Told, Answers
<1>2. new \in Entry /\ new.age = 0 /\ new.answer = answer
  BY Times DEF Entry
<1>3. \/ cache' = [u \in Tasks |-> IF u = t THEN new ELSE Uncached]
      \/ cache' = [cache EXCEPT ![t] = new]
  BY DEF Answers, Stored
<1> HIDE DEF new
<1>4. /\ cache' \in [Tasks -> {Uncached} \cup Entry]
      /\ \A u \in Tasks : cache'[u] = cache[u] \/ cache'[u] = Uncached
                          \/ (u = t /\ cache'[u] = new)
  BY <1>2, <1>3 DEF RecallInv, RecallTypes
<1>5. ReadTime + ModelTime + 0 = ReadTime + ModelTime
  BY Times
<1>6. \A u \in Tasks : cache'[u] = cache[u] \/ Kept(u)'
  BY <1>2, <1>4, <1>5 DEF Kept, Misses, clocks
<1>7. RecallTypes' /\ AgesFit'
  <2> HIDE DEF q
  <2> QED
    BY <1>1, <1>4, <1>6, AskGoes, Quiet
<1>8. QED
  BY <1>1, <1>7

\* Both reads are back: what the ledger said is put into words, or there is nothing to say.
LEMMA GatheredRecall ==
  ASSUME RecallInv, NEW a \in Askers, Gathered(a)
  PROVE  /\ RecallTypes' /\ AgesFit'
         /\ \/ ask'[a].at # "answered"
            \/ \E answer \in SUBSET Sessions :
                 /\ Asks(a, Says(answer, ask[a].about))
                 /\ Misses(ask[a].about, answer, Staleness - 1)
<1> USE DEF RecallInv
<1> DEFINE q == ask[a]
           H == q.history
<1>1. q \in Asked /\ q.at = "read" /\ H \in Histories /\ q.about \in Tasks
  <2>1. q \in Queries /\ q.at = "read" /\ H # Unread
    BY DEF RecallTypes, Gathered
  <2>2. q \in Asked
    BY <2>1, QueryShapes
  <2>3. QED
    BY <2>1, <2>2 DEF Asked
<1>2. Misses(q.about, H.done, q.age) /\ H.done \subseteq H.begun
  BY DEF AgesFit, Fresh, Gathered
<1>3. q.age \in Nat /\ q.age <= ReadTime
  BY <1>1, Times DEF Asked
<1>4. \A s \in Of(q.about) : since[s] \in Nat
  BY <1>1, OfTasks, Times DEF RecallTypes
<1>5. \A ticks \in Nat : q.age <= ticks => Misses(q.about, H.done, ticks)
  <2>1. failed[q.about] \in Nat
    BY <1>1, Times DEF RecallTypes
  <2>2. QED
    BY <1>2, <1>3, <1>4, <2>1 DEF Misses
<1>6. CASE H.begun = {} /\ Answers(a, {})
  <2>1. H.done = {} /\ {} \in SUBSET Sessions
    BY <1>2, <1>6
  <2>2. Misses(q.about, {}, ReadTime + ModelTime) /\ Misses(q.about, {}, Staleness - 1)
    BY <1>3, <1>5, <2>1, Times
  <2>3. UNCHANGED <<vars, clocks>>
    BY DEF Gathered
  <2>4. QED
    BY <1>1, <1>6, <2>1, <2>2, <2>3, AnswersRecall
<1>7. CASE Asks(a, [at |-> "phrase", about |-> q.about, says |-> Facts(q), age |-> 0])
           /\ UNCHANGED cache
  <2> DEFINE p == [at |-> "phrase", about |-> q.about, says |-> Facts(q), age |-> 0]
  <2>1. /\ p \in Phrasing /\ p.at = "phrase" /\ p.about = q.about /\ p.says = H.done
        /\ ReadTime + p.age = ReadTime
    BY <1>1, Times DEF Phrasing, Facts, Histories
  <2>2. Asks(a, p) /\ UNCHANGED <<vars, cache, clocks>>
    BY <1>7 DEF Gathered
  <2>3. QED
    <3> HIDE DEF p
    <3>1. p \in Queries /\ Fresh(p)
      BY <1>3, <1>5, <2>1, Times DEF Queries, Fresh
    <3>2. RecallTypes' /\ AgesFit'
      BY <2>2, <3>1, AskGoes DEF RecallTypes
    <3>3. ask'[a].at # "answered"
      BY <2>1, <2>2 DEF Asks, RecallTypes
    <3>4. QED
      BY <3>2, <3>3
<1>8. QED
  BY <1>6, <1>7 DEF Gathered

\* The words are there, from the model or the template.
LEMMA PhrasedRecall ==
  ASSUME RecallInv, NEW a \in Askers, Phrased(a)
  PROVE  /\ RecallTypes' /\ AgesFit'
         /\ \E answer \in SUBSET Sessions :
              /\ Asks(a, Says(answer, ask[a].about))
              /\ Misses(ask[a].about, answer, Staleness - 1)
<1> USE DEF RecallInv
<1>1. ask[a] \in Phrasing
  BY QueryShapes DEF RecallTypes, Phrased
<1>2. /\ ask[a].says \in SUBSET Sessions /\ ask[a].about \in Tasks
      /\ ask[a].age \in Nat /\ ask[a].age <= ModelTime
  BY <1>1, Times DEF Phrasing
<1>3. Misses(ask[a].about, ask[a].says, ReadTime + ask[a].age)
  BY DEF AgesFit, Fresh, Phrased
<1>4. failed[ask[a].about] \in Nat /\ \A s \in Of(ask[a].about) : since[s] \in Nat
  BY <1>2, OfTasks, Times DEF RecallTypes
<1>5. /\ Misses(ask[a].about, ask[a].says, ReadTime + ModelTime)
      /\ Misses(ask[a].about, ask[a].says, Staleness - 1)
  BY <1>2, <1>3, <1>4, Times DEF Misses
<1>6. QED
  BY <1>2, <1>5, AnswersRecall DEF Phrased

\* Time passes alike for outcomes, for what is under way and for what is kept.
LEMMA TickRecall ==
  ASSUME RecallInv, Tick
  PROVE  /\ RecallTypes' /\ AgesFit'
         /\ \A a \in Askers : ask'[a].at = "answered" => ask[a].at = "answered"
<1> USE DEF RecallInv
<1>1. ledger' = ledger
  BY DEF Tick, vars
<1>2. /\ since' \in [Sessions -> 0..Staleness]
      /\ \A s \in Sessions : /\ since'[s] <= since[s] + 1 /\ since[s] \in Nat
                             /\ since'[s] \in Nat /\ since'[s] <= Staleness
                             /\ s \notin ledger.done => since'[s] = 0
  BY Times DEF Tick, Under, RecallTypes
<1>0. /\ failed' \in [Tasks -> 0..Staleness]
      /\ \A t \in Tasks : failed'[t] <= failed[t] + 1 /\ failed[t] \in Nat /\ failed'[t] \in Nat
  BY Times DEF Tick, Under, RecallTypes
<1>3. ASSUME NEW t \in Tasks, NEW answer, NEW ticks \in Nat, Misses(t, answer, ticks)
      PROVE  Misses(t, answer, ticks + 1)'
  BY <1>0, <1>2, <1>3, OfTasks DEF Misses
<1>4. ASSUME NEW a \in Askers
      PROVE  /\ ask'[a] \in Queries /\ Fresh(ask[a])'
             /\ ask'[a].at = "answered" => ask[a].at = "answered"
  <2>1. ask[a] \in Queries
    BY DEF RecallTypes
  <2>2. ask'[a] = IF ask[a].at \in {"read", "phrase"} THEN [ask[a] EXCEPT !.age = @ + 1]
                  ELSE ask[a]
    BY DEF Tick
  <2>3. CASE ask[a].at = "read"
    <3>1. ask[a] \in Asked /\ ask[a].age < ReadTime
      BY <2>1, <2>3, QueryShapes DEF Tick, InTime
    <3>2. ask[a].age + 1 \in 0..ReadTime /\ ask[a].age \in Nat /\ ask[a].about \in Tasks
      BY <3>1, Times DEF Asked
    <3>3. /\ ask'[a] \in Asked /\ ask'[a].at = "read" /\ ask'[a].about = ask[a].about
          /\ ask'[a].history = ask[a].history /\ ask'[a].age = ask[a].age + 1
      BY <2>2, <2>3, <3>1, <3>2 DEF Asked
    <3>4. PICK t \in Tasks, h \in {ask[a].history}, n \in Nat :
            t = ask[a].about /\ n = ask[a].age
      BY <3>2
    <3>5. h # Unread => Misses(t, h.done, n) /\ h.done \subseteq h.begun
      BY <2>3, <3>4 DEF AgesFit, Fresh
    <3>6. h # Unread => Misses(t, h.done, n + 1)'
      BY <1>3, <3>5
    <3>7. Fresh(ask[a])'
      BY <3>3, <3>4, <3>5, <3>6 DEF Fresh, Misses
    <3>8. QED
      BY <3>3, <3>7 DEF Queries
  <2>4. CASE ask[a].at = "phrase"
    <3>1. ask[a] \in Phrasing /\ ask[a].age < ModelTime
      BY <2>1, <2>4, QueryShapes DEF Tick, InTime
    <3>2. /\ ask[a].age + 1 \in 0..ModelTime /\ ask[a].age \in Nat /\ ask[a].about \in Tasks
          /\ ReadTime + ask[a].age \in Nat
          /\ ReadTime + (ask[a].age + 1) = (ReadTime + ask[a].age) + 1
      BY <3>1, Times DEF Phrasing
    <3>3. /\ ask'[a] \in Phrasing /\ ask'[a].at = "phrase" /\ ask'[a].about = ask[a].about
          /\ ask'[a].says = ask[a].says /\ ask'[a].age = ask[a].age + 1
      BY <2>2, <2>4, <3>1, <3>2 DEF Phrasing
    <3>4. PICK t \in Tasks, says \in {ask[a].says}, n \in Nat :
            t = ask[a].about /\ n = ReadTime + ask[a].age
      BY <3>2
    <3>5. Misses(t, says, n)
      BY <2>4, <3>4 DEF AgesFit, Fresh
    <3>6. Misses(t, says, n + 1)'
      BY <1>3, <3>5
    <3>7. Fresh(ask[a])'
      BY <3>2, <3>3, <3>4, <3>6 DEF Fresh, Misses
    <3>8. QED
      BY <3>3, <3>7 DEF Queries
  <2>5. CASE ask[a].at \notin {"read", "phrase"}
    BY <2>1, <2>2, <2>5 DEF Fresh
  <2>6. QED
    BY <2>3, <2>4, <2>5
<1>5. ASSUME NEW t \in Tasks
      PROVE  cache'[t] \in {Uncached} \cup Entry /\ Kept(t)'
  <2>1. cache'[t] = [cache[t] EXCEPT !.age = Under(CacheTime, @)]
    BY DEF Tick
  <2>2. CASE cache[t] = Uncached
    <3>1. Under(CacheTime, CacheTime) = CacheTime
      BY Times DEF Under
    <3>2. cache'[t] = Uncached
      BY <2>1, <2>2, <3>1 DEF Uncached
    <3>3. QED
      BY <3>2 DEF Kept
  <2>3. CASE cache[t] # Uncached
    <3>1. cache[t] \in Entry /\ cache[t].age \in Nat
      BY <2>3, Times DEF RecallTypes, Entry
    <3>2. PICK answer \in {cache[t].answer}, n \in Nat :
            /\ n = ReadTime + ModelTime + cache[t].age
            /\ Misses(t, answer, n)
      BY <2>3, <3>1, Times DEF AgesFit, Kept
    <3>3. /\ cache'[t] \in Entry /\ cache'[t].answer = answer /\ cache'[t].age \in Nat
          /\ cache'[t].age = cache[t].age + 1 \/ cache'[t].age = CacheTime
      BY <2>1, <3>1, <3>2, Times DEF Entry, Under
    <3>4. Misses(t, answer, n + 1)' /\ Misses(t, answer, Staleness)'
      BY <1>2, <1>3, <3>2, OfTasks DEF Misses
    <3>5. \/ ReadTime + ModelTime + cache'[t].age = n + 1
          \/ ReadTime + ModelTime + cache'[t].age = Staleness
      BY <3>1, <3>2, <3>3, Times
    <3>6. Kept(t)'
      BY <3>3, <3>4, <3>5 DEF Kept, Misses
    <3>7. QED
      BY <3>3, <3>6
  <2>4. QED
    BY <2>2, <2>3
<1>6. RecallTypes'
  <2>1. /\ DOMAIN ask' = Askers /\ ask' = [a \in Askers |-> ask'[a]]
        /\ cache' = [t \in Tasks |-> cache'[t]]
    BY DEF Tick
  <2>2. QED
    BY <1>0, <1>2, <1>4, <1>5, <2>1 DEF RecallTypes
<1>7. AgesFit'
  BY <1>1, <1>2, <1>4, <1>5 DEF AgesFit
<1>8. QED
  BY <1>4, <1>6, <1>7

-----------------------------------------------------------------------------
(* The theorems *)

\* Every step keeps the invariant, and an answer it gives misses nothing that is old.
LEMMA RecallStep ==
  ASSUME RecallInv, [RecallNext]_allVars
  PROVE  /\ RecallInv'
         /\ \A a \in Askers :
              \/ ask'[a].at = "answered" => ask[a].at = "answered"
              \/ \E t \in Tasks, answer \in SUBSET Sessions :
                   /\ ask'[a].about = t /\ ask'[a].says = answer
                   /\ Misses(t, answer, Staleness - 1)
<1> DEFINE Good(a) ==
      \/ ask'[a].at = "answered" => ask[a].at = "answered"
      \/ \E t \in Tasks, answer \in SUBSET Sessions :
           /\ ask'[a].about = t /\ ask'[a].says = answer
           /\ Misses(t, answer, Staleness - 1)
<1>1. TeachInv'
  BY TeachStep DEF RecallInv
<1>2. \A a \in Askers : ask[a] \in Queries
  BY DEF RecallInv, RecallTypes
<1>3. ASSUME NEW a \in Askers, NEW q, Asks(a, q)
      PROVE  \A b \in Askers : ask'[b] = IF b = a THEN q ELSE ask[b]
  BY <1>3 DEF Asks, RecallInv, RecallTypes
<1>4. ASSUME NEW a \in Askers, NEW t \in Tasks, NEW answer \in SUBSET Sessions,
             Asks(a, Says(answer, t)), Misses(t, answer, Staleness - 1)
      PROVE  \A b \in Askers : Good(b)
  <2>1. Says(answer, t).about = t /\ Says(answer, t).says = answer
    BY DEF Says
  <2>2. \A b \in Askers : ask'[b] = IF b = a THEN Says(answer, t) ELSE ask[b]
    BY <1>3, <1>4
  <2>3. QED
    BY <1>4, <2>1, <2>2
<1>5. CASE (TeachNext /\ UNCHANGED recall) \/ RecallRestart \/ UNCHANGED allVars
  <2>1. \A a \in Askers : ask'[a] = ask[a] \/ ask'[a].at = "none"
    BY <1>5 DEF recall, allVars, RecallRestart, Idle
  <2>2. QED
    BY <1>1, <1>5, <2>1, TeachRecall DEF RecallInv
<1>6. CASE Tick
  BY <1>1, <1>6, TickRecall DEF RecallInv
<1>7. ASSUME NEW a \in Askers,
             \/ \E t \in Tasks : Ask(a, t)
             \/ ReadsHistory(a) \/ HistoryFails(a) \/ ReadsEverOS(a) \/ Heard(a)
      PROVE  RecallInv' /\ \A b \in Askers : Good(b)
  <2>1. \E q : Asks(a, q)
    BY <1>7 DEF Ask, ReadsHistory, HistoryFails, ReadsEverOS, Heard
  <2>2. RecallTypes' /\ AgesFit' /\ ask'[a].at # "answered"
    BY <1>7, ReadsRecall
  <2>3. QED
    BY <1>1, <1>3, <2>1, <2>2 DEF RecallInv
<1>8. ASSUME NEW a \in Askers, NEW t \in Tasks, Cached(a, t)
      PROVE  RecallInv' /\ \A b \in Askers : Good(b)
  <2>1. cache[t].answer \in SUBSET Sessions
    BY <1>8 DEF Cached, Held, RecallInv, RecallTypes, Entry
  <2>2. /\ RecallTypes' /\ AgesFit' /\ Asks(a, Says(cache[t].answer, t))
        /\ Misses(t, cache[t].answer, Staleness - 1)
    BY <1>8, CachedRecall
  <2>3. QED
    <3> HIDE DEF Good
    <3> QED
      BY <1>1, <1>4, <2>1, <2>2 DEF RecallInv
<1>9. ASSUME NEW a \in Askers, Gathered(a) \/ Phrased(a)
      PROVE  RecallInv' /\ \A b \in Askers : Good(b)
  <2>1. ask[a].about \in Tasks
    BY <1>2, <1>9, QueryShapes DEF Gathered, Phrased, Asked, Phrasing
  <2>2. /\ RecallTypes' /\ AgesFit'
        /\ \/ ask'[a].at # "answered"
           \/ \E answer \in SUBSET Sessions : /\ Asks(a, Says(answer, ask[a].about))
                                              /\ Misses(ask[a].about, answer, Staleness - 1)
    BY <1>9, GatheredRecall, PhrasedRecall
  <2>3. \E q : Asks(a, q)
    BY <1>9 DEF Gathered, Phrased, Answers
  <2>4. ASSUME ask'[a].at # "answered" PROVE \A b \in Askers : Good(b)
    BY <1>3, <2>3, <2>4
  <2>5. QED
    <3> HIDE DEF Good
    <3> QED
      BY <1>1, <1>4, <2>1, <2>2, <2>4 DEF RecallInv
<1>10. QED
  BY <1>5, <1>6, <1>7, <1>8, <1>9 DEF RecallNext

\* The ages of what is read, phrased and kept fit the ages of the outcomes.
THEOREM RecallInvHolds == Spec => []RecallInv
<1>1. RecallInv /\ [RecallNext]_allVars => RecallInv'
  BY RecallStep
<1>2. QED
  BY <1>1, InitRecall, PTL DEF Spec

\* An answer misses no outcome older than a read, a sentence and the cache may take together,
\* or a read of the ledger failed no longer ago: for any number of askers, however the cache is
\* cleared, whichever reads fail, and however long the longest of them takes.
THEOREM StaleHolds == Spec => StaleNoLonger
<1> DEFINE Fine ==
      \A a \in Askers : ask'[a].at = "answered" /\ ask[a].at # "answered"
                     /\ failed[ask'[a].about] = Staleness =>
        {s \in Of(ask'[a].about) : since[s] = Staleness} \subseteq ask'[a].says
<1>1. RecallInv /\ [RecallNext]_allVars => [Fine]_allVars
  <2> SUFFICES ASSUME RecallInv, [RecallNext]_allVars, NEW a \in Askers,
                      ask'[a].at = "answered", ask[a].at # "answered",
                      failed[ask'[a].about] = Staleness,
                      NEW s \in Of(ask'[a].about), since[s] = Staleness
               PROVE  s \in ask'[a].says
    OBVIOUS
  <2>1. Misses(ask'[a].about, ask'[a].says, Staleness - 1)
    BY RecallStep
  <2>2. QED
    BY <2>1, Times DEF Misses
<1>2. QED
  BY <1>1, RecallInvHolds, PTL DEF Spec, StaleNoLonger

-----------------------------------------------------------------------------
(* The memory command line: the inductive invariant *)

\* What a handler may raise, and the lists it may have read.
Raises == {"ok", "unexpected", "refusal", "unsupported", "not_found", "provider", "invalid",
           "unconfigured", "value", "os", "invalid_display", "invalid_settings"}
Running == [at : {"checked", "unconfigured", "broken", "call", "list"}, command : Tool!Commands,
            read : SUBSET SkillIds, had : {objects}]

\* Until it exits, a run remembers how many documents there are, and lists only skills that
\* are there.
Skills == [there : SUBSET SkillIds, listed : SUBSET SkillIds, valid : SUBSET SkillIds]
ToolInv ==
  /\ made \in Skills /\ made.listed \subseteq made.there
  /\ made.valid \subseteq made.there /\ IsFiniteSet(made.there)
  /\ tool.at \notin {"none", "exited"} => tool \in Running /\ tool.read \subseteq made.there
  /\ tool.at = "list" => tool.command.verb = "routines.list"

LEMMA SameFiniteness == \A S : Tool!IsFiniteSet(S) = IsFiniteSet(S)
BY DEF Tool!IsFiniteSet, IsFiniteSet

LEMMA SameCardinality == \A S : Tool!Cardinality(S) = Cardinality(S)
BY DEF Tool!Cardinality, Cardinality

\* A page lists skills that are there, and all of them while they fit on one.
LEMMA PageLists ==
  ASSUME ToolInv, Tool!MemoryToolAssumption, NEW page \in Tool!Pages
  PROVE  page \subseteq made.there /\ (Tool!OnePage(made) => page = made.there)
<1> DEFINE n == Cardinality(made.there)
<1>1. /\ page \in SUBSET made.there /\ IsFiniteSet(made.there)
      /\ Cardinality(page) = IF n < PageSize THEN n ELSE PageSize
  BY SameCardinality DEF Tool!Pages, ToolInv
<1>2. n \in Nat /\ PageSize \in Nat
  BY <1>1, FS_CardinalityType DEF Tool!MemoryToolAssumption
<1>3. ASSUME Tool!OnePage(made) PROVE page = made.there
  <2>1. n <= PageSize
    BY <1>3, SameCardinality DEF Tool!OnePage
  <2>2. Cardinality(page) = n
    BY <1>1, <1>2, <2>1
  <2>3. QED
    BY <1>1, <2>2, FS_Subset
<1>4. QED
  BY <1>1, <1>3

\* The exit codes of main.
LEMMA CodesRaised ==
  /\ Tool!Raised("ok") = 0 /\ Tool!Raised("unexpected") = 1
  /\ Tool!Raised("refusal") = 2 /\ Tool!Raised("value") = 2 /\ Tool!Raised("os") = 2
  /\ Tool!Raised("unsupported") = 3 /\ Tool!Raised("not_found") = 4
  /\ Tool!Raised("provider") = 5 /\ Tool!Raised("invalid") = 6
  /\ Tool!Raised("invalid_display") = 6 /\ Tool!Raised("invalid_settings") = 6
  /\ Tool!Raised("unconfigured") = 7
BY DEF Tool!Raised, Tool!ExitOf

\* What a run that met something says of it.
LEMMA ExitTells ==
  ASSUME NEW kind \in Raises, NEW says, Tool!Exits(kind, says)
  PROVE  /\ tool'.at = "exited" /\ tool'.had = tool.had
         /\ tool'.says = says /\ tool'.written \in BOOLEAN
         /\ tool'.exit = IF tool'.written \/ Tool!Raised(kind) # 0 THEN Tool!Raised(kind) ELSE 2
<1>1. PICK written \in BOOLEAN :
        tool' = [at |-> "exited", command |-> tool.command, says |-> says,
                 written |-> written, had |-> tool.had,
                 exit |-> IF written \/ Tool!Raised(kind) # 0 THEN Tool!Raised(kind) ELSE 2]
  BY DEF Tool!Exits, Tool!ExitOf
<1>2. QED
  BY <1>1

\* What must be so for a run to meet something.
Fitting(kind) ==
  LET c == tool.command
      ofSkill == c.verb \in {"skill.show", "skill.delete", "skill.revise"}
  IN /\ c.verb # "upload.reviewed" \/ kind \notin {"ok", "provider"} => objects' = objects
     /\ kind = "ok" => /\ c.verb = "upload.reviewed" => objects' = objects + 1
                       /\ c.verb = "skill.show" => c.id \in made.valid
     /\ kind \in {"refusal", "value", "os"} =>
          \/ Tool!Refuses(c) \/ Tool!ClientRefuses(c) \/ c.verb = "upload.reviewed"
          \/ c.verb = "skill.revise" /\ c.edit = "unfit" /\ c.id \in made.valid
     /\ kind = "unsupported" =>
          c.verb \in {"skill.delete", "skill.revise"} /\ c.id \in made.valid
     /\ kind = "not_found" => ofSkill /\ (c.id \notin made.there \/ ~Tool!OnePage(made))
     /\ kind = "invalid" => ofSkill /\ c.id \in made.there \ made.valid
     /\ kind = "invalid_display" =>
          c.verb \in {"skill.show", "skill.revise"} /\ c.id \in made.valid
     /\ kind = "invalid_settings" => tool.at = "broken"

\* An exit code fits if what was met is so.
LEMMA MetFits ==
  ASSUME NEW kind \in Raises, NEW says, Tool!Exits(kind, says), tool \in Running,
         UNCHANGED made, Fitting(kind)
  PROVE  tool'.at = "exited" /\ Tool!ExitCodeFits
<1>1. tool.had = objects
  BY DEF Running
<1>2. QED
  BY <1>1, ExitTells, CodesRaised DEF Tool!ExitCodeFits, Raises, Fitting

-----------------------------------------------------------------------------
(* The memory command line: the steps *)

\* What a step owes: the invariant, and a receipt that is true if the run exits.
ToolStepFits ==
  /\ ToolInv'
  /\ tool.at # "exited" /\ tool'.at = "exited" => Tool!ExitCodeFits /\ Tool!UnvalidatedIsInvalid

LEMMA ToolInit == Tool!Init => ToolInv
BY FS_EmptySet DEF Tool!Init, ToolInv, Tool!NoTool, Skills

\* A run that exits leaves nothing to keep.
LEMMA Exited ==
  ASSUME ToolInv, UNCHANGED made, tool'.at = "exited",
         tool.at # "exited" => Tool!ExitCodeFits /\ Tool!UnvalidatedIsInvalid
  PROVE  ToolStepFits
BY DEF ToolInv, ToolStepFits

\* Away from the list of routines there is nothing to compare.
LEMMA MetElsewhere ==
  ASSUME ToolInv, UNCHANGED made, tool'.at = "exited", tool.at # "list", Tool!ExitCodeFits
  PROVE  ToolStepFits
BY Exited DEF Tool!UnvalidatedIsInvalid

LEMMA RunningFits ==
  ASSUME ToolInv, tool.at \notin {"none", "exited"}
  PROVE  tool \in Running /\ tool.read \subseteq made.there
BY DEF ToolInv

LEMMA DistilledFits ==
  ASSUME ToolInv, Tool!Distilled
  PROVE  ToolStepFits
<1>1. UNCHANGED <<objects, tool>>
  BY DEF Tool!Distilled
<1>2. made' \in Skills /\ made'.listed \subseteq made'.there
      /\ made'.valid \subseteq made'.there /\ made.there \subseteq made'.there
      /\ IsFiniteSet(made'.there)
  <2>1. PICK k \in SkillIds : \E l \in SUBSET {k} : \E v \in SUBSET l :
          made' = [there |-> made.there \cup {k}, listed |-> made.listed \cup l,
                   valid |-> made.valid \cup v]
    BY DEF Tool!Distilled
  <2>2. IsFiniteSet(made.there \cup {k})
    BY FS_AddElement DEF ToolInv
  <2>3. QED
    BY <2>1, <2>2 DEF ToolInv, Skills
<1>3. ToolInv'
  BY <1>1, <1>2 DEF ToolInv, Running
<1>4. QED
  BY <1>1, <1>3 DEF ToolStepFits

LEMMA RunsFit ==
  ASSUME ToolInv, NEW c \in Tool!Commands, NEW settings \in Tool!Settings, Tool!Runs(c, settings)
  PROVE  ToolStepFits
<1>1. /\ UNCHANGED <<made, objects>>
      /\ tool' = [at |-> IF settings = "good" THEN "checked" ELSE settings, command |-> c,
                  read |-> {}, had |-> objects]
  BY DEF Tool!Runs
<1>2. tool' \in Running' /\ tool'.read = {} /\ tool'.at \notin {"list", "exited"}
  BY <1>1 DEF Running, Tool!Settings
<1>3. QED
  BY <1>1, <1>2 DEF ToolInv, ToolStepFits

LEMMA UnconfiguredFits ==
  ASSUME ToolInv, Tool!Unconfigured \/ Tool!Unsettled
  PROVE  ToolStepFits
<1>1. /\ tool \in Running /\ tool.at \in {"unconfigured", "broken"}
      /\ UNCHANGED <<made, objects>>
  BY RunningFits DEF Tool!Unconfigured, Tool!Unsettled, Tool!Doing
<1>2. PICK kind \in {"unconfigured", "invalid_settings"} :
        Tool!Says(kind) /\ (kind = "invalid_settings" => tool.at = "broken")
  BY DEF Tool!Unconfigured, Tool!Unsettled, Tool!Doing
<1>4. tool'.at = "exited" /\ Tool!ExitCodeFits
  BY <1>1, <1>2, MetFits DEF Tool!Says, Raises, Fitting
<1>3. QED
  BY <1>1, <1>4, MetElsewhere

\* A run that goes on has changed nothing.
LEMMA GoesFits ==
  ASSUME ToolInv, UNCHANGED <<made, objects>>, tool \in Running,
         NEW stage \in {"call", "list"}, NEW listed \in SUBSET made.there,
         stage = "list" => tool.command.verb = "routines.list",
         tool' = [tool EXCEPT !.at = stage, !.read = listed]
  PROVE  ToolStepFits
<1>1. /\ tool' \in Running' /\ tool'.read = listed /\ tool'.at = stage
      /\ tool'.command = tool.command
  BY DEF Running, ToolInv, Skills
<1>2. QED
  BY <1>1 DEF ToolInv, ToolStepFits

LEMMA ChecksFit ==
  ASSUME ToolInv, Tool!Checks
  PROVE  ToolStepFits
<1>1. /\ tool \in Running /\ tool.at = "checked" /\ tool.read \subseteq made.there
      /\ UNCHANGED <<made, objects>>
  BY RunningFits DEF Tool!Checks, Tool!Doing
<1>2. ASSUME NEW kind \in {"refusal", "value"}, Tool!Says(kind),
             Tool!Refuses(tool.command) \/ Tool!ClientRefuses(tool.command)
      PROVE  ToolStepFits
  <2>1. tool'.at = "exited" /\ Tool!ExitCodeFits
    BY <1>1, <1>2, MetFits DEF Tool!Says, Raises, Fitting
  <2>2. QED
    BY <1>1, <2>1, MetElsewhere
<1>3. CASE Tool!Goes("call")
  <2>1. tool' = [tool EXCEPT !.at = "call", !.read = tool.read]
    BY <1>1, <1>3 DEF Tool!Goes, Running
  <2>2. QED
    BY <1>1, <2>1, GoesFits
<1>4. QED
  BY <1>2, <1>3 DEF Tool!Checks

\* What a call that failed has met is the provider, or the profile that is not there.
LEMMA CallFailsFits ==
  ASSUME ToolInv, NEW f, Tool!CallFails(f)
  PROVE  ToolStepFits
<1>1. tool \in Running /\ tool.read \subseteq made.there /\ tool.at \in {"call", "list"}
      /\ UNCHANGED made
  BY RunningFits DEF Tool!CallFails
<1>2. PICK kind \in {"ok", "provider"} :
        /\ Tool!Says(kind) /\ (kind = "ok" => tool.command.verb = "profile.status")
        /\ tool.command.verb # "upload.reviewed" => objects' = objects
  BY DEF Tool!CallFails, Tool!Verb
<1>3. tool'.at = "exited" /\ Tool!ExitCodeFits
  BY <1>1, <1>2, MetFits DEF Tool!Says, Raises, Fitting
<1>4. tool'.says = Tool!Nothing
  BY <1>2, ExitTells DEF Tool!Says, Raises
<1>5. Tool!UnvalidatedIsInvalid
  BY <1>4 DEF Tool!UnvalidatedIsInvalid, Tool!Nothing
<1>6. QED
  BY <1>1, <1>3, <1>5, Exited

LEMMA ListsFirstFits ==
  ASSUME ToolInv, Tool!MemoryToolAssumption, Tool!ListsFirst
  PROVE  ToolStepFits
<1>1. /\ tool \in Running /\ UNCHANGED <<made, objects>>
      /\ tool.command.verb = "routines.list"
  BY RunningFits DEF Tool!ListsFirst, Tool!Doing, Tool!Verb
<1>2. PICK page \in Tool!Pages : tool' = [tool EXCEPT !.at = "list", !.read = page]
  BY DEF Tool!ListsFirst
<1>3. QED
  BY <1>1, <1>2, PageLists, GoesFits

\* The routines are read after the identifiers: what is valid by then is no longer named.
LEMMA ListsFits ==
  ASSUME ToolInv, Tool!MemoryToolAssumption, Tool!Lists
  PROVE  ToolStepFits
<1>1. /\ tool \in Running /\ tool.read \subseteq made.there /\ UNCHANGED <<made, objects>>
      /\ tool.command.verb = "routines.list"
  BY RunningFits DEF Tool!Lists, Tool!Doing, ToolInv
<1>2. PICK page \in Tool!Pages :
        Tool!Exits("ok", [ids |-> tool.read, routines |-> page \cap made.listed])
  BY DEF Tool!Lists
<1>3. tool'.at = "exited" /\ Tool!ExitCodeFits
  BY <1>1, <1>2, MetFits DEF Raises, Fitting
<1>4. tool'.says.ids = tool.read /\ tool'.says.routines = page \cap made.listed
  BY <1>2, ExitTells DEF Raises
<1>5. Tool!UnvalidatedIsInvalid
  BY <1>1, <1>4, PageLists DEF Tool!UnvalidatedIsInvalid
<1>6. QED
  BY <1>1, <1>3, <1>5, Exited

\* One exact identifier, on the page that was read.
LEMMA LoadTells ==
  ASSUME ToolInv, Tool!MemoryToolAssumption, NEW page \in Tool!Pages
  PROVE  LET found == Tool!Loads(page)
             k == tool.command.id
         IN \/ found = "not_found" /\ (k \notin made.there \/ ~Tool!OnePage(made))
            \/ found = "invalid" /\ k \in made.there \ made.valid
            \/ found = "ok" /\ k \in made.valid
BY PageLists DEF Tool!Loads

\* skill show, delete and revise: what is said of a skill is so.
LEMMA SkillFits ==
  ASSUME ToolInv, Tool!MemoryToolAssumption, Tool!Shows \/ Tool!Deletes \/ Tool!Revises
  PROVE  ToolStepFits
<1>1. tool \in Running /\ tool.at = "call" /\ UNCHANGED <<made, objects>>
  BY RunningFits DEF Tool!Shows, Tool!Deletes, Tool!Revises, Tool!Doing
<1> DEFINE verb == tool.command.verb
           k == tool.command.id
<1>2. PICK page \in Tool!Pages, kind \in Raises :
        /\ Tool!Says(kind) /\ verb \in {"skill.show", "skill.delete", "skill.revise"}
        /\ \/ kind = Tool!Loads(page) /\ kind # "ok"
           \/ /\ Tool!Loads(page) = "ok"
              /\ \/ kind = "ok" /\ verb = "skill.show"
                 \/ kind = "invalid_display" /\ verb # "skill.delete"
                 \/ kind = "unsupported" /\ verb # "skill.show"
                 \/ kind = "refusal" /\ verb = "skill.revise" /\ tool.command.edit # "fit"
  <2>1. CASE Tool!Shows
    <3>1. PICK page \in Tool!Pages, display \in {"ok", "invalid_display"} :
            Tool!Says(IF Tool!Loads(page) = "ok" THEN display ELSE Tool!Loads(page))
      BY <2>1 DEF Tool!Shows
    <3>2. verb = "skill.show"
      BY <2>1 DEF Tool!Shows, Tool!Verb
    <3>3. QED
      BY <3>1, <3>2, LoadTells DEF Raises
  <2>2. CASE Tool!Deletes
    <3>1. PICK page \in Tool!Pages :
            Tool!Says(IF Tool!Loads(page) = "ok" THEN "unsupported" ELSE Tool!Loads(page))
      BY <2>2 DEF Tool!Deletes
    <3>2. verb = "skill.delete"
      BY <2>2 DEF Tool!Deletes, Tool!Verb
    <3>3. QED
      BY <3>1, <3>2, LoadTells DEF Raises
  <2>3. CASE Tool!Revises
    <3>1. PICK page \in Tool!Pages, display \in {"unsupported", "invalid_display"} :
            Tool!Says(IF Tool!Loads(page) # "ok" THEN Tool!Loads(page)
                      ELSE IF tool.command.edit # "fit" THEN "refusal" ELSE display)
      BY <2>3 DEF Tool!Revises
    <3>2. verb = "skill.revise"
      BY <2>3 DEF Tool!Revises, Tool!Verb
    <3>3. QED
      BY <3>1, <3>2, LoadTells DEF Raises
  <2>4. QED
    BY <2>1, <2>2, <2>3
<1>3. verb = "skill.revise" /\ tool.command.edit # "fit"
        => tool.command.edit = "unfit" \/ Tool!Refuses(tool.command)
  BY <1>1 DEF Running, Tool!Commands, Tool!Refuses
<1>4. Fitting(kind)
  <2>1. /\ kind = "ok" \/ kind = "invalid_display" \/ kind = "unsupported" \/ kind = "refusal"
             => k \in made.valid
        /\ kind = "not_found" => k \notin made.there \/ ~Tool!OnePage(made)
        /\ kind = "invalid" => k \in made.there \ made.valid
    BY <1>2, LoadTells
  <2>2. kind \notin {"value", "os", "invalid_settings", "provider"}
    BY <1>2, LoadTells
  <2>3. QED
    BY <1>1, <1>2, <1>3, <2>1, <2>2, LoadTells DEF Fitting
<1>5. tool'.at = "exited" /\ Tool!ExitCodeFits
  BY <1>1, <1>2, <1>4, MetFits DEF Tool!Says
<1>6. QED
  BY <1>1, <1>5, MetElsewhere

LEMMA OtherCallsFit ==
  ASSUME ToolInv, Tool!Searches \/ Tool!Looks \/ Tool!Uploads
  PROVE  ToolStepFits
<1>1. tool \in Running /\ tool.at = "call" /\ UNCHANGED made
  BY RunningFits DEF Tool!Searches, Tool!Looks, Tool!Uploads, Tool!Doing
<1>2. PICK kind \in {"ok", "provider", "os", "value"} : Tool!Says(kind) /\ Fitting(kind)
  <2>1. CASE Tool!Searches \/ Tool!Looks
    BY <2>1 DEF Tool!Searches, Tool!Looks, Tool!Verb, Fitting
  <2>2. CASE Tool!Uploads
    BY <2>2 DEF Tool!Uploads, Tool!Verb, Fitting
  <2>3. QED
    BY <2>1, <2>2
<1>3. tool'.at = "exited" /\ Tool!ExitCodeFits
  BY <1>1, <1>2, MetFits DEF Tool!Says, Raises
<1>4. QED
  BY <1>1, <1>3, MetElsewhere

LEMMA ToolStep ==
  ASSUME ToolInv, Tool!MemoryToolAssumption, [Tool!Next]_(Tool!toolVars)
  PROVE  ToolStepFits
<1>1. CASE UNCHANGED Tool!toolVars
  BY <1>1 DEF Tool!toolVars, ToolInv, ToolStepFits, Running
<1>2. CASE Tool!Next
  BY <1>2, DistilledFits, RunsFit, UnconfiguredFits, ChecksFit, ListsFirstFits, ListsFits,
     SkillFits, OtherCallsFit, CallFailsFits DEF Tool!Next
<1>3. QED
  BY <1>1, <1>2

-----------------------------------------------------------------------------
(* The memory command line: the theorem *)

\* Whatever EverOS makes and refuses while a command runs, and whatever its settings, its exit
\* code is true of the skills and documents there are when it ends, and routines list names no
\* skill as unvalidated that could be read when it said so.
THEOREM ReceiptsAreTrue ==
  ASSUME Tool!MemoryToolAssumption
  PROVE  Tool!Spec => Tool!ReceiptIsTrue
<1>1. Tool!Init => ToolInv
  BY ToolInit
<1>2. ToolInv /\ [Tool!Next]_(Tool!toolVars) => ToolInv'
  BY ToolStep DEF ToolStepFits
<1>3. ToolInv /\ [Tool!Next]_(Tool!toolVars) =>
        [tool.at # "exited" /\ tool'.at = "exited" =>
           Tool!ExitCodeFits /\ Tool!UnvalidatedIsInvalid]_(Tool!toolVars)
  BY ToolStep DEF ToolStepFits
<1>4. QED
  BY <1>1, <1>2, <1>3, PTL DEF Tool!Spec, Tool!ReceiptIsTrue

-----------------------------------------------------------------------------
(* The profile: the inductive invariant *)

\* Of a field, a request adds one item, and only when its write ends.
ItemsFit(items) ==
  /\ \A i \in items : DOMAIN i = {"by", "field", "value"}
  /\ \A i, j \in items : i.by = j.by /\ i.field = j.field => i = j
WriteFits(w) ==
  /\ DOMAIN w = {"at", "try", "seen", "status", "counted"}
  /\ w.at # "done" => w.status = "none"
Over(w) == w.at \in {"done", "failed"}
ProfileInv ==
  /\ DOMAIN profile = {"exists", "items"} /\ ItemsFit(profile.items)
  /\ write = [u \in Setups |-> write[u]] /\ \A u \in Setups : WriteFits(write[u])
  /\ \A i \in profile.items : i.by \in Setups => Over(write[i.by])

\* What the property asks of the step of a request.
Healed(u) ==
  (Profile!At(u, "edit") /\ write[u].seen = profile.items /\ write'[u].status = "updated"
     /\ write'[u].counted) =>
     \A f \in Profile!Fields(u) :
       IF Wanted[u][f] = Cleared THEN Profile!InField(profile'.items, f) = {}
       ELSE /\ Profile!Cardinality(Profile!InField(profile'.items, f)) = 1
            /\ Profile!Holds(profile'.items, f) = {Wanted[u][f]}
ProfileStepFits == ProfileInv' /\ \A u \in Setups : Healed(u)

LEMMA OneIsOne == \A x : Profile!Cardinality({x}) = 1
<1>1. \A S : Profile!Cardinality(S) = Cardinality(S)
  BY DEF Profile!Cardinality, Cardinality
<1>2. QED
  BY <1>1, FS_Singleton

LEMMA ProfileInit ==
  ASSUME Profile!ProfileAssumption, Profile!Init
  PROVE  ProfileInv
<1>1. /\ DOMAIN profile = {"exists", "items"}
      /\ \/ profile.items = {}
         \/ profile.items = {Profile!Item(u, f) : u \in Wrote, f \in Profile!AllFields}
  BY DEF Profile!Init
<1>2. \A i \in profile.items : \E u \in Wrote, f \in Profile!AllFields : i = Profile!Item(u, f)
  BY <1>1
<1>3. ItemsFit(profile.items) /\ \A i \in profile.items : i.by \in Wrote
  BY <1>2 DEF ItemsFit, Profile!Item
<1>4. Setups \cap Wrote = {}
  BY DEF Profile!ProfileAssumption
<1>5. write = [u \in Setups |-> write[u]] /\ \A u \in Setups : WriteFits(write[u])
  BY DEF Profile!Init, Profile!NoWrite, WriteFits
<1>6. QED
  BY <1>1, <1>3, <1>4, <1>5 DEF ProfileInv

-----------------------------------------------------------------------------
(* The profile: one field, and all of an edit *)

\* What is left of a field is of that field, at most one item of a request, and what the
\* request adds is its own.
LEMMA FieldFits ==
  ASSUME ProfileInv, NEW u \in Setups, Profile!At(u, "edit"), NEW f, NEW first,
         LET read == {i.by : i \in Profile!InField(write[u].seen, f)}
         IN first \in read \/ read = {}
  PROVE  LET left == Profile!FieldEdit(u, f, first)
         IN /\ ItemsFit(left) /\ \A i \in left : i.field = f
            /\ \A i \in left : i.by = u \/ \E j \in profile.items : j.by = i.by
<1> DEFINE current == {i.by : i \in Profile!InField(write[u].seen, f)}
           now == {i \in profile.items : i.field = f}
           kept == {i \in now : i.by \notin current}
           new == [by |-> u, field |-> f, value |-> Wanted[u][f]]
           set == {[i EXCEPT !.value = Wanted[u][f]] : i \in {j \in now : j.by = first}}
           left == Profile!FieldEdit(u, f, first)
<1>1. /\ ItemsFit(now) /\ \A i \in now : i.field = f
      /\ \A i \in now : \E j \in profile.items : j.by = i.by
  BY DEF ProfileInv, ItemsFit
<1>2. \A i \in now : i.by # u
  BY DEF ProfileInv, Profile!At, Over
<1>3. left = IF Wanted[u][f] = Cleared THEN kept
             ELSE IF current = {} THEN now \cup {new} ELSE kept \cup set
  BY DEF Profile!FieldEdit, Profile!InField, Profile!Item
<1>4. CASE left = kept
  BY <1>1, <1>4 DEF ItemsFit
<1>5. CASE left = now \cup {new}
  <2>1. DOMAIN new = {"by", "field", "value"} /\ new.by = u /\ new.field = f
    OBVIOUS
  <2> HIDE DEF new, now, left
  <2>2. QED
    BY <1>1, <1>2, <1>5, <2>1 DEF ItemsFit, left
<1>6. CASE first \in current /\ left = kept \cup set
  <2>1. \A s \in set : \E i \in now : /\ i.by = first /\ s = [i EXCEPT !.value = Wanted[u][f]]
                                      /\ s.by = i.by /\ s.field = f
                                      /\ DOMAIN s = {"by", "field", "value"}
    BY <1>1 DEF ItemsFit
  <2>2. \A s, r \in set : s = r
    BY <1>1, <2>1 DEF ItemsFit
  <2>3. \A s \in set, i \in kept : s.by # i.by
    BY <1>6, <2>1
  <2>4. ItemsFit(kept) /\ kept \subseteq now
    BY <1>1 DEF ItemsFit
  <2> HIDE DEF now, kept, set, left, current
  <2>5. QED
    BY <1>1, <1>6, <2>1, <2>2, <2>3, <2>4 DEF ItemsFit, left
<1>7. first \in current \/ current = {}
  OBVIOUS
<1>8. QED
  BY <1>3, <1>4, <1>5, <1>6, <1>7

\* So the profile stays well formed, whatever part of an edit is carried out.
LEMMA CarriesFits ==
  ASSUME ProfileInv, NEW u \in Setups, Profile!At(u, "edit"),
         NEW done \in SUBSET Profile!Fields(u), Profile!Carries(u, done)
  PROVE  /\ DOMAIN profile' = {"exists", "items"} /\ ItemsFit(profile'.items)
         /\ \A i \in profile'.items : i.by = u \/ \E j \in profile.items : j.by = i.by
         /\ \E first : \A f \in done :
              /\ LET read == {i.by : i \in Profile!InField(write[u].seen, f)}
                 IN first[f] \in read \/ read = {}
              /\ Profile!InField(profile'.items, f) = Profile!FieldEdit(u, f, first[f])
<1>1. PICK first \in [done -> Setups \cup Wrote] :
        /\ \A f \in done : LET read == {i.by : i \in Profile!InField(write[u].seen, f)}
                           IN first[f] \in read \/ (read = {} /\ first[f] = u)
        /\ profile' = [profile EXCEPT !.items =
             {i \in @ : i.field \notin done}
               \cup UNION {Profile!FieldEdit(u, f, first[f]) : f \in done}]
  BY DEF Profile!Carries
<1> DEFINE others == {i \in profile.items : i.field \notin done}
           left(f) == Profile!FieldEdit(u, f, first[f])
<1>2. /\ DOMAIN profile' = {"exists", "items"}
      /\ profile'.items = others \cup UNION {left(f) : f \in done}
  BY <1>1 DEF ProfileInv
<1>3. ASSUME NEW f \in done
      PROVE  /\ ItemsFit(left(f)) /\ \A i \in left(f) : i.field = f
             /\ \A i \in left(f) : i.by = u \/ \E j \in profile.items : j.by = i.by
  BY <1>1, FieldFits
<1>4. ItemsFit(others) /\ \A i \in others : i.field \notin done /\ i \in profile.items
  BY DEF ProfileInv, ItemsFit
<1> HIDE DEF others, left
<1>5. \A i \in profile'.items : i \in others \/ (i.field \in done /\ i \in left(i.field))
  BY <1>2, <1>3
<1>6. ItemsFit(profile'.items)
  BY <1>3, <1>4, <1>5 DEF ItemsFit
<1>7. \A i \in profile'.items : i.by = u \/ \E j \in profile.items : j.by = i.by
  BY <1>3, <1>4, <1>5
<1>8. ASSUME NEW f \in done PROVE Profile!InField(profile'.items, f) = left(f)
  BY <1>2, <1>3, <1>4, <1>5 DEF Profile!InField
<1>9. QED
  BY <1>1, <1>2, <1>6, <1>7, <1>8 DEF left

\* An edit made for what is there leaves one item of a field with its value, or none.
LEMMA WholeEditHeals ==
  ASSUME ProfileInv, NEW u \in Setups, Profile!At(u, "edit"), write[u].seen = profile.items,
         Profile!Carries(u, Profile!Fields(u)), NEW f \in Profile!Fields(u)
  PROVE  IF Wanted[u][f] = Cleared THEN Profile!InField(profile'.items, f) = {}
         ELSE /\ Profile!Cardinality(Profile!InField(profile'.items, f)) = 1
              /\ Profile!Holds(profile'.items, f) = {Wanted[u][f]}
<1> DEFINE now == {i \in profile.items : i.field = f}
           current == {i.by : i \in now}
           left == Profile!InField(profile'.items, f)
<1>1. PICK first : /\ first[f] \in current \/ current = {}
                   /\ left = Profile!FieldEdit(u, f, first[f])
  BY CarriesFits DEF Profile!InField
<1> DEFINE kept == {i \in now : i.by \notin current}
           set == {[i EXCEPT !.value = Wanted[u][f]] : i \in {j \in now : j.by = first[f]}}
<1>2. left = IF Wanted[u][f] = Cleared THEN kept
             ELSE IF current = {} THEN now \cup {Profile!Item(u, f)} ELSE kept \cup set
  BY <1>1 DEF Profile!FieldEdit, Profile!InField
<1>3. kept = {} /\ (current = {} => now = {})
  OBVIOUS
<1>4. ASSUME Wanted[u][f] # Cleared PROVE \E i : left = {i} /\ i.value = Wanted[u][f]
  <2>1. CASE current = {}
    <3>1. left = {Profile!Item(u, f)}
      BY <1>2, <1>3, <1>4, <2>1
    <3>2. Profile!Item(u, f).value = Wanted[u][f]
      BY DEF Profile!Item
    <3>3. QED
      BY <3>1, <3>2
  <2>2. CASE current # {}
    <3>1. PICK i \in now : i.by = first[f]
      BY <1>1, <2>2
    <3>2. \A j \in now : j.by = first[f] => j = i
      BY <3>1 DEF ProfileInv, ItemsFit
    <3>3. set = {[i EXCEPT !.value = Wanted[u][f]]}
      BY <3>1, <3>2
    <3>4. DOMAIN i = {"by", "field", "value"}
      BY DEF ProfileInv, ItemsFit
    <3>5. [i EXCEPT !.value = Wanted[u][f]].value = Wanted[u][f]
      BY <3>4
    <3>6. left = set
      BY <1>2, <1>3, <1>4, <2>2
    <3>7. QED
      BY <3>3, <3>5, <3>6
  <2>3. QED
    BY <2>1, <2>2
<1>5. ASSUME NEW i, left = {i}, i.value = Wanted[u][f]
      PROVE  Profile!Cardinality(left) = 1 /\ Profile!Holds(profile'.items, f) = {Wanted[u][f]}
  <2>1. Profile!Holds(profile'.items, f) = {j.value : j \in left}
    BY DEF Profile!Holds
  <2> HIDE DEF left
  <2>2. QED
    BY <1>5, <2>1, OneIsOne
<1>6. ASSUME Wanted[u][f] = Cleared PROVE left = {}
  BY <1>2, <1>3, <1>6
<1>7. QED
  BY <1>4, <1>5, <1>6

-----------------------------------------------------------------------------
(* The profile: the steps *)

\* A write that moves, without an edit.
LEMMA WriteMoves ==
  ASSUME ProfileInv, NEW u \in Setups, NEW w, write' = [write EXCEPT ![u] = w],
         WriteFits(w), Over(write[u]) => Over(w)
  PROVE  /\ write' = [v \in Setups |-> write'[v]] /\ \A v \in Setups : WriteFits(write'[v])
         /\ \A v \in Setups : Over(write[v]) => Over(write'[v])
         /\ write'[u] = w /\ \A v \in Setups : v # u => write'[v] = write[v]
BY DEF ProfileInv

LEMMA NoEdit ==
  ASSUME ProfileInv, UNCHANGED profile.items, DOMAIN profile' = {"exists", "items"},
         NEW u \in Setups, NEW w, write' = [write EXCEPT ![u] = w], WriteFits(w),
         Over(write[u]) => Over(w), write[u].at = "edit" => w.status # "updated"
  PROVE  ProfileStepFits
<1>1. ProfileInv'
  BY WriteMoves DEF ProfileInv
<1>2. \A v \in Setups : Profile!At(v, "edit") => write'[v].status # "updated"
  BY WriteMoves DEF ProfileInv, WriteFits, Profile!At
<1>3. QED
  BY <1>1, <1>2 DEF ProfileStepFits, Healed

\* A request that only moves on is none whose edit is carried out.
LEMMA OnlyMoves ==
  ASSUME ProfileInv, UNCHANGED profile, NEW u \in Setups, ~Over(write[u]),
         NEW w, write' = [write EXCEPT ![u] = w], DOMAIN w = {"at", "try", "seen", "status", "counted"},
         w.status = write[u].status
  PROVE  ProfileStepFits
<1>1. WriteFits(w) /\ w.status # "updated"
  BY DEF ProfileInv, WriteFits, Over
<1>2. DOMAIN profile' = {"exists", "items"} /\ UNCHANGED profile.items
  BY DEF ProfileInv
<1>3. QED
  BY <1>1, <1>2, NoEdit

LEMMA MovesFits ==
  ASSUME ProfileInv, UNCHANGED profile, NEW u \in Setups, ~Over(write[u]), NEW stage,
         Profile!Moves(u, stage)
  PROVE  ProfileStepFits
<1> DEFINE w == [write[u] EXCEPT !.at = stage]
<1>1. write' = [write EXCEPT ![u] = w]
  BY DEF Profile!Moves
<1>2. DOMAIN w = {"at", "try", "seen", "status", "counted"} /\ w.status = write[u].status
  BY DEF ProfileInv, WriteFits
<1> HIDE DEF w
<1>3. QED
  BY <1>1, <1>2, OnlyMoves

LEMMA WritesElsewhere ==
  ASSUME ProfileInv, UNCHANGED profile.items, UNCHANGED write, DOMAIN profile' = {"exists", "items"}
  PROVE  ProfileStepFits
BY DEF ProfileInv, ProfileStepFits, Healed, Profile!At, WriteFits

LEMMA OpensFits ==
  ASSUME ProfileInv, NEW u \in Setups, Profile!Opens(u), ~Over(write[u])
  PROVE  ProfileStepFits
BY MovesFits DEF Profile!Opens

\* Another try, or the last.
LEMMA AgainFits ==
  ASSUME ProfileInv, UNCHANGED profile, NEW u \in Setups, ~Over(write[u]), Profile!PollsAgain(u)
  PROVE  ProfileStepFits
<1>1. CASE write' = [write EXCEPT ![u].try = @ + 1]
  <2> DEFINE w == [write[u] EXCEPT !.try = @ + 1]
  <2>1. write' = [write EXCEPT ![u] = w]
    BY <1>1
  <2>2. DOMAIN w = {"at", "try", "seen", "status", "counted"} /\ w.status = write[u].status
    BY DEF ProfileInv, WriteFits
  <2> HIDE DEF w
  <2>3. QED
    BY <2>1, <2>2, OnlyMoves
<1>2. CASE write' = [write EXCEPT ![u].at = "failed"]
  BY <1>2, MovesFits DEF Profile!Moves
<1>3. QED
  BY <1>1, <1>2 DEF Profile!PollsAgain

\* What was read, or another try.
LEMMA ReadsFits ==
  ASSUME ProfileInv, NEW u \in Setups, Profile!Reads(u) \/ Profile!Polls(u)
  PROVE  ProfileStepFits
<1>1. UNCHANGED profile /\ ~Over(write[u]) /\ DOMAIN write[u] = {"at", "try", "seen", "status", "counted"}
  BY DEF Profile!Reads, Profile!Polls, Profile!At, Over, ProfileInv, WriteFits
<1>2. CASE \E stage : Profile!Moves(u, stage)
  BY <1>1, <1>2, MovesFits
<1>3. CASE Profile!PollsAgain(u)
  BY <1>1, <1>3, AgainFits
<1>4. CASE \E stage : write' = [write EXCEPT ![u].seen = profile.items, ![u].at = stage]
  <2>1. PICK stage : write' = [write EXCEPT ![u].seen = profile.items, ![u].at = stage]
    BY <1>4
  <2> DEFINE w == [write[u] EXCEPT !.seen = profile.items, !.at = stage]
  <2>2. write' = [write EXCEPT ![u] = w]
    BY <2>1 DEF ProfileInv
  <2>3. DOMAIN w = {"at", "try", "seen", "status", "counted"} /\ w.status = write[u].status
    BY <1>1
  <2> HIDE DEF w
  <2>4. QED
    BY <1>1, <2>2, <2>3, OnlyMoves
<1>5. QED
  BY <1>2, <1>3, <1>4 DEF Profile!Reads, Profile!Polls

\* The setup conversation, and every call that fails before the edit.
LEMMA TellsFits ==
  ASSUME ProfileInv, NEW u \in Setups, NEW f,
         \/ Profile!Tells(u) \/ Profile!FlushesSetup(u) \/ Profile!EditRefused(u)
         \/ Profile!ReadFails(u, f) \/ Profile!TellFails(u, f) \/ Profile!PollFails(u, f)
  PROVE  ProfileStepFits
<1>1. UNCHANGED profile /\ ~Over(write[u]) /\ DOMAIN write[u] = {"at", "try", "seen", "status", "counted"}
  BY DEF Profile!Tells, Profile!FlushesSetup, Profile!EditRefused, Profile!ReadFails,
         Profile!TellFails, Profile!PollFails, Profile!At, Over, ProfileInv, WriteFits
<1>2. CASE \E stage : Profile!Moves(u, stage)
  BY <1>1, <1>2, MovesFits
<1>3. CASE Profile!FlushesSetup(u)
  <2> DEFINE w == [write[u] EXCEPT !.at = "poll", !.try = 1]
  <2>1. write' = [write EXCEPT ![u] = w]
    BY <1>3 DEF Profile!FlushesSetup, ProfileInv
  <2>2. DOMAIN w = {"at", "try", "seen", "status", "counted"} /\ w.status = write[u].status
    BY <1>1
  <2> HIDE DEF w
  <2>3. QED
    BY <1>1, <2>1, <2>2, OnlyMoves
<1>4. CASE Profile!PollsAgain(u)
  BY <1>1, <1>4, AgainFits
<1>5. QED
  BY <1>2, <1>3, <1>4
     DEF Profile!Tells, Profile!EditRefused, Profile!ReadFails, Profile!TellFails,
         Profile!PollFails

\* An edit leaves items of its own, and only then.
LEMMA EditedFits ==
  ASSUME ProfileInv, NEW u \in Setups, Profile!At(u, "edit"),
         NEW done \in SUBSET Profile!Fields(u), Profile!Carries(u, done),
         NEW w, write' = [write EXCEPT ![u] = w], WriteFits(w), Over(w)
  PROVE  ProfileInv' /\ \A v \in Setups : v # u => Healed(v)
<1>1. /\ write' = [v \in Setups |-> write'[v]] /\ \A v \in Setups : WriteFits(write'[v])
      /\ \A v \in Setups : Over(write[v]) => Over(write'[v])
      /\ write'[u] = w /\ \A v \in Setups : v # u => write'[v] = write[v]
  BY WriteMoves
<1>2. /\ DOMAIN profile' = {"exists", "items"} /\ ItemsFit(profile'.items)
      /\ \A i \in profile'.items : i.by = u \/ \E j \in profile.items : j.by = i.by
  BY CarriesFits
<1>3. \A i \in profile'.items : i.by \in Setups => Over(write'[i.by])
  <2> SUFFICES ASSUME NEW i \in profile'.items, i.by \in Setups PROVE Over(write'[i.by])
    OBVIOUS
  <2>1. CASE i.by = u
    BY <1>1, <2>1
  <2>2. CASE \E j \in profile.items : j.by = i.by
    BY <1>1, <2>2 DEF ProfileInv
  <2>3. QED
    BY <1>2, <2>1, <2>2
<1>4. ProfileInv'
  BY <1>1, <1>2, <1>3 DEF ProfileInv
<1>5. \A v \in Setups : v # u /\ Profile!At(v, "edit") => write'[v].status # "updated"
  BY <1>1 DEF ProfileInv, WriteFits, Profile!At
<1>6. QED
  BY <1>4, <1>5 DEF Healed

LEMMA EditsFits ==
  ASSUME ProfileInv, NEW u \in Setups, Profile!Edits(u)
  PROVE  ProfileStepFits
<1>1. Profile!At(u, "edit")
  BY DEF Profile!Edits
<1>2. PICK done \in SUBSET Profile!Fields(u), counted \in BOOLEAN :
        /\ Profile!Carries(u, done)
        /\ write' = [write EXCEPT ![u] = [Profile!NoWrite EXCEPT
             !.at = "done", !.counted = counted,
             !.status = IF ~counted \/ (done = Profile!Fields(u) /\ Profile!Whole(u))
                        THEN "updated"
                        ELSE IF done = {} THEN "unchanged" ELSE "partial"]]
  BY DEF Profile!Edits
<1> DEFINE w == [Profile!NoWrite EXCEPT
             !.at = "done", !.counted = counted,
             !.status = IF ~counted \/ (done = Profile!Fields(u) /\ Profile!Whole(u))
                        THEN "updated"
                        ELSE IF done = {} THEN "unchanged" ELSE "partial"]
<1>3. WriteFits(w) /\ Over(w) /\ (w.status = "updated" /\ w.counted => done = Profile!Fields(u))
  BY DEF Profile!NoWrite, WriteFits, Over
<1>4. write' = [write EXCEPT ![u] = w]
  BY <1>2
<1> HIDE DEF w
<1>5. ProfileInv' /\ \A v \in Setups : v # u => Healed(v)
  BY <1>1, <1>2, <1>3, <1>4, EditedFits
<1>6. write'[u] = w
  BY <1>4 DEF ProfileInv
<1>7. Healed(u)
  <2> SUFFICES ASSUME write[u].seen = profile.items, write'[u].status = "updated",
                      write'[u].counted
               PROVE  Healed(u)
    BY DEF Healed
  <2>1. Profile!Carries(u, Profile!Fields(u))
    BY <1>2, <1>3, <1>6
  <2>2. QED
    BY <1>1, <2>1, WholeEditHeals DEF Healed
<1>8. QED
  BY <1>5, <1>7 DEF ProfileStepFits

LEMMA EditFailsFits ==
  ASSUME ProfileInv, NEW u \in Setups, NEW f, Profile!EditFails(u, f)
  PROVE  ProfileStepFits
<1>1. Profile!At(u, "edit") /\ Profile!Moves(u, "failed") /\ ~Over(write[u])
  BY DEF Profile!EditFails, Profile!At, Over
<1>2. CASE UNCHANGED profile
  BY <1>1, <1>2, MovesFits
<1>3. CASE Profile!Carries(u, Profile!Fields(u))
  <2> DEFINE w == [write[u] EXCEPT !.at = "failed"]
  <2>1. write' = [write EXCEPT ![u] = w]
    BY <1>1 DEF Profile!Moves
  <2>2. WriteFits(w) /\ Over(w) /\ w.status = "none"
    BY <1>1 DEF ProfileInv, WriteFits, Over, Profile!At
  <2> HIDE DEF w
  <2>3. write'[u] = w
    BY <2>1 DEF ProfileInv
  <2>4. QED
    BY <1>1, <1>3, <2>1, <2>2, <2>3, EditedFits DEF ProfileStepFits, Healed
<1>4. QED
  BY <1>2, <1>3 DEF Profile!EditFails

\* A restart cuts short what was under way.
LEMMA ProfileRestartFits ==
  ASSUME ProfileInv, Profile!Restart
  PROVE  ProfileStepFits
<1>1. UNCHANGED profile
  BY DEF Profile!Restart
<1>2. ASSUME NEW u \in Setups
      PROVE  /\ WriteFits(write'[u]) /\ (Over(write[u]) => Over(write'[u]))
             /\ Profile!At(u, "edit") => write'[u].status # "updated"
  <2>1. write'[u] = IF write[u].at \in {"none", "done"} THEN write[u]
                    ELSE [Profile!NoWrite EXCEPT !.at = "failed"]
    BY DEF Profile!Restart
  <2> DEFINE w == [Profile!NoWrite EXCEPT !.at = "failed"]
  <2>2. WriteFits(w) /\ Over(w) /\ w.status = "none"
    BY DEF Profile!NoWrite, WriteFits, Over
  <2> HIDE DEF w
  <2>3. CASE write'[u] = write[u]
    BY <2>3 DEF ProfileInv, WriteFits, Profile!At
  <2>4. CASE write'[u] = w
    BY <2>2, <2>4
  <2>5. QED
    BY <2>1, <2>3, <2>4 DEF w
<1>3. write' = [u \in Setups |-> write'[u]]
  BY DEF Profile!Restart
<1>4. ProfileInv'
  BY <1>1, <1>2, <1>3 DEF ProfileInv
<1>5. QED
  BY <1>2, <1>4 DEF ProfileStepFits, Healed

\* A session whose write was never started is a request that was never made.
SessionFits ==
  /\ session = [u \in Setups |-> session[u]]
  /\ \A u \in Setups : session[u] = "none" => write[u].at = "none"

\* The writes that move are those of sessions that are there.
LEMMA SessionsStay ==
  ASSUME SessionFits, session' = [u \in Setups |-> session'[u]],
         \A u \in Setups : /\ session'[u] = "none" => session[u] = "none"
                           /\ session'[u] = "none" /\ write[u].at = "none"
                                => write'[u].at = "none"
  PROVE  SessionFits'
BY DEF SessionFits

LEMMA SessionStep ==
  ASSUME ProfileInv, SessionFits, Profile!Next
  PROVE  SessionFits'
<1>1. CASE Profile!Indexed
  BY <1>1 DEF Profile!Indexed, SessionFits
<1>2. CASE Profile!Restart
  <2>1. session' = [u \in Setups |-> session'[u]]
    BY <1>2 DEF Profile!Restart
  <2>2. ASSUME NEW u \in Setups
        PROVE  /\ session'[u] = "none" => session[u] = "none"
               /\ write[u].at = "none" => write'[u].at = "none"
    BY <1>2 DEF Profile!Restart
  <2>3. QED
    BY <2>1, <2>2, SessionsStay
<1>3. ASSUME NEW u \in Setups, Profile!Opens(u) \/ Profile!Pending(u) \/ Profile!Answers(u)
      PROVE  SessionFits'
  <2>1. PICK s : session' = [session EXCEPT ![u] = s] /\ s # "none"
    BY <1>3 DEF Profile!Opens, Profile!Pending, Profile!Answers
  <2>2. \A v \in Setups : v # u => write'[v] = write[v]
    BY <1>3 DEF Profile!Opens, Profile!Pending, Profile!Answers, Profile!Moves, ProfileInv
  <2>3. QED
    BY <2>1, <2>2 DEF SessionFits
<1>4. ASSUME NEW u \in Setups, NEW f,
             \/ Profile!Reads(u) \/ Profile!Tells(u) \/ Profile!FlushesSetup(u)
             \/ Profile!Polls(u) \/ Profile!Edits(u) \/ Profile!EditRefused(u)
             \/ Profile!ReadFails(u, f) \/ Profile!TellFails(u, f)
             \/ Profile!PollFails(u, f) \/ Profile!EditFails(u, f)
      PROVE  SessionFits'
  <2>1. UNCHANGED session /\ write[u].at # "none"
    BY <1>4 DEF Profile!Reads, Profile!Tells, Profile!FlushesSetup, Profile!Polls,
                Profile!Edits, Profile!EditRefused, Profile!ReadFails, Profile!TellFails, Profile!PollFails,
                Profile!EditFails, Profile!At
  <2>2. \A v \in Setups : v # u => write'[v] = write[v]
    BY <1>4 DEF Profile!Reads, Profile!Tells, Profile!FlushesSetup, Profile!Polls,
                Profile!Edits, Profile!EditRefused, Profile!ReadFails, Profile!TellFails, Profile!PollFails,
                Profile!EditFails, Profile!Moves, Profile!PollsAgain, ProfileInv
  <2>3. QED
    BY <2>1, <2>2 DEF SessionFits
<1>5. QED
  BY <1>1, <1>2, <1>3, <1>4 DEF Profile!Next

LEMMA ProfileStep ==
  ASSUME ProfileInv, SessionFits, [Profile!Next]_(Profile!profileVars)
  PROVE  ProfileStepFits /\ SessionFits'
<1>1. CASE UNCHANGED Profile!profileVars
  <2>1. ProfileStepFits
    BY <1>1, WritesElsewhere DEF Profile!profileVars, ProfileInv
  <2>2. QED
    BY <1>1, <2>1 DEF Profile!profileVars, SessionFits
<1>2. CASE Profile!Next
  <2>1. ASSUME NEW u \in Setups, Profile!Opens(u) PROVE ProfileStepFits
    BY <2>1, OpensFits DEF Profile!Opens, SessionFits, Over
  <2>2. ASSUME NEW u \in Setups, Profile!Pending(u) \/ Profile!Answers(u) PROVE ProfileStepFits
    BY <2>2, WritesElsewhere DEF Profile!Pending, Profile!Answers, ProfileInv
  <2>3. ASSUME Profile!Indexed PROVE ProfileStepFits
    <3>1. /\ profile'.items = profile.items /\ DOMAIN profile' = {"exists", "items"}
          /\ write' = write
      BY <2>3 DEF Profile!Indexed, ProfileInv
    <3>2. QED
      BY <3>1, WritesElsewhere
  <2>4. ProfileStepFits
    BY <1>2, <2>1, <2>2, <2>3, ProfileRestartFits, ReadsFits, TellsFits, EditsFits,
       EditFailsFits DEF Profile!Next
  <2>5. QED
    BY <1>2, <2>4, SessionStep
<1>3. QED
  BY <1>1, <1>2

-----------------------------------------------------------------------------
(* The profile: the theorem *)

\* However many tabs write at once, fail and are cut short, a write that is alone from its
\* read to its edit, that has no more operations than EverOS takes, and whose receipt counts
\* them all as applied, leaves each of its fields stored once, or a cleared one not at all.
\* Nothing is said of a write that is refused, or of a receipt without a count.
THEOREM ProfilesHeal ==
  ASSUME Profile!ProfileAssumption
  PROVE  Profile!Spec => Profile!ProfileHeals
<1>1. Profile!Init => ProfileInv /\ SessionFits
  <2>1. Profile!Init => SessionFits
    BY DEF Profile!Init, Profile!NoWrite, SessionFits
  <2>2. QED
    BY <2>1, ProfileInit
<1>2. ProfileInv /\ SessionFits /\ [Profile!Next]_(Profile!profileVars)
        => ProfileInv' /\ SessionFits'
  BY ProfileStep DEF ProfileStepFits
<1>3. ProfileInv /\ SessionFits /\ [Profile!Next]_(Profile!profileVars)
        => [\A u \in Setups :
              (Profile!At(u, "edit") /\ write[u].seen = profile.items
                 /\ write'[u].status = "updated" /\ write'[u].counted) =>
                \A f \in Profile!Fields(u) :
                  IF Wanted[u][f] = Cleared THEN Profile!InField(profile'.items, f) = {}
                  ELSE /\ Profile!Cardinality(Profile!InField(profile'.items, f)) = 1
                       /\ Profile!Holds(profile'.items, f) = {Wanted[u][f]}]_(Profile!profileVars)
  BY ProfileStep DEF ProfileStepFits, Healed
<1>4. QED
  BY <1>1, <1>2, <1>3, PTL DEF Profile!Spec, Profile!ProfileHeals
=============================================================================
