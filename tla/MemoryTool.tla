------------------------------ MODULE MemoryTool ------------------------------
(***************************************************************************)
(* The caregiver's memory command line (cli/memory.py) on the memory of    *)
(* one participant, while EverOS makes skills out of what the app records. *)
(* A run of the tool is one process: its arguments are checked, it calls   *)
(* EverOS, prints a receipt, and exits.                                    *)
(***************************************************************************)
EXTENDS EverOSErrors, Naturals, FiniteSets

CONSTANTS
  SkillIds,   \* agent skills EverOS may come to have
  PageSize,   \* _AGENT_SKILL_PAGE_SIZE (100)
  Outages,    \* the faults an EverOS call may meet
  MaxOutages, \* EverOS calls that fail (a bound)
  MaxRuns     \* runs of the tool (a bound)

ASSUME MemoryToolAssumption ==
  /\ PageSize \in Nat \ {0} /\ Outages \subseteq Faults
  /\ MaxOutages \in Nat /\ MaxRuns \in Nat

VARIABLES
  skills,   \* EverOS: skills there are, those routines list can read, and the valid documents
  objects,  \* EverOS: documents uploaded
  tool,     \* the process: its command, how far it is, and what it has read
  outages, runs

toolVars == <<skills, objects, tool, outages, runs>>

Verbs == {"routines.list", "skill.show", "skill.delete", "skill.revise",
          "episodes.search", "profile.status", "upload.reviewed"}

\* Lengths of a query on either side of each limit: 240 of the tool, 128 of the client.
QueryLengths == {0, 128, 129, 240, 241}

\* The arguments the checks tell apart.  A skill is asked for by an exact identifier, which
\* EverOS may not know yet.  An edit does not fit when it is stale, names no step of the
\* skill, changes nothing or makes no valid skill; a file, by its being there, type and size.
Commands ==
  {[verb |-> v] : v \in {"routines.list", "profile.status"}}
  \cup {[verb |-> v, id |-> k] : v \in {"skill.show", "skill.delete"}, k \in SkillIds}
  \cup {[verb |-> "skill.revise", id |-> k, edit |-> e] : k \in SkillIds,
          e \in {"none", "unfit", "fit"}}
  \cup {[verb |-> "episodes.search", length |-> n] : n \in QueryLengths}
  \cup {[verb |-> "upload.reviewed", reviewed |-> r, fit |-> f] : r \in BOOLEAN, f \in BOOLEAN}

NoTool == [at |-> "none"]

Init ==
  /\ skills = [there |-> {}, listed |-> {}, valid |-> {}]
  /\ objects = 0 /\ tool = NoTool /\ outages = 0 /\ runs = 0

Fails(f) == outages < MaxOutages /\ f \in Outages /\ outages' = outages + 1

\* EverOS makes a skill.  Its content may be, at once, later or never, good enough for a
\* summary (_routine_summaries asks for a name, a start URL and a revision), and for a
\* SkillDocument, of which those are only a part.
Distilled ==
  /\ \E k \in SkillIds : \E l \in SUBSET {k} : \E v \in SUBSET l :
       skills' = [there |-> skills.there \cup {k}, listed |-> skills.listed \cup l,
                  valid |-> skills.valid \cup v]
  /\ skills' # skills
  /\ UNCHANGED <<objects, tool, runs, outages>>

-----------------------------------------------------------------------------
(* Receipts *)

\* _command_error_receipt and _provider_error_receipt: the exit code of what a handler raises.
ExitOf == [ok |-> 0, unexpected |-> 1, refusal |-> 2, unsupported |-> 3, not_found |-> 4,
           provider |-> 5, invalid |-> 6, unconfigured |-> 7]

\* Mutant of Raised: except ValueError stands before except ValidationError, its subclass.
RaisedAsValueError(kind) ==
  ExitOf[IF kind \in {"value", "os", "invalid_display", "invalid_settings"} THEN "refusal"
         ELSE kind]

\* main: what reaches its except clauses, in their order.  Any ValidationError is taken for
\* content of EverOS.
Raised(kind) ==
  ExitOf[CASE kind \in {"invalid_display", "invalid_settings"} -> "invalid"
           [] kind \in {"value", "os"} -> "refusal"
           [] OTHER -> kind]

\* The receipt is printed, and written where --receipt says: failing at that turns an exit
\* code of zero into a refusal.
Exits(kind, says) ==
  \E written \in BOOLEAN :
    LET code == Raised(kind)
    IN tool' = [at |-> "exited", command |-> tool.command, says |-> says,
                written |-> written, had |-> tool.had,
                exit |-> IF written \/ code # 0 THEN code ELSE ExitOf.refusal]

Nothing == [ids |-> {}, routines |-> {}]
Says(kind) == Exits(kind, Nothing)
Goes(stage) == tool' = [tool EXCEPT !.at = stage]
Verb == tool.command.verb
Doing(stage) == tool.at = stage

\* Settings() as config.py makes it: without a key for EverOS, or not at all.
Settings == {"good", "unconfigured", "broken"}

\* main, up to the handler: the process starts with the identifiers checked; had is what
\* EverOS held then.
Runs(c, settings) ==
  /\ tool.at \in {"none", "exited"} /\ runs < MaxRuns
  /\ runs' = runs + 1
  /\ tool' = [at |-> IF settings = "good" THEN "checked" ELSE settings, command |-> c,
              read |-> {}, had |-> objects]
  /\ UNCHANGED <<skills, objects, outages>>

Unconfigured ==
  /\ Doing("unconfigured")
  /\ Says("unconfigured")
  /\ UNCHANGED <<skills, objects, runs, outages>>

\* get_settings raises a ValidationError, before EverOS is called.
Unsettled ==
  /\ Doing("broken")
  /\ Says("invalid_settings")
  /\ UNCHANGED <<skills, objects, runs, outages>>

\* _validated_query, --reviewed, _validated_upload_file and no_change_requested.
Refuses(c) ==
  \/ c.verb = "episodes.search" /\ c.length \notin 1..240
  \/ c.verb = "upload.reviewed" /\ (~c.reviewed \/ ~c.fit)
  \/ c.verb = "skill.revise" /\ c.edit = "none"

\* _require_identifier, which search applies to a query.
ClientRefuses(c) == c.verb = "episodes.search" /\ c.length > 128

\* What a handler checks before it calls EverOS.
Checks ==
  /\ Doing("checked")
  /\ IF Refuses(tool.command) THEN Says("refusal")
     ELSE IF ClientRefuses(tool.command) THEN Says("value")
     ELSE Goes("call")
  /\ UNCHANGED <<skills, objects, runs, outages>>

-----------------------------------------------------------------------------
(* Handlers *)

\* Every fault of a call is a provider error, but no profile is an answer (404).
CallFails(f) ==
  /\ tool.at \in {"call", "list"} /\ Fails(f)
  /\ Says(IF Verb = "profile.status" /\ MapError(f).missing THEN "ok" ELSE "provider")
  /\ objects' \in (IF Verb = "upload.reviewed" /\ Retryable(f) THEN {objects, objects + 1}
                   ELSE {objects})
  /\ UNCHANGED <<skills, runs>>

\* get_agent_memory returns one page.
Pages == {p \in SUBSET skills.there :
            Cardinality(p) = IF Cardinality(skills.there) < PageSize
                             THEN Cardinality(skills.there) ELSE PageSize}

\* handle_routines_list reads the identifiers of the skills...
ListsFirst ==
  /\ Doing("call") /\ Verb = "routines.list"
  /\ \E page \in Pages : tool' = [tool EXCEPT !.at = "list", !.read = page]
  /\ UNCHANGED <<skills, objects, runs, outages>>

\* ... and then, in a second call, the routines: those a summary can be made of.
Lists ==
  /\ Doing("list")
  /\ \E page \in Pages :
       Exits("ok", [ids |-> tool.read, routines |-> page \cap skills.listed])
  /\ UNCHANGED <<skills, objects, runs, outages>>

\* _load_skill: one exact identifier, on the page that get_skill reads.
Loads(page) ==
  LET k == tool.command.id
  IN IF k \notin page THEN "not_found" ELSE IF k \notin skills.valid THEN "invalid" ELSE "ok"

\* Redacting what is shown may leave a document that no longer validates.
Shows ==
  /\ Doing("call") /\ Verb = "skill.show"
  /\ \E page \in Pages, display \in {"ok", "invalid_display"} :
       Says(IF Loads(page) = "ok" THEN display ELSE Loads(page))
  /\ UNCHANGED <<skills, objects, runs, outages>>

\* EverOS cannot delete one skill: the provider refuses by itself.
Deletes ==
  /\ Doing("call") /\ Verb = "skill.delete"
  /\ \E page \in Pages : Says(IF Loads(page) = "ok" THEN "unsupported" ELSE Loads(page))
  /\ UNCHANGED <<skills, objects, runs, outages>>

\* Nor can it keep a revision; the edit is checked against the skill, and shown, first.
Revises ==
  /\ Doing("call") /\ Verb = "skill.revise"
  /\ \E page \in Pages, display \in {"unsupported", "invalid_display"} :
       Says(IF Loads(page) # "ok" THEN Loads(page)
            ELSE IF tool.command.edit # "fit" THEN "refusal" ELSE display)
  /\ UNCHANGED <<skills, objects, runs, outages>>

Searches ==
  /\ Doing("call") /\ Verb = "episodes.search"
  /\ Says("ok")
  /\ UNCHANGED <<skills, objects, runs, outages>>

\* Only read, and shown without the private fields.
Looks ==
  /\ Doing("call") /\ Verb = "profile.status"
  /\ Says("ok")
  /\ UNCHANGED <<skills, objects, runs, outages>>

\* The file may be gone or unreadable by now; an answer without a key is a provider error,
\* whatever became of the file.
Uploads ==
  /\ Doing("call") /\ Verb = "upload.reviewed"
  /\ \/ \E kind \in {"os", "value"} : Says(kind) /\ UNCHANGED objects
     \/ Says("ok") /\ objects' = objects + 1
     \/ Says("provider") /\ objects' \in {objects, objects + 1}
  /\ UNCHANGED <<skills, runs, outages>>

-----------------------------------------------------------------------------
Next ==
  \/ Distilled
  \/ \E c \in Commands, settings \in Settings : Runs(c, settings)
  \/ Unconfigured \/ Unsettled \/ Checks \/ ListsFirst \/ Lists \/ Shows \/ Deletes \/ Revises \/ Searches
  \/ Looks \/ Uploads \/ \E f \in Outages : CallFails(f)

Spec == Init /\ [][Next]_toolVars
=============================================================================
