---------------------------- MODULE MemoryToolProps ----------------------------
(* What the receipts of the memory tool may say. *)
EXTENDS MemoryTool

\* One page still lists every skill there is.
OnePage(s) == Cardinality(s.there) <= PageSize

\* The exit code of a run is true of what EverOS holds when the run ends, whatever was raised
\* where (cli/memory.py:135): 0 is an upload that arrived and a skill that is valid; 2 a command
\* or settings that local checks refuse; 3 a skill that is there and stays; 4 one that is not there, unless
\* there are more than the page that is read; 6 one whose content is not valid, or not any
\* more once it is redacted, or settings that never let EverOS be called; and nothing was
\* uploaded by a run that says neither 0 nor 5, or 2 for a receipt that could not be written.
ExitCodeFits ==
  LET c == tool.command
      ofSkill == c.verb \in {"skill.show", "skill.delete", "skill.revise"}
      means(code, what) == tool'.exit = code => what
  IN /\ means(0, /\ c.verb = "upload.reviewed" => objects' = tool'.had + 1
                 /\ c.verb = "skill.show" => c.id \in skills.valid)
     /\ means(2, \/ ~tool'.written \/ tool.at = "broken"
                 \/ Refuses(c) \/ ClientRefuses(c) \/ c.verb = "upload.reviewed"
                 \/ c.verb = "skill.revise" /\ c.edit = "unfit" /\ c.id \in skills.valid)
     /\ means(3, c.verb \in {"skill.delete", "skill.revise"} /\ c.id \in skills'.valid)
     /\ means(4, ofSkill /\ (c.id \notin skills.there \/ ~OnePage(skills)))
     /\ means(6, \/ tool.at = "broken"
                 \/ ofSkill /\ c.id \in skills.there \ skills.valid
                 \/ c.verb \in {"skill.show", "skill.revise"} /\ c.id \in skills.valid)
     /\ \/ objects' = tool'.had
        \/ c.verb = "upload.reviewed" /\ (tool'.exit \in {0, 5} \/ ~tool'.written)

\* While one page holds them all, a skill that routines list names as not validated could not
\* be read when it said so, although identifiers and routines are read in two calls and EverOS
\* makes skills between them (cli/memory.py:217).
UnvalidatedIsInvalid ==
  tool.at = "list" /\ OnePage(skills) =>
    (tool'.says.ids \ tool'.says.routines) \cap skills.listed = {}

\* What a run of the tool leaves behind is true: its exit code, and its list of routines.
ReceiptIsTrue ==
  [][tool.at # "exited" /\ tool'.at = "exited" => ExitCodeFits /\ UnvalidatedIsInvalid]_toolVars

\* Violated.  "EverOS returned content that failed WebAccessible validation"
\* (cli/memory.py:142): exit code 6 is given after a call to EverOS.
InvalidIsContent ==
  [][tool.at # "exited" /\ tool'.at = "exited" /\ tool'.exit = 6 => tool.at = "call"]_toolVars

\* Violated.  "did not validate against the WebAccessible skill contract and are listed by
\* provider ID only" (cli/memory.py:239): the routines shown as validated do validate.
RoutinesValidate ==
  [][tool.at = "list" /\ tool'.at = "exited" => tool'.says.routines \subseteq skills.valid]_toolVars
===============================================================================
