------------------------------ MODULE Sessions ------------------------------
(***************************************************************************)
(* The state graph of a guided web session: contracts/models.py            *)
(* SessionState and domain/sessions.py ALLOWED_TRANSITIONS.                *)
(***************************************************************************)

\* The states a session never leaves: each has an empty row in the table.
Terminal == {"completed", "prepared", "escalated", "abandoned", "failed"}

States == {"created", "observing", "help_offered", "guiding",
           "awaiting_user_action", "verifying", "rerouting", "repairing",
           "safety_paused", "provider_unavailable"} \cup Terminal

\* ALLOWED_TRANSITIONS, one row per state.
Allowed ==
  [created              |-> {"observing", "provider_unavailable", "failed"},
   observing            |-> States \ {"created", "observing", "verifying",
                                      "awaiting_user_action", "rerouting"},
   help_offered         |-> {"observing", "guiding", "safety_paused",
                             "abandoned", "failed", "provider_unavailable"},
   guiding              |-> {"awaiting_user_action", "safety_paused",
                             "escalated", "failed", "provider_unavailable"},
   awaiting_user_action |-> {"verifying", "rerouting", "safety_paused",
                             "abandoned", "escalated", "failed",
                             "provider_unavailable"},
   verifying            |-> {"guiding", "observing", "rerouting", "repairing",
                             "safety_paused", "completed", "prepared",
                             "escalated", "failed"},
   rerouting            |-> {"guiding", "repairing", "safety_paused",
                             "escalated", "failed", "provider_unavailable"},
   repairing            |-> {"guiding", "safety_paused", "escalated",
                             "failed", "provider_unavailable"},
   safety_paused        |-> {"observing", "verifying", "escalated",
                             "prepared", "abandoned", "failed"},
   provider_unavailable |-> {"observing", "abandoned", "failed"},
   completed |-> {}, prepared |-> {}, escalated |-> {}, abandoned |-> {},
   failed |-> {}]

\* Mutants of MayMove: the table is not looked at; a pause gives way to anything.
MayMoveAnywhere(current, target) == TRUE
MayMoveFromPause(current, target) ==
  target = current \/ target \in Allowed[current] \/ current = "safety_paused"

\* ensure_transition(current, target) returns instead of raising
\* InvalidStateTransition.
MayMove(current, target) == target = current \/ target \in Allowed[current]
=============================================================================
