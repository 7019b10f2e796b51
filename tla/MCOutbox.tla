------------------------------ MODULE MCOutbox ------------------------------
(* The rows of a browser that was attached and terminated, and one that      *)
(* sync_outbox refuses.                                                      *)
EXTENDS OutboxProps

CONSTANTS browser, other

MCLog == <<
  [key |-> browser, set |-> [provider_status |-> "connected", attached_at |-> "noon"]],
  [key |-> other,   set |-> [provider_status |-> "refused"]],
  [key |-> browser, set |-> [provider_status |-> "terminated", terminal_reason |-> "completed"]] >>
MCColumns == {"provider_status", "attached_at", "terminal_reason"}
=============================================================================
