----------------------------- MODULE EverOSErrors -----------------------------
(***************************************************************************)
(* What a failure of the EverOS client becomes on its way up:              *)
(* integrations/everos/client.py turns every exception of the SDK into a   *)
(* code and a retryable flag.                                              *)
(***************************************************************************)

\* What a call of the SDK may raise, by the tests of _map_error.
Faults == {"timeout", "storage_5xx", "storage_4xx", "unauthorized", "not_found",
           "rate_limited", "bad_request", "server", "sdk", "os", "other"}

\* The code of each fault.
CodeOf(f) ==
  CASE f = "timeout" -> "timeout"
    [] f \in {"storage_5xx", "storage_4xx"} -> "write_failed"
    [] f = "unauthorized" -> "unauthorized"
    [] f = "rate_limited" -> "rate_limited"
    [] f \in {"server", "os"} -> "unreachable"
    [] OTHER -> "invalid_response"

Retryable(f) == f \in {"timeout", "storage_5xx", "rate_limited", "server", "os"}

\* _map_error: missing stands for status_code = 404, the only status looked at later.
MapError(f) == [code |-> CodeOf(f), retryable |-> Retryable(f), missing |-> f = "not_found"]

\* add and flush: what is neither a refused key nor a limit is a failed write.
WriteError(f) ==
  IF CodeOf(f) \in {"unauthorized", "rate_limited"} THEN MapError(f)
  ELSE [MapError(f) EXCEPT !.code = "write_failed"]
=============================================================================
