------------------------------ MODULE MCRunPanel ------------------------------
(* One run of a few updates: every constant is a bound, and the cfgs give them. *)
EXTENDS RunPanelProps
=============================================================================
