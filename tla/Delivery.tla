------------------------------ MODULE Delivery ------------------------------
(***************************************************************************)
(* What the telemetry outbox promises: every row written is kept until it  *)
(* was delivered, at least once, and is then never taken up again.         *)
(***************************************************************************)
CONSTANT Rows

VARIABLES
  written,    \* rows the program has written
  delivered,  \* rows the receiver has seen
  settled     \* rows the sender is done with

vars == <<written, delivered, settled>>

Init == written = {} /\ delivered = {} /\ settled = {}

Write(r) ==
  /\ r \notin written
  /\ written' = written \cup {r}
  /\ UNCHANGED <<delivered, settled>>

\* Once settled, a row is not delivered again.
Deliver(r) ==
  /\ r \in written \ settled
  /\ delivered' = delivered \cup {r}
  /\ UNCHANGED <<written, settled>>

Settle(r) ==
  /\ r \in delivered
  /\ settled' = settled \cup {r}
  /\ UNCHANGED <<written, delivered>>

Next == \E r \in Rows : Write(r) \/ Deliver(r) \/ Settle(r)

Spec == Init /\ [][Next]_vars
=============================================================================
