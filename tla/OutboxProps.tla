----------------------------- MODULE OutboxProps -----------------------------
(* What must hold of the telemetry outbox. *)
EXTENDS Outbox

Sets(i, k, c) == Log[i].key = k /\ c \in DOMAIN Log[i].set

\* What one row reported is not undone by another row about the same thing that
\* does not speak of it: a late ":started" row leaves the outcome alone.
ReportedColumnsStay ==
  \A i \in merged : \A c \in DOMAIN Log[i].set :
    (\A j \in Rows : Sets(j, Log[i].key, c) => j = i) =>
      warehouse[Log[i].key][c] = Log[i].set[c]

\* The inductive invariant behind it: a row under way was written and is not
\* marked, and a row is marked only after it was merged.
UnderWay ==
  \A i \in Rows : doing[i] # "nothing" => i <= written /\ status[i] # "synced"
AnswerFollowsMerge == \A i \in Rows : doing[i] = "merged" => i \in merged
MergedWereWritten == \A i \in merged : i <= written
SyncedWereMerged == \A i \in Rows : status[i] = "synced" => i \in merged

OutboxInv ==
  /\ TypeOK
  /\ UnderWay
  /\ AnswerFollowsMerge
  /\ MergedWereWritten
  /\ SyncedWereMerged
  /\ ReportedColumnsStay

Settled == {i \in 1..written : status[i] = "synced"}

Channel == INSTANCE Delivery WITH
  written <- 1..written, delivered <- merged, settled <- Settled

\* The outbox implements at-least-once delivery, through restarts and lost answers.
ImplementsDelivery == Channel!Spec

\* Calls come back (each has a timeout), retry times come, the drain polls, and the
\* warehouse takes a row it is sent again and again.
FairSpec ==
  /\ Spec
  /\ WF_vars(Poll) /\ WF_vars(EndFlush) /\ WF_vars(FinalFlush)
  /\ \A i \in Rows :
       /\ WF_vars(Send(i)) /\ WF_vars(Due(i))
       /\ WF_vars(Merge(i) \/ Acknowledged(i) \/ Failed(i))
       /\ SF_vars(Merge(i)) /\ SF_vars(Acknowledged(i))

\* While the drain lives, a row the warehouse can take is delivered, however many
\* rows it refuses come before, as long as they do not fill a batch.
Drains ==
  \A i \in Rows \ Rejected : i <= written ~> status[i] = "synced" \/ service # "draining"

\* stop() comes back, although the warehouse refuses rows or answers are lost.
StopReturns ==
  service \in {"stopping", "final"} ~> service \notin {"stopping", "final"}

\* Violated.  Once all rows about a thing have arrived, in whatever order, the
\* warehouse says what the last one said.
LastReportStands ==
  \A k \in Keys, c \in Columns, i \in Rows :
    /\ written = Len(Log)
    /\ \A j \in Rows : Sets(j, k, c) => status[j] = "synced"
    /\ Sets(i, k, c) /\ \A j \in Rows : Sets(j, k, c) => j <= i
    => warehouse[k][c] = Log[i].set[c]
=============================================================================
