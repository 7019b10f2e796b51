------------------------------- MODULE Outbox -------------------------------
(***************************************************************************)
(* The telemetry outbox: persistence/repository.py telemetry_outbox,       *)
(* drained by services/telemetry.py into MERGE statements of               *)
(* integrations/snowflake/client.py sync_outbox.                           *)
(*                                                                         *)
(* The table survives a restart; what a flush is doing and when a failed   *)
(* row may be tried again (_retry_at) do not.  Rows are numbered in the    *)
(* order they were written, which is the order pending_outbox reads them.  *)
(* Time is left out: a deferred row comes due at any moment.               *)
(***************************************************************************)
EXTENDS Naturals, Sequences, FiniteSets

CONSTANTS
  Log,             \* Log[i]: the warehouse key row i is merged under, and the
                   \* columns its payload sets: [key |-> k, set |-> f]
  Rejected,        \* rows sync_outbox raises ValueError for
  Keys, Columns,   \* of the warehouse tables
  Null,
  BatchSize, ScanLimit, MaxConcurrency,
  MaxRestarts      \* bound: how often the process is restarted

Rows == DOMAIN Log
Values == UNION {{Log[i].set[c] : c \in DOMAIN Log[i].set} : i \in Rows}

ASSUME OutboxAssumption ==
  /\ Log \in Seq([key : Keys, set : UNION {[C -> Values] : C \in SUBSET Columns}])
  /\ Rejected \subseteq Rows
  /\ BatchSize \in Nat \ {0}
  /\ ScanLimit \in Nat /\ BatchSize <= ScanLimit
  /\ MaxConcurrency \in Nat \ {0}
  /\ MaxRestarts \in Nat

VARIABLES
  written,    \* rows 1..written are in the table
  status,     \* their status
  deferred,   \* rows whose _retry_at has not come yet
  flushing,   \* a flush holds _flush_lock
  doing,      \* what that flush does with each row it selected
  service,    \* the drain task and stop()
  warehouse,  \* the merged tables
  merged,     \* history: rows the warehouse has merged
  restarts    \* restarts so far (bounded by MaxRestarts)

durable == <<written, status, warehouse, merged>>
vars == <<durable, deferred, flushing, doing, service, restarts>>

TypeOK ==
  /\ written \in 0..Len(Log)
  /\ status \in [Rows -> {"pending", "failed", "synced"}]
  /\ deferred \subseteq Rows
  /\ flushing \in BOOLEAN
  /\ doing \in [Rows -> {"nothing", "selected", "sending", "merged"}]
  /\ service \in {"draining", "dead", "stopping", "final", "stopped"}
  /\ warehouse \in [Keys -> [Columns -> Values \cup {Null}]]
  /\ merged \subseteq Rows
  /\ restarts \in 0..MaxRestarts

Init ==
  /\ written = 0
  /\ status = [i \in Rows |-> "pending"]
  /\ deferred = {}
  /\ flushing = FALSE
  /\ doing = [i \in Rows |-> "nothing"]
  /\ service = "draining"
  /\ warehouse = [k \in Keys |-> [c \in Columns |-> Null]]
  /\ merged = {}
  /\ restarts = 0

-----------------------------------------------------------------------------
\* enqueue: the next row is written (a stable_key that is there is ignored).
Enqueue ==
  /\ service # "stopped"
  /\ written < Len(Log)
  /\ written' = written + 1
  /\ UNCHANGED <<status, warehouse, merged, deferred, flushing, doing, service,
                 restarts>>

\* The first n of a set of rows.
FirstOf(rows, n) == {i \in rows : Cardinality({j \in rows : j <= i}) <= n}

\* Mutant of Pending: a row that failed is not read again.
PendingOnce == {i \in 1..written : status[i] = "pending"}

Pending == {i \in 1..written : status[i] \in {"pending", "failed"}}

Eligible(force) ==
  {i \in FirstOf(Pending, ScanLimit) : force \/ i \notin deferred}

StartFlush(force) ==
  /\ ~flushing
  /\ flushing' = TRUE
  /\ doing' = [i \in Rows |-> IF i \in FirstOf(Eligible(force), BatchSize)
                              THEN "selected" ELSE "nothing"]
  /\ UNCHANGED <<durable, deferred, restarts>>

\* One turn of _run.
Poll == service = "draining" /\ StartFlush(FALSE) /\ UNCHANGED service

\* pending_outbox raises: _run logs that and ends, and stop() passes it on.
PollRaises ==
  /\ ~flushing
  /\ \/ service = "draining" /\ service' = "dead"
     \/ service = "stopping" /\ service' = "stopped"
  /\ UNCHANGED <<durable, deferred, flushing, doing, restarts>>

\* The semaphore lets the next row through.
Send(i) ==
  /\ doing[i] = "selected"
  /\ Cardinality({j \in Rows : doing[j] \in {"sending", "merged"}}) < MaxConcurrency
  /\ doing' = [doing EXCEPT ![i] = "sending"]
  /\ UNCHANGED <<durable, deferred, flushing, service, restarts>>

\* Mutant of MergedRow: the row is written anew.
MergedRowAnew(row, set) ==
  [c \in Columns |-> IF c \in DOMAIN set THEN set[c] ELSE Null]

\* WHEN MATCHED THEN UPDATE SET of the columns of the payload.
MergedRow(row, set) == [c \in Columns |-> IF c \in DOMAIN set THEN set[c] ELSE row[c]]

\* The statement is committed in the warehouse.
Merge(i) ==
  /\ doing[i] = "sending" /\ i \notin Rejected
  /\ warehouse' = [warehouse EXCEPT ![Log[i].key] = MergedRow(@, Log[i].set)]
  /\ merged' = merged \cup {i}
  /\ doing' = [doing EXCEPT ![i] = "merged"]
  /\ UNCHANGED <<written, status, deferred, flushing, service, restarts>>

\* sync_outbox returns True and mark_outbox commits.
Acknowledged(i) ==
  /\ doing[i] = "merged"
  /\ status' = [status EXCEPT ![i] = "synced"]
  /\ deferred' = deferred \ {i}
  /\ doing' = [doing EXCEPT ![i] = "nothing"]
  /\ UNCHANGED <<written, warehouse, merged, flushing, service, restarts>>

\* Mutant of Failed: an answer that was lost is taken for success.
FailedSynced(i) ==
  /\ doing[i] \in {"sending", "merged"}
  /\ status' = [status EXCEPT ![i] = "synced"]
  /\ deferred' = deferred \cup {i}
  /\ doing' = [doing EXCEPT ![i] = "nothing"]
  /\ UNCHANGED <<written, warehouse, merged, flushing, service, restarts>>

\* The payload is refused, the statement fails, or its answer is lost; marking the
\* row as failed may itself raise.
Failed(i) ==
  /\ doing[i] \in {"sending", "merged"}
  /\ status' \in {status, [status EXCEPT ![i] = "failed"]}
  /\ deferred' = deferred \cup {i}
  /\ doing' = [doing EXCEPT ![i] = "nothing"]
  /\ UNCHANGED <<written, warehouse, merged, flushing, service, restarts>>

\* Mutant of EndFlush: stop() ends only when no row is left.
EndFlushWhenEmpty ==
  /\ flushing
  /\ \A i \in Rows : doing[i] = "nothing"
  /\ flushing' = FALSE
  /\ service' = IF service = "final" /\ Pending = {} THEN "stopped" ELSE service
  /\ UNCHANGED <<durable, deferred, doing, restarts>>

\* gather has all outcomes; a forced flush is the last thing stop() does.
EndFlush ==
  /\ flushing
  /\ \A i \in Rows : doing[i] = "nothing"
  /\ flushing' = FALSE
  /\ service' = IF service = "final" THEN "stopped" ELSE service
  /\ UNCHANGED <<durable, deferred, doing, restarts>>

Due(i) ==
  /\ i \in deferred
  /\ deferred' = deferred \ {i}
  /\ UNCHANGED <<durable, flushing, doing, service, restarts>>

-----------------------------------------------------------------------------
\* stop(): the stop event is set, and the runner is awaited.
Stop ==
  /\ service \in {"draining", "dead"}
  /\ service' = "stopping"
  /\ UNCHANGED <<durable, deferred, flushing, doing, restarts>>

FinalFlush ==
  /\ service = "stopping"
  /\ StartFlush(TRUE)
  /\ service' = "final"

\* The process ends, whatever it was doing, and the next one starts.
Restart ==
  /\ restarts < MaxRestarts
  /\ restarts' = restarts + 1
  /\ service' = "draining"
  /\ flushing' = FALSE
  /\ doing' = [i \in Rows |-> "nothing"]
  /\ deferred' = {}
  /\ UNCHANGED durable

Next ==
  \/ Enqueue
  \/ Poll
  \/ PollRaises
  \/ \E i \in Rows : Send(i) \/ Merge(i) \/ Acknowledged(i) \/ Failed(i) \/ Due(i)
  \/ EndFlush
  \/ Stop
  \/ FinalFlush
  \/ Restart

Spec == Init /\ [][Next]_vars
=============================================================================
