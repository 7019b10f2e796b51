---------------------------- MODULE OutboxProofs ----------------------------
(* The outbox delivers at least once, for any rows, refusals and restarts. *)
EXTENDS OutboxProps, TLAPS

\* A row of the log has the shape the warehouse takes (the payloads sync_outbox
\* accepts).
LEMMA RowShape ==
  ASSUME NEW i \in Rows
  PROVE  /\ Log[i].key \in Keys
         /\ DOMAIN Log[i].set \subseteq Columns
         /\ \A c \in DOMAIN Log[i].set : Log[i].set[c] \in Values
<1> DEFINE Payloads == [key : Keys, set : UNION {[C -> Values] : C \in SUBSET Columns}]
<1>0. ASSUME NEW S, Log \in Seq(S) PROVE Log[i] \in S
  BY <1>0 DEF Rows
<1>1. Log[i] \in Payloads
  <2> HIDE DEF Payloads
  <2>1. Log \in Seq(Payloads)
    BY OutboxAssumption DEF Payloads
  <2> QED
    BY <1>0, <2>1
<1>2. PICK C \in SUBSET Columns : Log[i].set \in [C -> Values]
  BY <1>1
<1> QED
  BY <1>1, <1>2

\* Rows are numbered from one.
LEMMA RowNumbers == Len(Log) \in Nat /\ Rows = 1..Len(Log)
  BY OutboxAssumption DEF Rows

\* The bound on restarts is one.
LEMMA BoundIsNumber == MaxRestarts \in Nat
  BY OutboxAssumption

\* A MERGE leaves a row of the warehouse a row (WHEN MATCHED THEN UPDATE).
LEMMA MergeKeepsShape ==
  ASSUME NEW i \in Rows, NEW row \in [Columns -> Values \cup {Null}]
  PROVE  MergedRow(row, Log[i].set) \in [Columns -> Values \cup {Null}]
  BY RowShape DEF MergedRow

\* flush selects written rows that are not marked as synced.
LEMMA FlushTakesPending ==
  ASSUME NEW force \in BOOLEAN, NEW i \in FirstOf(Eligible(force), BatchSize)
  PROVE  i <= written /\ status[i] # "synced"
  BY DEF FirstOf, Eligible, Pending

-----------------------------------------------------------------------------
\* The first state satisfies the invariant.
LEMMA InitInv == Init => OutboxInv
<1> SUFFICES ASSUME Init PROVE OutboxInv
  OBVIOUS
<1> USE DEF Init
<1>1. written \in 0..Len(Log) /\ restarts \in 0..MaxRestarts
  BY RowNumbers, BoundIsNumber
<1>2. warehouse \in [Keys -> [Columns -> Values \cup {Null}]]
  OBVIOUS
<1>3. TypeOK
  BY <1>1, <1>2 DEF TypeOK
<1>4. UnderWay /\ AnswerFollowsMerge /\ MergedWereWritten /\ SyncedWereMerged
  BY DEF UnderWay, AnswerFollowsMerge, MergedWereWritten, SyncedWereMerged
<1>5. ReportedColumnsStay
  BY DEF ReportedColumnsStay
<1> QED
  BY <1>3, <1>4, <1>5 DEF OutboxInv

\* A flush that starts selects only such rows.
LEMMA StartFlushInv ==
  ASSUME OutboxInv, NEW force \in BOOLEAN, StartFlush(force),
         service' \in {"draining", "dead", "stopping", "final", "stopped"}
  PROVE  OutboxInv'
<1> USE DEF OutboxInv, StartFlush, durable
<1>1. TypeOK'
  BY DEF TypeOK
<1>2. UnderWay'
  BY FlushTakesPending DEF UnderWay, TypeOK
<1>3. AnswerFollowsMerge'
  BY DEF AnswerFollowsMerge, TypeOK
<1>4. MergedWereWritten' /\ SyncedWereMerged'
  BY DEF MergedWereWritten, SyncedWereMerged
<1>5. ReportedColumnsStay'
  BY DEF ReportedColumnsStay, Sets
<1> QED
  BY <1>1, <1>2, <1>3, <1>4, <1>5

\* A MERGE changes one row of one table, and there only the columns it speaks of.
LEMMA MergeInv ==
  ASSUME OutboxInv, NEW i \in Rows, Merge(i)
  PROVE  OutboxInv'
<1> USE DEF OutboxInv, Merge
<1> DEFINE k == Log[i].key
<1>1. k \in Keys /\ DOMAIN Log[i].set \subseteq Columns
  BY RowShape
<1>2. MergedRow(warehouse[k], Log[i].set) \in [Columns -> Values \cup {Null}]
  BY <1>1, MergeKeepsShape DEF TypeOK
<1>3. TypeOK'
  BY <1>1, <1>2 DEF TypeOK
<1>4. UnderWay' /\ AnswerFollowsMerge' /\ MergedWereWritten' /\ SyncedWereMerged'
  BY DEF UnderWay, AnswerFollowsMerge, MergedWereWritten, SyncedWereMerged, TypeOK
<1>5. ReportedColumnsStay'
  <2> SUFFICES ASSUME NEW j \in merged', NEW c \in DOMAIN Log[j].set,
                      \A r \in Rows : Sets(r, Log[j].key, c) => r = j
               PROVE  warehouse'[Log[j].key][c] = Log[j].set[c]
    BY DEF ReportedColumnsStay, Sets
  <2>1. j \in Rows /\ Log[j].key \in Keys /\ c \in Columns
    BY RowShape DEF TypeOK
  <2>2. CASE j = i
    BY <1>1, <2>1, <2>2 DEF TypeOK, MergedRow
  <2>3. CASE j # i
    <3>1. warehouse[Log[j].key][c] = Log[j].set[c]
      BY <2>1, <2>3 DEF ReportedColumnsStay
    <3>2. Log[j].key = k => c \notin DOMAIN Log[i].set
      BY <2>3 DEF Sets
    <3> QED
      BY <1>1, <2>1, <3>1, <3>2 DEF TypeOK, MergedRow
  <2> QED
    BY <2>2, <2>3
<1> QED
  BY <1>3, <1>4, <1>5

\* Every other step leaves the warehouse alone.
LEMMA QuietInv ==
  ASSUME OutboxInv, TypeOK', UNCHANGED <<warehouse, merged>>, written <= written',
         \A i \in Rows : doing'[i] # "nothing" => status'[i] # "synced",
         \A i \in Rows : doing'[i] # "nothing" => doing[i] # "nothing",
         \A i \in Rows : doing'[i] = "merged" => doing[i] = "merged",
         \A i \in Rows : status'[i] = "synced" => i \in merged
  PROVE  OutboxInv'
<1> USE DEF OutboxInv
<1>1. UnderWay'
  BY RowNumbers DEF UnderWay, TypeOK
<1>2. AnswerFollowsMerge' /\ SyncedWereMerged'
  BY DEF AnswerFollowsMerge, SyncedWereMerged
<1>3. MergedWereWritten'
  BY RowNumbers DEF MergedWereWritten, TypeOK
<1>4. ReportedColumnsStay'
  BY DEF ReportedColumnsStay, Sets
<1> QED
  BY <1>1, <1>2, <1>3, <1>4

\* What one row is going through: sent, acknowledged, failed, or due again.
LEMMA RowInv ==
  ASSUME OutboxInv, NEW i \in Rows, Send(i) \/ Acknowledged(i) \/ Failed(i) \/ Due(i)
  PROVE  OutboxInv'
<1> USE DEF OutboxInv, durable
<1>1. CASE Send(i)
  <2>1. TypeOK'
    BY <1>1 DEF Send, TypeOK
  <2> QED
    BY <1>1, <2>1, QuietInv DEF Send, TypeOK, UnderWay, SyncedWereMerged
<1>2. CASE Acknowledged(i)
  <2>1. TypeOK'
    BY <1>2 DEF Acknowledged, TypeOK
  <2> QED
    BY <1>2, <2>1, QuietInv
    DEF Acknowledged, TypeOK, UnderWay, AnswerFollowsMerge, SyncedWereMerged
<1>3. CASE Failed(i)
  <2>1. TypeOK'
    BY <1>3 DEF Failed, TypeOK
  <2> QED
    BY <1>3, <2>1, QuietInv DEF Failed, TypeOK, UnderWay, SyncedWereMerged
<1>4. CASE Due(i)
  <2>1. TypeOK'
    BY <1>4 DEF Due, TypeOK
  <2> QED
    BY <1>4, <2>1, QuietInv DEF Due, TypeOK, UnderWay, SyncedWereMerged
<1> QED
  BY <1>1, <1>2, <1>3, <1>4

\* The table, the drain task and the process.
LEMMA ServiceInv ==
  ASSUME OutboxInv,
         Enqueue \/ PollRaises \/ EndFlush \/ Stop \/ Restart \/ UNCHANGED vars
  PROVE  OutboxInv'
<1> USE DEF OutboxInv, durable
<1>1. TypeOK'
  <2>1. CASE Enqueue
    BY <2>1, RowNumbers DEF Enqueue, TypeOK
  <2>2. CASE Restart
    <3>1. restarts' \in 0..MaxRestarts
      BY <2>2, BoundIsNumber DEF Restart, TypeOK
    <3> QED
      BY <2>2, <3>1 DEF Restart, TypeOK
  <2> QED
    BY <2>1, <2>2 DEF PollRaises, EndFlush, Stop, vars, TypeOK
<1>2. written <= written'
  BY RowNumbers DEF Enqueue, PollRaises, EndFlush, Stop, Restart, vars, TypeOK
<1>3. \A i \in Rows : doing'[i] = doing[i] \/ doing'[i] = "nothing"
  BY DEF Enqueue, PollRaises, EndFlush, Stop, Restart, vars
<1>4. UNCHANGED <<status, warehouse, merged>>
  BY DEF Enqueue, PollRaises, EndFlush, Stop, Restart, vars
<1> QED
  BY <1>1, <1>2, <1>3, <1>4, QuietInv DEF UnderWay, SyncedWereMerged

\* Every step preserves the invariant.
LEMMA NextInv ==
  ASSUME OutboxInv, [Next]_vars
  PROVE  OutboxInv'
<1>1. CASE Poll
  BY <1>1, StartFlushInv DEF Poll, OutboxInv, TypeOK
<1>2. CASE FinalFlush
  BY <1>2, StartFlushInv DEF FinalFlush
<1>3. CASE \E i \in Rows : Merge(i)
  BY <1>3, MergeInv
<1>4. CASE \E i \in Rows : Send(i) \/ Acknowledged(i) \/ Failed(i) \/ Due(i)
  BY <1>4, RowInv
<1>5. CASE Enqueue \/ PollRaises \/ EndFlush \/ Stop \/ Restart \/ UNCHANGED vars
  BY <1>5, ServiceInv
<1> QED
  BY <1>1, <1>2, <1>3, <1>4, <1>5 DEF Next

\* The strengthened invariant of telemetry.py and its table.
THEOREM OutboxInvHolds == Spec => []OutboxInv
  BY InitInv, NextInv, PTL DEF Spec

\* A late or repeated MERGE does not undo what another row reported about other
\* columns, for any log, refusals and restarts.
THEOREM ColumnsStay == Spec => []ReportedColumnsStay
<1>1. OutboxInv => ReportedColumnsStay
  BY DEF OutboxInv
<1> QED
  BY <1>1, OutboxInvHolds, PTL

-----------------------------------------------------------------------------
\* The table starts empty.
LEMMA InitMaps == Init => Channel!Init
  BY RowNumbers DEF Init, Channel!Init, Settled

\* Each step writes, delivers or settles one row, or is none of the receiver's
\* business.
LEMMA StepMaps ==
  ASSUME OutboxInv, [Next]_vars
  PROVE  [Channel!Next]_Channel!vars
<1> USE DEF OutboxInv, durable
<1>1. CASE Enqueue
  <2>1. written + 1 \in Rows /\ written + 1 \notin 1..written
    BY <1>1, RowNumbers DEF Enqueue, TypeOK
  <2>2. 1..written' = (1..written) \cup {written + 1}
    BY <1>1, RowNumbers DEF Enqueue, TypeOK
  <2>3. status[written + 1] # "synced"
    BY <2>1, RowNumbers DEF SyncedWereMerged, MergedWereWritten, TypeOK
  <2>4. Settled' = Settled
    BY <1>1, <2>2, <2>3 DEF Enqueue, Settled
  <2>5. Channel!Write(written + 1)
    BY <1>1, <2>1, <2>2, <2>4 DEF Enqueue, Channel!Write
  <2> QED
    BY <2>1, <2>5 DEF Channel!Next
<1>2. CASE \E i \in Rows : Merge(i)
  <2>1. PICK i \in Rows : Merge(i)
    BY <1>2
  <2>2. i \in (1..written) \ Settled
    BY <2>1, RowNumbers DEF Merge, UnderWay, Settled, TypeOK
  <2>3. Channel!Deliver(i)
    BY <2>1, <2>2 DEF Merge, Channel!Deliver, Settled
  <2> QED
    BY <2>1, <2>3 DEF Channel!Next
<1>3. CASE \E i \in Rows : Acknowledged(i)
  <2>1. PICK i \in Rows : Acknowledged(i)
    BY <1>3
  <2>2. i \in merged /\ i \in 1..written
    BY <2>1, RowNumbers DEF Acknowledged, AnswerFollowsMerge, MergedWereWritten, TypeOK
  <2>3. Settled' = Settled \cup {i}
    BY <2>1, <2>2, RowNumbers DEF Acknowledged, Settled, TypeOK
  <2>4. Channel!Settle(i)
    BY <2>1, <2>2, <2>3 DEF Acknowledged, Channel!Settle
  <2> QED
    BY <2>1, <2>4 DEF Channel!Next
<1>4. CASE \E i \in Rows : Failed(i)
  <2>1. PICK i \in Rows : Failed(i)
    BY <1>4
  <2>2. Settled' = Settled
    BY <2>1, RowNumbers DEF Failed, UnderWay, Settled, TypeOK
  <2> QED
    BY <2>1, <2>2 DEF Failed, Channel!vars
<1>5. CASE Poll \/ FinalFlush \/ PollRaises \/ EndFlush \/ Stop \/ Restart
             \/ (\E i \in Rows : Send(i) \/ Due(i)) \/ UNCHANGED vars
  BY <1>5 DEF Poll, FinalFlush, StartFlush, PollRaises, EndFlush, Stop, Restart, Send,
              Due, vars, Settled, Channel!vars
<1> QED
  BY <1>1, <1>2, <1>3, <1>4, <1>5 DEF Next

\* The outbox implements at-least-once delivery: a row marked as synced was merged,
\* and is not merged again.
THEOREM DeliveryImplemented == Spec => ImplementsDelivery
  BY InitMaps, StepMaps, OutboxInvHolds, PTL DEF Spec, ImplementsDelivery, Channel!Spec
=============================================================================
