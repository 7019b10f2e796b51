------------------------- MODULE ConnectionPoolProps -------------------------
(* What must hold of the connection pool. *)
EXTENDS ConnectionPool

Leasing == {t \in Threads : pc[t] \in {"opening", "using"}}

\* The count of leases is right through failed logins, discards and closing, and
\* with the idle connections it never exceeds max_size.
LeasesCounted ==
  /\ leased = Cardinality(Leasing)
  /\ Len(idle) + leased <= MaxSize

\* A connection is in one place: idle in the pool once, leased by one thread, or
\* about to be closed; no other one is logged in.
Leases == UNION {held[t] : t \in Threads}
NoneTwice == \A i, j \in DOMAIN idle : idle[i] = idle[j] => i = j
ConnectionsOwned ==
  /\ open = Idle \cup closing \cup Leases
  /\ NoneTwice
  /\ Idle \cap closing = {}
  /\ \A t \in Threads : held[t] \cap (Idle \cup closing) = {}
  /\ \A t, u \in Threads : t # u => held[t] \cap held[u] = {}
  /\ \A t \in Threads : /\ held[t] # {} <=> pc[t] = "using"
                       /\ \A c, d \in held[t] : c = d

\* Closing races releases and logins under way: none of them puts a connection
\* into the pool afterwards.
ClosedPoolIsEmpty == closed => idle = <<>>

\* The inductive invariant behind them.
PoolInv == TypeOK /\ LeasesCounted /\ ClosedPoolIsEmpty

\* Threads that return what they lease, logins and closes that come to an end,
\* and a lock everybody gets in the end.  No timeout is needed.
FairSpec ==
  /\ Spec
  /\ \A t \in Threads : WF_vars(Proceed(t)) /\ WF_vars(\E r \in BOOLEAN : Release(t, r))
  /\ \A c \in Connections : WF_vars(CloseQuietly(c))

\* A closed pool ends with no connection logged in: what was leased or being
\* opened when it was closed is closed too.
ClosedPoolLogsOut == closed ~> open = {}

\* Violated.  A connection that becomes available goes to a caller that waits for
\* one: nobody sleeps beside an available connection while no other thread is in
\* acquire or has a connection to return.
NoLostWakeup ==
  idle # <<>> /\ sleepers # <<>> =>
    \E t \in Threads : AtLoop(t) \/ pc[t] \in {"opening", "using"}
=============================================================================
