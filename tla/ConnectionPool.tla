--------------------------- MODULE ConnectionPool ---------------------------
(***************************************************************************)
(* The bounded pool of Snowflake connections, integrations/snowflake/      *)
(* client.py SnowflakeConnectionPool, as _execute_sync uses it from the    *)
(* threads of asyncio.to_thread.                                           *)
(*                                                                         *)
(* A block under `with self._condition` is one step; logging in and        *)
(* closing a connection happen outside it.  threading.Condition keeps its  *)
(* sleepers in a queue: notify removes the first, and a sleeper whose wait *)
(* timed out stays in the queue until it has the lock again, so that it    *)
(* can still be the one that notify removes.                               *)
(***************************************************************************)
EXTENDS Naturals, Sequences, FiniteSets

CONSTANTS
  Threads,      \* callers of _execute_sync
  Connections,  \* connections the factory can return
  MaxSize       \* max_size

ASSUME PoolAssumption ==
  /\ IsFiniteSet(Threads)
  /\ MaxSize \in Nat \ {0}

VARIABLES
  pc,        \* where each thread is in acquire / release
  held,      \* the connections a thread leases: one at most
  idle,      \* _idle, the last one is taken first
  leased,    \* _leased
  closed,    \* _closed
  sleepers,  \* the queue of the condition
  open,      \* connections that are logged in
  closing    \* connections about to be closed outside the lock

vars == <<pc, held, idle, leased, closed, sleepers, open, closing>>

Places == {"out", "entering", "sleeping", "late", "opening", "using"}
Asleep == {sleepers[i] : i \in DOMAIN sleepers}
Idle == {idle[i] : i \in DOMAIN idle}

TypeOK ==
  /\ pc \in [Threads -> Places]
  /\ held \in [Threads -> SUBSET Connections]
  /\ idle \in Seq(Connections)
  /\ leased \in Nat
  /\ closed \in BOOLEAN
  /\ sleepers \in Seq(Threads)
  /\ open \subseteq Connections
  /\ closing \subseteq Connections

Init ==
  /\ pc = [t \in Threads |-> "out"]
  /\ held = [t \in Threads |-> {}]
  /\ idle = <<>>
  /\ leased = 0
  /\ closed = FALSE
  /\ sleepers = <<>>
  /\ open = {}
  /\ closing = {}

At(t, place) == pc' = [pc EXCEPT ![t] = place]

\* notify(): the first of the queue is let go.
Notified(queue) == IF queue = <<>> THEN <<>> ELSE Tail(queue)

-----------------------------------------------------------------------------
(* acquire *)

Enter(t) ==
  /\ pc[t] = "out"
  /\ At(t, "entering")
  /\ UNCHANGED <<held, idle, leased, closed, sleepers, open, closing>>

\* At the top of the loop, with the lock: on entering, or woken by notify.
AtLoop(t) ==
  \/ pc[t] = "entering"
  \/ pc[t] = "sleeping" /\ t \notin Asleep

RefusedClosed(t) ==
  /\ AtLoop(t) /\ closed
  /\ At(t, "out")
  /\ UNCHANGED <<held, idle, leased, closed, sleepers, open, closing>>

\* Connections idle for too long, or closed by the server, are popped and
\* closed; the first other one is leased.
Reuse(t) ==
  /\ AtLoop(t) /\ ~closed
  /\ \E k \in DOMAIN idle :
       /\ held' = [held EXCEPT ![t] = {idle[k]}]
       /\ idle' = SubSeq(idle, 1, k - 1)
       /\ open' = open \ {idle[i] : i \in (k + 1)..Len(idle)}
  /\ leased' = leased + 1
  /\ At(t, "using")
  /\ UNCHANGED <<closed, sleepers, closing>>

\* None is left, but there is room for one more.
Reserve(t) ==
  /\ AtLoop(t) /\ ~closed
  /\ leased < MaxSize
  /\ idle' = <<>>
  /\ open' = open \ Idle
  /\ leased' = leased + 1
  /\ At(t, "opening")
  /\ UNCHANGED <<held, closed, sleepers, closing>>

Sleep(t) ==
  /\ AtLoop(t) /\ ~closed
  /\ leased >= MaxSize
  /\ idle' = <<>>
  /\ open' = open \ Idle
  /\ sleepers' = Append(sleepers, t)
  /\ At(t, "sleeping")
  /\ UNCHANGED <<held, leased, closed, closing>>

\* A thread that was woken finds nothing and its deadline passed.
GiveUpAwake(t) ==
  /\ AtLoop(t) /\ pc[t] = "sleeping" /\ ~closed
  /\ leased >= MaxSize
  /\ idle' = <<>>
  /\ open' = open \ Idle
  /\ At(t, "out")
  /\ UNCHANGED <<held, leased, closed, sleepers, closing>>

\* wait(remaining) has timed out; the thread still has to get the lock back.
TimeOut(t) ==
  /\ pc[t] = "sleeping" /\ t \in Asleep
  /\ At(t, "late")
  /\ UNCHANGED <<held, idle, leased, closed, sleepers, open, closing>>

\* The queue without its i-th sleeper.
Without(queue, i) == SubSeq(queue, 1, i - 1) \o SubSeq(queue, i + 1, Len(queue))

\* wait returns False, and acquire raises without another look at the pool.
GiveUpLate(t) ==
  /\ pc[t] = "late"
  /\ \/ t \notin Asleep /\ UNCHANGED sleepers
     \/ \E i \in DOMAIN sleepers :
          sleepers[i] = t /\ sleepers' = Without(sleepers, i)
  /\ At(t, "out")
  /\ UNCHANGED <<held, idle, leased, closed, open, closing>>

Opened(t) ==
  /\ pc[t] = "opening"
  /\ \E c \in Connections \ open :
       /\ held' = [held EXCEPT ![t] = {c}]
       /\ open' = open \cup {c}
  /\ At(t, "using")
  /\ UNCHANGED <<idle, leased, closed, sleepers, closing>>

\* Mutant of OpenFailed: the reserved slot is not given back.
OpenFailedKeepsSlot(t) ==
  /\ pc[t] = "opening"
  /\ At(t, "out")
  /\ UNCHANGED <<held, idle, leased, closed, sleepers, open, closing>>

\* The factory raises: the slot is given back.
OpenFailed(t) ==
  /\ pc[t] = "opening"
  /\ leased' = leased - 1
  /\ sleepers' = Notified(sleepers)
  /\ At(t, "out")
  /\ UNCHANGED <<held, idle, closed, open, closing>>

-----------------------------------------------------------------------------
(* release and close *)

\* Mutant of Keeps: release does not look whether the pool was closed.
KeepsWhenClosed(reusable) == reusable

\* Whether a connection released goes back into the pool.
Keeps(reusable) == reusable /\ ~closed

\* Mutant of Release: a connection that went into the pool is closed as well.
ReleaseClosesAll(t, reusable) ==
  /\ pc[t] = "using"
  /\ \E c \in held[t] :
       /\ idle' = IF Keeps(reusable) THEN Append(idle, c) ELSE idle
       /\ closing' = closing \cup {c}
  /\ held' = [held EXCEPT ![t] = {}]
  /\ leased' = leased - 1
  /\ sleepers' = Notified(sleepers)
  /\ At(t, "out")
  /\ UNCHANGED <<closed, open>>

\* `reusable` stands for: the statement left the session usable, and the server
\* has not closed it.
Release(t, reusable) ==
  /\ pc[t] = "using"
  /\ \E c \in held[t] :
       IF Keeps(reusable)
       THEN idle' = Append(idle, c) /\ UNCHANGED closing
       ELSE closing' = closing \cup {c} /\ UNCHANGED idle
  /\ held' = [held EXCEPT ![t] = {}]
  /\ leased' = leased - 1
  /\ sleepers' = Notified(sleepers)
  /\ At(t, "out")
  /\ UNCHANGED <<closed, open>>

\* _close_quietly, outside the lock.
CloseQuietly(c) ==
  /\ c \in closing
  /\ closing' = closing \ {c}
  /\ open' = open \ {c}
  /\ UNCHANGED <<pc, held, idle, leased, closed, sleepers>>

Close ==
  /\ ~closed
  /\ closed' = TRUE
  /\ closing' = closing \cup Idle
  /\ idle' = <<>>
  /\ sleepers' = <<>>
  /\ UNCHANGED <<pc, held, leased, open>>

-----------------------------------------------------------------------------
\* What a thread in acquire does on its own.
Proceed(t) ==
  \/ RefusedClosed(t)
  \/ Reuse(t)
  \/ Reserve(t)
  \/ Sleep(t)
  \/ GiveUpAwake(t)
  \/ GiveUpLate(t)
  \/ Opened(t)
  \/ OpenFailed(t)

Next ==
  \/ \E t \in Threads :
       \/ Enter(t)
       \/ Proceed(t)
       \/ TimeOut(t)
       \/ \E reusable \in BOOLEAN : Release(t, reusable)
  \/ \E c \in Connections : CloseQuietly(c)
  \/ Close

Spec == Init /\ [][Next]_vars
=============================================================================
