------------------------- MODULE ConnectionPoolProofs -------------------------
(***************************************************************************)
(* Proofs about the connection pool, for any number of threads and         *)
(* connections and any max_size.                                           *)
(***************************************************************************)
EXTENDS ConnectionPoolProps, FiniteSetTheorems, SequenceTheorems, TLAPS

-----------------------------------------------------------------------------
(* The threads that lease something are counted one by one. *)

LEMMA LeasingCounted ==
  IsFiniteSet(Leasing) /\ Cardinality(Leasing) \in Nat
<1>1. Leasing \in SUBSET Threads
  BY DEF Leasing
<1>2. QED
  BY <1>1, PoolAssumption, FS_Subset, FS_CardinalityType DEF PoolAssumption

LEMMA LeaseTaken ==
  ASSUME pc \in [Threads -> Places], NEW t \in Threads, NEW place \in {"opening", "using"},
         pc[t] \notin {"opening", "using"}, At(t, place)
  PROVE  Cardinality(Leasing') = Cardinality(Leasing) + 1
<1>1. Leasing' = Leasing \cup {t} /\ t \notin Leasing
  BY DEF Leasing, At
<1>2. QED
  BY <1>1, LeasingCounted, FS_AddElement

LEMMA LeaseReturned ==
  ASSUME pc \in [Threads -> Places], NEW t \in Threads,
         pc[t] \in {"opening", "using"}, At(t, "out")
  PROVE  Cardinality(Leasing') = Cardinality(Leasing) - 1
<1>1. Leasing' = Leasing \ {t} /\ t \in Leasing
  BY DEF Leasing, At
<1>2. QED
  BY <1>1, LeasingCounted, FS_RemoveElement

\* Any other move of a thread leaves the set alone.
LEMMA LeaseKept ==
  ASSUME pc \in [Threads -> Places], NEW t \in Threads, NEW place \in Places,
         pc[t] \in {"opening", "using"} <=> place \in {"opening", "using"}, At(t, place)
  PROVE  Leasing' = Leasing
BY DEF Leasing, At

LEMMA MovedThread ==
  ASSUME pc \in [Threads -> Places], NEW t \in Threads, NEW place \in Places, At(t, place)
  PROVE  pc' \in [Threads -> Places]
BY DEF At

-----------------------------------------------------------------------------
(* What happens to the idle connections and the sleepers. *)

LEMMA IdleCut ==
  ASSUME idle \in Seq(Connections), NEW k \in DOMAIN idle
  PROVE  /\ SubSeq(idle, 1, k - 1) \in Seq(Connections)
         /\ Len(SubSeq(idle, 1, k - 1)) <= Len(idle) - 1
         /\ idle[k] \in Connections
         /\ idle # <<>>
<1>1. k \in 1..Len(idle) /\ Len(idle) \in Nat
  OBVIOUS
<1>2. k - 1 \in 0..Len(idle)
  BY <1>1
<1>3. \A i \in 1..(k - 1) : idle[i] \in Connections
  BY <1>1
<1>4. SubSeq(idle, 1, k - 1) \in Seq(Connections) /\ Len(SubSeq(idle, 1, k - 1)) = k - 1
  BY <1>1, <1>2, <1>3
<1>5. QED
  BY <1>1, <1>4

LEMMA NotifiedTyped ==
  ASSUME NEW queue \in Seq(Threads)
  PROVE  Notified(queue) \in Seq(Threads)
BY DEF Notified

LEMMA LateRemoved ==
  ASSUME NEW queue \in Seq(Threads), NEW i \in DOMAIN queue
  PROVE  Without(queue, i) \in Seq(Threads)
<1>1. i \in 1..Len(queue) /\ Len(queue) \in Nat
  OBVIOUS
<1>2. \A j \in 1..Len(queue) : queue[j] \in Threads
  OBVIOUS
<1>3. SubSeq(queue, 1, i - 1) \in Seq(Threads)
  BY <1>1, <1>2, SubSeqProperties
<1>4. SubSeq(queue, i + 1, Len(queue)) \in Seq(Threads)
  BY <1>1, <1>2, SubSeqProperties
<1>5. QED
  BY <1>3, <1>4 DEF Without

-----------------------------------------------------------------------------
LEMMA PoolInit == Init => PoolInv
<1> SUFFICES ASSUME Init PROVE PoolInv
  OBVIOUS
<1>1. TypeOK
  <2>1. <<>> \in Seq(Connections) /\ <<>> \in Seq(Threads)
    OBVIOUS
  <2>2. pc \in [Threads -> Places] /\ held \in [Threads -> SUBSET Connections]
    BY DEF Init, Places
  <2>3. QED
    BY <2>1, <2>2 DEF Init, TypeOK
<1>2. Leasing = {}
  BY DEF Init, Leasing
<1>3. LeasesCounted
  BY <1>2, FS_EmptySet, PoolAssumption DEF Init, LeasesCounted, PoolAssumption
<1>4. QED
  BY <1>1, <1>3 DEF PoolInv, ClosedPoolIsEmpty, Init

LEMMA PoolStep == PoolInv /\ [Next]_vars => PoolInv'
<1> SUFFICES ASSUME PoolInv, [Next]_vars PROVE PoolInv'
  OBVIOUS
<1> USE PoolAssumption DEF PoolInv, TypeOK, LeasesCounted, ClosedPoolIsEmpty, Places,
        PoolAssumption
<1>1. ASSUME NEW t \in Threads, Enter(t) \/ TimeOut(t) \/ RefusedClosed(t)
      PROVE  PoolInv'
  <2>1. Leasing' = Leasing /\ pc' \in [Threads -> Places]
    BY <1>1, LeaseKept, MovedThread DEF Enter, TimeOut, RefusedClosed, AtLoop
  <2>2. QED
    BY <1>1, <2>1 DEF Enter, TimeOut, RefusedClosed
<1>2. ASSUME NEW t \in Threads, Reuse(t)
      PROVE  PoolInv'
  <2>1. /\ Cardinality(Leasing') = Cardinality(Leasing) + 1
        /\ pc' \in [Threads -> Places]
    BY <1>2, LeaseTaken, MovedThread DEF Reuse, AtLoop
  <2>2. PICK k \in DOMAIN idle : /\ held' = [held EXCEPT ![t] = {idle[k]}]
                                 /\ idle' = SubSeq(idle, 1, k - 1)
                                 /\ open' \subseteq open
    BY <1>2 DEF Reuse
  <2>3. /\ idle' \in Seq(Connections) /\ Len(idle') <= Len(idle) - 1
        /\ held' \in [Threads -> SUBSET Connections]
    BY <2>2, IdleCut
  <2>4. /\ leased' = leased + 1 /\ ~closed
        /\ UNCHANGED <<closed, sleepers, closing>>
    BY <1>2 DEF Reuse
  <2>5. Len(idle) \in Nat /\ Len(idle') \in Nat
    BY <2>3
  <2>6. LeasesCounted'
    BY <2>1, <2>3, <2>4, <2>5
  <2>7. QED
    BY <2>1, <2>2, <2>3, <2>4, <2>6
<1>3. ASSUME NEW t \in Threads, Reserve(t)
      PROVE  PoolInv'
  <2>1. /\ Cardinality(Leasing') = Cardinality(Leasing) + 1
        /\ pc' \in [Threads -> Places]
    BY <1>3, LeaseTaken, MovedThread DEF Reserve, AtLoop
  <2>2. QED
    BY <1>3, <2>1 DEF Reserve
<1>4. ASSUME NEW t \in Threads, Sleep(t) \/ GiveUpAwake(t)
      PROVE  PoolInv'
  <2>1. Leasing' = Leasing /\ pc' \in [Threads -> Places]
    BY <1>4, LeaseKept, MovedThread DEF Sleep, GiveUpAwake, AtLoop
  <2>2. sleepers' \in Seq(Threads)
    BY <1>4 DEF Sleep, GiveUpAwake
  <2>3. /\ idle' = <<>> /\ open' \subseteq open
        /\ UNCHANGED <<held, leased, closed, closing>>
    BY <1>4 DEF Sleep, GiveUpAwake
  <2>4. LeasesCounted'
    BY <2>1, <2>3
  <2>5. QED
    BY <2>1, <2>2, <2>3, <2>4
<1>5. ASSUME NEW t \in Threads, GiveUpLate(t)
      PROVE  PoolInv'
  <2>1. Leasing' = Leasing /\ pc' \in [Threads -> Places]
    BY <1>5, LeaseKept, MovedThread DEF GiveUpLate
  <2>2. sleepers' \in Seq(Threads)
    BY <1>5, LateRemoved DEF GiveUpLate
  <2>3. QED
    BY <1>5, <2>1, <2>2 DEF GiveUpLate
<1>6. ASSUME NEW t \in Threads, Opened(t)
      PROVE  PoolInv'
  <2>1. Leasing' = Leasing /\ pc' \in [Threads -> Places]
    BY <1>6, LeaseKept, MovedThread DEF Opened
  <2>2. QED
    BY <1>6, <2>1 DEF Opened
<1>7. ASSUME NEW t \in Threads, OpenFailed(t)
      PROVE  PoolInv'
  <2>1. /\ Cardinality(Leasing') = Cardinality(Leasing) - 1
        /\ pc' \in [Threads -> Places]
    BY <1>7, LeaseReturned, MovedThread DEF OpenFailed
  <2>2. sleepers' \in Seq(Threads)
    BY <1>7, NotifiedTyped DEF OpenFailed
  <2>3. leased \in Nat \ {0}
    <3>1. t \in Leasing
      BY <1>7 DEF OpenFailed, Leasing
    <3>2. QED
      BY <3>1, LeasingCounted, FS_EmptySet
  <2>4. QED
    BY <1>7, <2>1, <2>2, <2>3 DEF OpenFailed
<1>8. ASSUME NEW t \in Threads, NEW reusable \in BOOLEAN, Release(t, reusable)
      PROVE  PoolInv'
  <2>1. Cardinality(Leasing') = Cardinality(Leasing) - 1 /\ pc' \in [Threads -> Places]
    BY <1>8, LeaseReturned, MovedThread DEF Release
  <2>2. Cardinality(Leasing) \in Nat /\ leased \in Nat \ {0}
    <3>1. t \in Leasing
      BY <1>8 DEF Release, Leasing
    <3>2. QED
      BY <3>1, LeasingCounted, FS_EmptySet
  <2>3. sleepers' \in Seq(Threads)
    BY <1>8, NotifiedTyped DEF Release
  <2>4. /\ idle' \in Seq(Connections) /\ closing' \subseteq Connections
        /\ Len(idle') <= Len(idle) + 1
        /\ closed => idle' = idle
    <3>1. PICK c \in held[t] :
            IF Keeps(reusable) THEN idle' = Append(idle, c) /\ UNCHANGED closing
                               ELSE closing' = closing \cup {c} /\ UNCHANGED idle
      BY <1>8 DEF Release
    <3>2. c \in Connections
      OBVIOUS
    <3>3. CASE Keeps(reusable)
      <4>1. idle' = Append(idle, c) /\ UNCHANGED closing /\ ~closed
        BY <3>1, <3>3 DEF Keeps
      <4>2. Append(idle, c) \in Seq(Connections) /\ Len(Append(idle, c)) = Len(idle) + 1
        BY <3>2
      <4>3. QED
        BY <4>1, <4>2
    <3>4. CASE ~Keeps(reusable)
      BY <3>1, <3>2, <3>4
    <3>5. QED
      BY <3>3, <3>4
  <2>5. /\ held' \in [Threads -> SUBSET Connections]
        /\ leased' = leased - 1
        /\ UNCHANGED <<closed, open>>
    BY <1>8 DEF Release
  <2>6. Len(idle) \in Nat /\ Len(idle') \in Nat
    BY <2>4
  <2>7. LeasesCounted'
    BY <2>1, <2>2, <2>4, <2>5, <2>6
  <2>8. leased' \in Nat /\ ClosedPoolIsEmpty'
    BY <2>2, <2>4, <2>5
  <2>9. TypeOK'
    BY <2>1, <2>3, <2>4, <2>5, <2>8
  <2>10. QED
    BY <2>7, <2>8, <2>9
<1>9. ASSUME NEW c \in Connections, CloseQuietly(c)
      PROVE  PoolInv'
  BY <1>9 DEF CloseQuietly, Leasing
<1>10. CASE Close
  BY <1>10 DEF Close, Leasing, Idle
<1>11. CASE UNCHANGED vars
  BY <1>11 DEF vars, Leasing
<1>12. QED
  BY <1>1, <1>2, <1>3, <1>4, <1>5, <1>6, <1>7, <1>8, <1>9, <1>10, <1>11 DEF Next, Proceed

-----------------------------------------------------------------------------
(* Who has which connection. *)

\* Reusing the k-th idle connection takes it, and the later ones that are closed, out.
LEMMA IdleTaken ==
  ASSUME idle \in Seq(Connections), NoneTwice, NEW k \in DOMAIN idle,
         idle' = SubSeq(idle, 1, k - 1)
  PROVE  /\ Idle' = Idle \ ({idle[k]} \cup {idle[i] : i \in (k + 1)..Len(idle)})
         /\ idle[k] \in Idle
         /\ {idle[i] : i \in (k + 1)..Len(idle)} \subseteq Idle \ {idle[k]}
         /\ NoneTwice'
<1>1. k \in 1..Len(idle) /\ Len(idle) \in Nat /\ DOMAIN idle = 1..Len(idle)
  OBVIOUS
<1>2. Len(idle') = k - 1 /\ DOMAIN idle' = 1..(k - 1)
      /\ \A i \in 1..(k - 1) : idle'[i] = idle[i]
  BY <1>1, IdleCut
<1>3. \A i, j \in 1..Len(idle) : idle[i] = idle[j] => i = j
  BY <1>1 DEF NoneTwice
<1>4. NoneTwice'
  BY <1>1, <1>2, <1>3 DEF NoneTwice
<1>5. {idle[i] : i \in (k + 1)..Len(idle)} \subseteq Idle \ {idle[k]}
  BY <1>1, <1>3 DEF Idle
<1>6. Idle' = {idle[i] : i \in 1..(k - 1)}
  BY <1>2 DEF Idle
<1>7. Idle' = Idle \ ({idle[k]} \cup {idle[i] : i \in (k + 1)..Len(idle)})
  <2>1. ASSUME NEW i \in 1..(k - 1)
        PROVE  idle[i] \in Idle \ ({idle[k]} \cup {idle[j] : j \in (k + 1)..Len(idle)})
    BY <1>1, <1>3 DEF Idle
  <2>2. ASSUME NEW i \in 1..Len(idle), i # k, i \notin (k + 1)..Len(idle)
        PROVE  idle[i] \in Idle'
    BY <1>1, <1>6, <2>2
  <2>3. QED
    BY <1>1, <1>6, <2>1, <2>2 DEF Idle
<1>8. QED
  BY <1>1, <1>4, <1>5, <1>7 DEF Idle

LEMMA IdleReturned ==
  ASSUME idle \in Seq(Connections), NoneTwice, NEW c \in Connections \ Idle,
         idle' = Append(idle, c)
  PROVE  Idle' = Idle \cup {c} /\ NoneTwice'
<1>1. Len(idle) \in Nat /\ DOMAIN idle = 1..Len(idle)
      /\ DOMAIN idle' = 1..(Len(idle) + 1)
      /\ idle'[Len(idle) + 1] = c
      /\ \A i \in 1..Len(idle) : idle'[i] = idle[i]
  OBVIOUS
<1>2. Idle' = Idle \cup {c}
  BY <1>1 DEF Idle
<1>3. NoneTwice'
  BY <1>1 DEF NoneTwice, Idle
<1>4. QED
  BY <1>2, <1>3

LEMMA InLeases ==
  /\ \A c : c \in Leases <=> \E t \in Threads : c \in held[t]
  /\ \A c : c \in Leases' <=> \E t \in Threads : c \in held'[t]
BY DEF Leases

LEMMA IdleEmptied ==
  ASSUME idle' = <<>>
  PROVE  Idle' = {} /\ NoneTwice'
BY DEF Idle, NoneTwice

\* Whose a connection is stays clear through every step.
LEMMA OwnedStep == PoolInv /\ ConnectionsOwned /\ [Next]_vars => ConnectionsOwned'
<1> SUFFICES ASSUME PoolInv, ConnectionsOwned, [Next]_vars PROVE ConnectionsOwned'
  OBVIOUS
<1>0. /\ pc \in [Threads -> Places] /\ held \in [Threads -> SUBSET Connections]
      /\ idle \in Seq(Connections)
  BY DEF PoolInv, TypeOK
<1> USE <1>0 DEF ConnectionsOwned
\* A move of a thread that has nothing, before and after.
<1>1. ASSUME NEW t \in Threads, NEW place \in Places, At(t, place),
             pc[t] # "using", place # "using"
      PROVE  \A u \in Threads : pc'[u] = "using" <=> pc[u] = "using"
  BY <1>1 DEF At
<1>2. ASSUME UNCHANGED <<held, idle, open, closing>>,
             \A u \in Threads : pc'[u] = "using" <=> pc[u] = "using"
      PROVE  ConnectionsOwned'
  BY <1>2 DEF Idle, Leases, NoneTwice
\* Nothing is left in the pool: what was idle is closed.
<1>3. ASSUME UNCHANGED <<held, closing>>, idle' = <<>>, open' = open \ Idle,
             \A u \in Threads : pc'[u] = "using" <=> pc[u] = "using"
      PROVE  ConnectionsOwned'
  BY <1>3, IdleEmptied DEF Leases
<1>4. ASSUME NEW t \in Threads,
             Enter(t) \/ TimeOut(t) \/ RefusedClosed(t) \/ GiveUpLate(t) \/ OpenFailed(t)
      PROVE  ConnectionsOwned'
  <2>1. /\ UNCHANGED <<held, idle, open, closing>>
        /\ pc[t] # "using"
        /\ At(t, "entering") \/ At(t, "late") \/ At(t, "out")
    BY <1>4 DEF Enter, TimeOut, RefusedClosed, GiveUpLate, OpenFailed, AtLoop
  <2>2. QED
    BY <1>1, <1>2, <2>1 DEF Places
<1>5. ASSUME NEW t \in Threads, Reserve(t) \/ Sleep(t) \/ GiveUpAwake(t)
      PROVE  ConnectionsOwned'
  <2>1. /\ UNCHANGED <<held, closing>> /\ idle' = <<>> /\ open' = open \ Idle
        /\ pc[t] # "using"
        /\ At(t, "opening") \/ At(t, "sleeping") \/ At(t, "out")
    BY <1>5 DEF Reserve, Sleep, GiveUpAwake, AtLoop
  <2>2. QED
    BY <1>1, <1>3, <2>1 DEF Places
\* A thread gets a connection nobody else has.
<1>6. ASSUME NEW t \in Threads, NEW c, pc[t] # "using", At(t, "using"),
             held' = [held EXCEPT ![t] = {c}], closing' = closing,
             c \notin closing \cup Leases,
             c \notin Idle', Idle' \subseteq Idle, NoneTwice',
             open' = Idle' \cup closing \cup Leases \cup {c}
      PROVE  ConnectionsOwned'
  <2>1. held[t] = {}
    BY <1>6
  <2>2. /\ held'[t] = {c} /\ pc'[t] = "using"
        /\ \A u \in Threads \ {t} : held'[u] = held[u] /\ pc'[u] = pc[u]
    BY <1>6 DEF At
  <2>3. Leases' = Leases \cup {c}
    BY <2>1, <2>2, InLeases
  <2>4. \A u \in Threads : c \notin held[u] /\ c \notin closing
    BY <1>6, InLeases
  <2>5. \A u, v \in Threads : u # v => held'[u] \cap held'[v] = {}
    BY <2>2, <2>4
  <2>6. \A u \in Threads : held'[u] \cap (Idle' \cup closing') = {}
    BY <1>6, <2>2, <2>4
  <2>7. \A u \in Threads : /\ held'[u] # {} <=> pc'[u] = "using"
                           /\ \A x, y \in held'[u] : x = y
    BY <2>2
  <2>8. QED
    BY <1>6, <2>3, <2>5, <2>6, <2>7
<1>7. ASSUME NEW t \in Threads, Reuse(t)
      PROVE  ConnectionsOwned'
  <2>1. PICK k \in DOMAIN idle :
          /\ held' = [held EXCEPT ![t] = {idle[k]}]
          /\ idle' = SubSeq(idle, 1, k - 1)
          /\ open' = open \ {idle[i] : i \in (k + 1)..Len(idle)}
    BY <1>7 DEF Reuse
  <2>2. pc[t] # "using" /\ At(t, "using") /\ closing' = closing
    BY <1>7 DEF Reuse, AtLoop
  <2> DEFINE c == idle[k]
             stale == {idle[i] : i \in (k + 1)..Len(idle)}
  <2>3. /\ Idle' = Idle \ ({c} \cup stale) /\ c \in Idle /\ stale \subseteq Idle \ {c}
        /\ NoneTwice'
    BY <2>1, IdleTaken
  <2>4. open = Idle \cup closing \cup Leases /\ Idle \cap (closing \cup Leases) = {}
    BY InLeases
  <2> HIDE DEF c, stale
  <2>5. /\ open' = Idle' \cup closing \cup Leases \cup {c}
        /\ c \notin closing \cup Leases /\ c \notin Idle' /\ Idle' \subseteq Idle
    BY <2>1, <2>3, <2>4 DEF stale
  <2>6. /\ held' = [held EXCEPT ![t] = {c}]
        /\ c \notin closing \cup Leases
        /\ open' = Idle' \cup closing \cup Leases \cup {c}
    BY <2>1, <2>5 DEF c
  <2>7. QED
    BY <1>6, <2>2, <2>3, <2>5, <2>6
<1>8. ASSUME NEW t \in Threads, Opened(t)
      PROVE  ConnectionsOwned'
  <2>1. PICK c \in Connections \ open :
          held' = [held EXCEPT ![t] = {c}] /\ open' = open \cup {c}
    BY <1>8 DEF Opened
  <2>2. /\ pc[t] # "using" /\ At(t, "using") /\ closing' = closing
        /\ Idle' = Idle /\ NoneTwice'
    BY <1>8 DEF Opened, Idle, NoneTwice
  <2>3. /\ c \notin closing \cup Leases
        /\ c \notin Idle' /\ Idle' \subseteq Idle
        /\ open' = Idle' \cup closing \cup Leases \cup {c}
    BY <2>1, <2>2
  <2>4. QED
    BY <1>6, <2>1, <2>2, <2>3
\* A thread gives back the one connection it has, to the pool or to be closed.
<1>9. ASSUME NEW t \in Threads, NEW reusable \in BOOLEAN, Release(t, reusable)
      PROVE  ConnectionsOwned'
  <2>1. PICK c \in held[t] :
          IF Keeps(reusable) THEN idle' = Append(idle, c) /\ UNCHANGED closing
                             ELSE closing' = closing \cup {c} /\ UNCHANGED idle
    BY <1>9 DEF Release
  <2>2. /\ held' = [held EXCEPT ![t] = {}] /\ At(t, "out") /\ open' = open
    BY <1>9 DEF Release
  <2>3. held[t] = {c} /\ c \in Connections
    OBVIOUS
  <2>4. c \notin Idle \cup closing /\ \A u \in Threads \ {t} : c \notin held[u]
    BY <2>3
  <2>5. /\ held'[t] = {} /\ pc'[t] = "out"
        /\ \A u \in Threads \ {t} : held'[u] = held[u] /\ pc'[u] = pc[u]
    BY <2>2 DEF At
  <2>6. Leases = Leases' \cup {c}
    BY <2>3, <2>5, InLeases
  <2>7. /\ NoneTwice'
        /\ \/ Idle' = Idle \cup {c} /\ closing' = closing
           \/ Idle' = Idle /\ closing' = closing \cup {c}
    <3>1. CASE Keeps(reusable)
      BY <2>1, <2>3, <2>4, <3>1, IdleReturned
    <3>2. CASE ~Keeps(reusable)
      BY <2>1, <3>2 DEF Idle, NoneTwice
    <3>3. QED
      BY <3>1, <3>2
  <2>8. /\ open' = Idle' \cup closing' \cup Leases'
        /\ Idle' \cap closing' = {}
    BY <2>2, <2>4, <2>6, <2>7
  <2>9. \A u \in Threads : held'[u] \cap (Idle' \cup closing') = {}
    BY <2>4, <2>5, <2>7
  <2>10. \A u, v \in Threads : u # v => held'[u] \cap held'[v] = {}
    BY <2>5
  <2>11. \A u \in Threads : /\ held'[u] # {} <=> pc'[u] = "using"
                            /\ \A x, y \in held'[u] : x = y
    BY <2>5
  <2>12. QED
    BY <2>7, <2>8, <2>9, <2>10, <2>11
<1>10. ASSUME NEW c \in Connections, CloseQuietly(c)
       PROVE  ConnectionsOwned'
  <2>1. /\ c \in closing /\ closing' = closing \ {c} /\ open' = open \ {c}
        /\ UNCHANGED <<pc, held, idle>> /\ Idle' = Idle /\ NoneTwice'
    BY <1>10 DEF CloseQuietly, Idle, NoneTwice
  <2>2. c \notin Idle /\ \A u \in Threads : c \notin held[u]
    BY <2>1
  <2>3. QED
    BY <2>1, <2>2, InLeases DEF Leases
<1>11. CASE Close
  <2>1. /\ closing' = closing \cup Idle /\ Idle' = {} /\ NoneTwice'
        /\ UNCHANGED <<pc, held, open>>
    BY <1>11, IdleEmptied DEF Close
  <2>2. QED
    BY <2>1, InLeases DEF Leases
<1>12. CASE UNCHANGED vars
  BY <1>2, <1>12 DEF vars
<1>13. QED
  BY <1>4, <1>5, <1>7, <1>8, <1>9, <1>10, <1>11, <1>12 DEF Next, Proceed

THEOREM PoolInvHolds == Spec => []PoolInv
BY PoolInit, PoolStep, PTL DEF Spec

\* Whatever fails and whoever closes the pool, its count of leases is the number of
\* threads that lease, and it never has more than max_size connections.
THEOREM PoolBounded == Spec => []LeasesCounted
<1>1. PoolInv => LeasesCounted
  BY DEF PoolInv
<1>2. QED
  BY <1>1, PoolInvHolds, PTL

\* No release puts a connection into a pool that was closed.
THEOREM PoolStaysEmpty == Spec => []ClosedPoolIsEmpty
<1>1. PoolInv => ClosedPoolIsEmpty
  BY DEF PoolInv
<1>2. QED
  BY <1>1, PoolInvHolds, PTL

\* Every connection that is logged in is idle in the pool once, leased by one thread, or
\* about to be closed.
THEOREM ConnectionsAreOwned == Spec => []ConnectionsOwned
<1>1. Init => ConnectionsOwned
  BY DEF Init, ConnectionsOwned, Leases, NoneTwice, Idle
<1>2. QED
  BY <1>1, OwnedStep, PoolInvHolds, PTL DEF Spec
=============================================================================
