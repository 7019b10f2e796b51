-------------------------------- MODULE Profile --------------------------------
(***************************************************************************)
(* The reviewed preferences of one participant in EverOS.  Every           *)
(* participant session that is opened writes them (create_participant_     *)
(* session of api/routes.py), waits a little for the write and then leaves *)
(* it in the background; the write itself is update_profile of             *)
(* integrations/everos/client.py, several calls long, so writes of two     *)
(* tabs interleave.                                                        *)
(***************************************************************************)
EXTENDS EverOSErrors, Naturals, FiniteSets

CONSTANTS
  Setups,      \* the requests that open a participant session
  Wanted,      \* Wanted[u][f]: the value of field f in request u, or Cleared
  Earlier,     \* requests that wrote before, both at once
  Cleared,     \* a caregiver_mobile that was left empty
  MaxOperations, \* how many operations EverOS takes in one edit (50)
  Attempts,    \* how many delays _MEMORY_RETRIEVAL_DELAYS_SECONDS lists (5)
  Outages,     \* the faults an EverOS call may meet
  MaxOutages,  \* EverOS calls that fail (a bound)
  MaxRestarts  \* restarts of the backend (a bound)

ASSUME ProfileAssumption ==
  /\ Setups \cap Earlier = {}
  /\ \A u \in Earlier : DOMAIN Wanted[u] = UNION {DOMAIN Wanted[v] : v \in Setups}
  /\ MaxOperations \in Nat /\ Attempts \in Nat \ {0} /\ Outages \subseteq Faults
  /\ MaxOutages \in Nat /\ MaxRestarts \in Nat

VARIABLES
  profile,  \* EverOS: whether there is one, and its items
  setup,    \* EverOS: the setup conversation was flushed
  write,    \* update_profile of each request
  session,  \* profile_sync of the participant session each request opens
  outages, restarts

profileVars == <<profile, setup, write, session, outages, restarts>>

Fields(u) == DOMAIN Wanted[u]
AllFields == UNION {Fields(u) : u \in Setups}
NoWrite == [at |-> "none", try |-> 0, seen |-> {}, status |-> "none", counted |-> FALSE]

\* An item is known by its field and by the request that added it.
Item(u, f) == [by |-> u, field |-> f, value |-> Wanted[u][f]]

\* A new participant, or one of whom two tabs wrote the first preferences at the same time.
Init ==
  /\ profile \in {[exists |-> FALSE, items |-> {}],
                  [exists |-> TRUE, items |-> {Item(u, f) : u \in Earlier, f \in AllFields}]}
  /\ setup = FALSE
  /\ write = [u \in Setups |-> NoWrite]
  /\ session = [u \in Setups |-> "none"]
  /\ outages = 0 /\ restarts = 0

Fails(f) == outages < MaxOutages /\ f \in Outages /\ outages' = outages + 1
At(u, stage) == write[u].at = stage
Moves(u, stage) == write' = [write EXCEPT ![u].at = stage]

\* The extraction that the first flush starts makes a profile, when it makes one.
Indexed ==
  /\ setup /\ ~profile.exists
  /\ profile' = [profile EXCEPT !.exists = TRUE]
  /\ UNCHANGED <<setup, write, session, outages, restarts>>

-----------------------------------------------------------------------------
(* create_participant_session *)

\* The session is there before the write starts.
Opens(u) ==
  /\ session[u] = "none"
  /\ session' = [session EXCEPT ![u] = "waiting"]
  /\ Moves(u, "get")
  /\ UNCHANGED <<profile, setup, outages, restarts>>

\* wait_for gives up after PROFILE_SYNC_BUDGET_SECONDS; shield keeps the write going.
Pending(u) ==
  /\ session[u] = "waiting" /\ write[u].at \notin {"done", "failed"}
  /\ session' = [session EXCEPT ![u] = "pending"]
  /\ UNCHANGED <<profile, setup, write, outages, restarts>>

\* The answer says synced when the write returned, whatever it returned.
Answers(u) ==
  /\ session[u] = "waiting" /\ write[u].at \in {"done", "failed"}
  /\ session' = [session EXCEPT ![u] = IF write[u].at = "done" THEN "synced" ELSE "unavailable"]
  /\ UNCHANGED <<profile, setup, write, outages, restarts>>

-----------------------------------------------------------------------------
(* update_profile *)

InField(items, f) == {i \in items : i.field = f}

\* _profile_edit_operations: one for each item there is of a field, and one that adds the item
\* of a field that has none and is not to be cleared.
Operations(u, items) ==
  {i \in items : i.field \in Fields(u)}
    \cup {Item(u, f) : f \in {g \in Fields(u) : Wanted[u][g] # Cleared /\ InField(items, g) = {}}}

NothingToDo(u, items) == Operations(u, items) = {}

Reads(u) ==
  /\ At(u, "get")
  /\ IF ~profile.exists THEN Moves(u, "add")
     ELSE write' = [write EXCEPT ![u].seen = profile.items,
                                 ![u].at = IF NothingToDo(u, profile.items) THEN "done" ELSE "edit"]
  /\ UNCHANGED <<profile, setup, session, outages, restarts>>

\* A participant EverOS does not know has no profile yet; every other failure is one.
ReadFails(u, f) ==
  /\ At(u, "get") /\ Fails(f)
  /\ Moves(u, IF MapError(f).missing THEN "add" ELSE "failed")
  /\ UNCHANGED <<profile, setup, session, restarts>>

\* _bootstrap_profile: the setup is told to EverOS as a conversation.
Tells(u) ==
  /\ At(u, "add")
  /\ Moves(u, "flush")
  /\ UNCHANGED <<profile, setup, session, outages, restarts>>

FlushesSetup(u) ==
  /\ At(u, "flush")
  /\ setup' = TRUE
  /\ write' = [write EXCEPT ![u].at = "poll", ![u].try = 1]
  /\ UNCHANGED <<profile, session, outages, restarts>>

TellFails(u, f) ==
  /\ write[u].at \in {"add", "flush"} /\ Fails(f)
  /\ Moves(u, "failed")
  /\ setup' \in (IF At(u, "flush") THEN {setup, TRUE} ELSE {setup})
  /\ UNCHANGED <<profile, session, restarts>>

\* After the last read the profile is still indexing: an error.
PollsAgain(u) ==
  write' = IF write[u].try < Attempts THEN [write EXCEPT ![u].try = @ + 1]
           ELSE [write EXCEPT ![u].at = "failed"]

Polls(u) ==
  /\ At(u, "poll")
  /\ IF profile.exists
     THEN write' = [write EXCEPT ![u].seen = profile.items,
                                 ![u].at = IF NothingToDo(u, profile.items) THEN "done" ELSE "edit"]
     ELSE PollsAgain(u)
  /\ UNCHANGED <<profile, setup, session, outages, restarts>>

PollFails(u, f) ==
  /\ At(u, "poll") /\ Fails(f)
  /\ IF MapError(f).missing \/ MapError(f).retryable THEN PollsAgain(u) ELSE Moves(u, "failed")
  /\ UNCHANGED <<profile, setup, session, restarts>>

-----------------------------------------------------------------------------
(* edit_profile *)

\* More operations than EverOS takes are refused before it is called.
TooMany(u) == Cardinality(Operations(u, write[u].seen)) > MaxOperations

EditRefused(u) ==
  /\ At(u, "edit") /\ TooMany(u)
  /\ Moves(u, "failed")
  /\ UNCHANGED <<profile, setup, session, outages, restarts>>

\* Mutant of FieldEdit: the duplicates of a field stay.
FieldEditKeepsDuplicates(u, f, first) ==
  LET current == {i.by : i \in InField(write[u].seen, f)}
      now == InField(profile.items, f)
  IN IF Wanted[u][f] = Cleared THEN {i \in now : i.by \notin current}
     ELSE IF current = {} THEN now \cup {Item(u, f)}
     ELSE {IF i.by = first THEN [i EXCEPT !.value = Wanted[u][f]] ELSE i : i \in now}

\* The operations on one field, as EverOS carries them out: the items that were read go, but
\* the first of them gets the value; one that is gone since is passed over.
FieldEdit(u, f, first) ==
  LET current == {i.by : i \in InField(write[u].seen, f)}
      now == InField(profile.items, f)
      kept == {i \in now : i.by \notin current}
  IN IF Wanted[u][f] = Cleared THEN kept
     ELSE IF current = {} THEN now \cup {Item(u, f)}
     ELSE kept \cup {[i EXCEPT !.value = Wanted[u][f]] : i \in {j \in now : j.by = first}}

\* EverOS carries out what was asked for the fields of done.  It lists items in any order, so
\* any of a field may be the first.
Carries(u, done) ==
  \E first \in [done -> Setups \cup Earlier] :
    /\ \A f \in done : LET read == {i.by : i \in InField(write[u].seen, f)}
                       IN first[f] \in read \/ (read = {} /\ first[f] = u)
    /\ profile' = [profile EXCEPT !.items =
         {i \in @ : i.field \notin done} \cup UNION {FieldEdit(u, f, first[f]) : f \in done}]

\* Every operation finds the item it was made for.
Whole(u) == \A i \in write[u].seen : \E j \in profile.items : j.by = i.by /\ j.field = i.field

\* The receipt may say how many operations were applied; one that does not counts as all of
\* them.  Nobody reads what update_profile makes of it.
Edits(u) ==
  /\ At(u, "edit") /\ ~TooMany(u)
  /\ \E done \in SUBSET Fields(u), counted \in BOOLEAN :
       /\ Carries(u, done)
       /\ write' = [write EXCEPT ![u] = [NoWrite EXCEPT
            !.at = "done", !.counted = counted,
            !.status = IF ~counted \/ (done = Fields(u) /\ Whole(u)) THEN "updated"
                       ELSE IF done = {} THEN "unchanged" ELSE "partial"]]
  /\ UNCHANGED <<setup, session, outages, restarts>>

\* Whether the edit was carried out before the call failed, nobody knows.
EditFails(u, f) ==
  /\ At(u, "edit") /\ ~TooMany(u) /\ Fails(f)
  /\ Moves(u, "failed")
  /\ UNCHANGED profile \/ (Retryable(f) /\ Carries(u, Fields(u)))
  /\ UNCHANGED <<setup, session, restarts>>

Restart ==
  /\ restarts < MaxRestarts /\ restarts' = restarts + 1
  /\ write' = [u \in Setups |-> IF write[u].at \in {"none", "done"} THEN write[u]
                                ELSE [NoWrite EXCEPT !.at = "failed"]]
  /\ session' = [u \in Setups |-> IF session[u] = "waiting" THEN "lost" ELSE session[u]]
  /\ UNCHANGED <<profile, setup, outages>>

Next ==
  \/ Indexed \/ Restart
  \/ \E u \in Setups : \/ Opens(u) \/ Pending(u) \/ Answers(u) \/ Reads(u) \/ Tells(u)
                       \/ FlushesSetup(u) \/ Polls(u) \/ Edits(u) \/ EditRefused(u)
                       \/ \E f \in Outages : \/ ReadFails(u, f) \/ TellFails(u, f)
                                             \/ PollFails(u, f) \/ EditFails(u, f)

Spec == Init /\ [][Next]_profileVars
=============================================================================
