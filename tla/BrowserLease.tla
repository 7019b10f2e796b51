---------------------------- MODULE BrowserLease ----------------------------
(***************************************************************************)
(* Who holds a managed browser: browser/controller.py starts and stops     *)
(* them, services/browser_reconciliation.py releases those nobody holds.   *)
(*                                                                         *)
(* Three parties share the provider's sessions and the rows of             *)
(* browser_sessions: the controller, whose lock makes its starts and stops *)
(* one at a time; the sweep a backend makes before it serves; and the      *)
(* worker, a process of its own (scripts/reconcile-browserbase.py).        *)
(*                                                                         *)
(* Ages are told apart as the policy does: young (startup_grace_seconds),  *)
(* grown, past the provider's expiry, and past lease_ttl + lease_grace,    *)
(* which is later (policy_from_settings).                                  *)
(***************************************************************************)
EXTENDS Naturals, FiniteSets

CONSTANTS
  Webs,            \* WebAccessible sessions
  MaxBrowsers,     \* provider sessions ever created (a bound)
  MaxTerminations, \* max_terminations
  None

ASSUME LeaseAssumption ==
  /\ MaxBrowsers \in Nat /\ MaxTerminations \in Nat
  /\ None \notin Webs \cup Nat

Browsers == 1..MaxBrowsers  \* in the order the provider created them
Sweepers == {"boot", "worker"}
Young == 0
Grown == 1
Expired == 2
Overdue == 3

VARIABLES
  born,     \* provider sessions created so far
  owner,    \* the web session in their metadata
  status,   \* what the provider says of them
  age,
  row,      \* browser_sessions
  proc,     \* the backend: down, sweeping (dependencies.start), up
  runtime,  \* BrowserController._runtimes
  op,       \* the start or stop that holds BrowserController._lock
  sweep,    \* the passes of the reconciliation service
  slow,     \* history: browsers that outgrew the grace while being started
  unwritten,\* history: browsers the controller last failed to write about
  survivors \* history: how many browsers were born when the backend last died

provider == <<born, owner, status, age>>
backend == <<proc, runtime, op>>
history == <<slow, unwritten, survivors>>
vars == <<provider, row, backend, sweep, history>>

Row == [pid : Browsers, status : {"connected", "stopped", "termination_failed"},
        since : Browsers]  \* since: the browser attached_at (or created_at) is of
Operation == [do : {"start", "stop"}, web : Webs, pid : Browsers,
              at : {"attaching", "saved", "undoing", "terminating"}]

ASSUME NoneIsNeither == None \notin Row /\ None \notin Operation

NoSweep == [at |-> "idle", found |-> {}, orphans |-> {}, budget |-> 0, target |-> None]

TypeOK ==
  /\ born \in 0..MaxBrowsers
  /\ owner \in [Browsers -> Webs \cup {None}]
  /\ status \in [Browsers -> {"none", "running", "ended"}]
  /\ age \in [Browsers -> Young..Overdue]
  /\ row \in [Webs -> Row \cup {None}]
  /\ proc \in {"down", "sweeping", "up"}
  /\ runtime \in [Webs -> Browsers \cup {None}]
  /\ op \in Operation \cup {None}
  /\ sweep \in [Sweepers -> [at : {"idle", "listing", "judging", "confirming", "releasing",
                                   "recording"},
                             found : SUBSET Browsers, orphans : SUBSET Browsers,
                             budget : 0..MaxTerminations, target : Browsers \cup {None}]]
  /\ slow \subseteq Browsers /\ unwritten \subseteq Browsers
  /\ survivors \in 0..MaxBrowsers

Init ==
  /\ born = 0
  /\ owner = [p \in Browsers |-> None]
  /\ status = [p \in Browsers |-> "none"]
  /\ age = [p \in Browsers |-> Young]
  /\ row = [w \in Webs |-> None]
  /\ proc = "down" /\ runtime = [w \in Webs |-> None] /\ op = None
  /\ sweep = [k \in Sweepers |-> NoSweep]
  /\ slow = {} /\ unwritten = {} /\ survivors = 0

-----------------------------------------------------------------------------
(* The controller *)

Start(w) ==
  /\ proc = "up" /\ op = None
  /\ runtime[w] = None  \* an existing runtime is returned as it is
  /\ born < MaxBrowsers
  /\ born' = born + 1
  /\ owner' = [owner EXCEPT ![born'] = w]
  /\ status' = [status EXCEPT ![born'] = "running"]
  /\ \/ op' = [do |-> "start", web |-> w, pid |-> born', at |-> "attaching"]
     \/ UNCHANGED op  \* the answer is lost, or connect_data raises
  /\ UNCHANGED <<age, row, proc, runtime, sweep, history>>

\* The page is up: the runtime was entered on the way, now the row is written.
StartSaves ==
  /\ op # None /\ op.at = "attaching"
  /\ runtime' = [runtime EXCEPT ![op.web] = op.pid]
  /\ row' = [row EXCEPT ![op.web] = [pid |-> op.pid, status |-> "connected",
                                     since |-> IF @ = None THEN op.pid ELSE @.since]]
  /\ op' = [op EXCEPT !.at = "saved"]
  /\ UNCHANGED <<provider, proc, sweep, history>>

StartReturns ==
  /\ op # None /\ op.at = "saved"
  /\ row' = [row EXCEPT ![op.web].status = "connected", ![op.web].since = op.pid]
  /\ op' = None
  /\ UNCHANGED <<provider, proc, runtime, sweep, history>>

\* Either write raises, outside the try: the runtime stays entered.
StartUnwritten ==
  /\ op # None /\ op.at \in {"attaching", "saved"}
  /\ runtime' = [runtime EXCEPT ![op.web] = op.pid]
  /\ unwritten' = unwritten \cup {op.pid}
  /\ op' = None
  /\ UNCHANGED <<provider, row, proc, sweep, slow, survivors>>

\* Anything before them raises: the runtime is forgotten.
StartFails ==
  /\ op # None /\ op.at = "attaching"
  /\ op' = [op EXCEPT !.at = "undoing"]
  /\ UNCHANGED <<provider, row, proc, runtime, sweep, history>>

\* The provider confirms the release, or does not.
Release(p) ==
  \/ status' = [status EXCEPT ![p] = "ended"]
  \/ UNCHANGED status

StartUndone ==
  /\ op # None /\ op.at = "undoing"
  /\ Release(op.pid)
  /\ op' = None
  /\ UNCHANGED <<born, owner, age, row, proc, runtime, sweep, history>>

Stop(w) ==
  /\ proc = "up" /\ op = None
  /\ \E p \in Browsers :
       /\ \/ p = runtime[w]
          \/ runtime[w] = None /\ row[w] # None /\ row[w].status # "stopped" /\ p = row[w].pid
       /\ op' = [do |-> "stop", web |-> w, pid |-> p, at |-> "terminating"]
  /\ runtime' = [runtime EXCEPT ![w] = None]
  /\ UNCHANGED <<provider, row, proc, sweep, history>>

\* update_browser_session finds the row by its web session, whatever browser it is about.
Marked(to) ==
  /\ row' = IF row[op.web] = None THEN row ELSE [row EXCEPT ![op.web].status = to]
  /\ unwritten' = IF row[op.web] # None /\ row[op.web].pid = op.pid
                  THEN unwritten \ {op.pid} ELSE unwritten

StopConfirmed ==
  /\ op # None /\ op.at = "terminating"
  /\ status' = [status EXCEPT ![op.pid] = "ended"]
  /\ Marked("stopped")
  /\ op' = None
  /\ UNCHANGED <<born, owner, age, proc, runtime, sweep, slow, survivors>>

\* Mutant of StopRefused: the failure is not written down.
StopRefusedQuietly ==
  /\ op # None /\ op.at = "terminating"
  /\ op' = None
  /\ UNCHANGED <<provider, row, proc, runtime, sweep, history>>

\* Mutant of StopRefused: the row says stopped whatever the provider said.
StopRefusedStopped ==
  /\ op # None /\ op.at = "terminating"
  /\ Release(op.pid)
  /\ Marked("stopped")
  /\ op' = None
  /\ UNCHANGED <<born, owner, age, proc, runtime, sweep, slow, survivors>>

\* terminate raises, although the provider may have acted.
StopRefused ==
  /\ op # None /\ op.at = "terminating"
  /\ Release(op.pid)
  /\ Marked("termination_failed")
  /\ op' = None
  /\ UNCHANGED <<born, owner, age, proc, runtime, sweep, slow, survivors>>

\* Something else raises: before terminate, or the write after its answer.
StopUnwritten ==
  /\ op # None /\ op.at = "terminating"
  /\ Release(op.pid)
  /\ unwritten' = unwritten \cup {op.pid}
  /\ op' = None
  /\ UNCHANGED <<born, owner, age, row, proc, runtime, sweep, slow, survivors>>

Controller ==
  \/ \E w \in Webs : Start(w) \/ Stop(w)
  \/ StartSaves \/ StartReturns \/ StartUnwritten \/ StartFails \/ StartUndone
  \/ StopConfirmed \/ StopRefused \/ StopUnwritten

-----------------------------------------------------------------------------
(* The backend process *)

Crash ==
  /\ proc # "down"
  /\ proc' = "down" /\ op' = None
  /\ runtime' = [w \in Webs |-> None]
  /\ sweep' = [sweep EXCEPT !["boot"] = NoSweep]
  /\ survivors' = born
  /\ UNCHANGED <<provider, row, slow, unwritten>>

\* The backend sweeps before it serves.
Boot ==
  /\ proc = "down"
  /\ proc' = "sweeping"
  /\ sweep' = [sweep EXCEPT !["boot"].at = "listing"]
  /\ UNCHANGED <<provider, row, runtime, op, history>>

Serve ==
  /\ proc = "sweeping" /\ sweep["boot"].at = "idle"
  /\ proc' = "up"
  /\ UNCHANGED <<provider, row, runtime, op, sweep, history>>

-----------------------------------------------------------------------------
(* The reconciliation service *)

\* Mutant of Orphaned: no grace for a browser that is being started.
OrphanedWithoutGrace(p) ==
  \/ age[p] >= Expired
  \/ LET r == row[owner[p]] IN
     r = None \/ r.pid # p \/ r.status # "connected" \/ age[r.since] >= Overdue

\* _classify, for a running browser of this environment.
Orphaned(p) ==
  \/ age[p] >= Expired
  \/ /\ age[p] >= Grown
     /\ LET r == row[owner[p]] IN
        r = None \/ r.pid # p \/ r.status # "connected" \/ age[r.since] >= Overdue

Sweeping(k, s) == sweep' = [sweep EXCEPT ![k] = s]

\* The worker is run with execute, once or at an interval.
WorkerStarts ==
  /\ sweep["worker"].at = "idle"
  /\ Sweeping("worker", [NoSweep EXCEPT !.at = "listing"])
  /\ UNCHANGED <<provider, row, backend, history>>

\* A call of the provider or a read of the rows raises, which ends the pass.
PassFails(k) ==
  /\ sweep[k].at \in {"listing", "judging", "confirming"}
  /\ Sweeping(k, NoSweep)
  /\ UNCHANGED <<provider, row, backend, history>>

Lists(k) ==
  /\ sweep[k].at = "listing"
  /\ Sweeping(k, [NoSweep EXCEPT !.at = "judging",
                                 !.found = {p \in Browsers : status[p] = "running"}])
  /\ UNCHANGED <<provider, row, backend, history>>

\* The first snapshot of the rows.
Judges(k) ==
  /\ sweep[k].at = "judging"
  /\ LET orphans == {p \in sweep[k].found : Orphaned(p)} IN
     Sweeping(k, IF orphans = {} THEN NoSweep
                 ELSE [NoSweep EXCEPT !.at = "confirming", !.orphans = orphans])
  /\ UNCHANGED <<provider, row, backend, history>>

\* Mutant of Confirms: the budget of a pass is not given out.
ConfirmsWithoutBudget(k) ==
  /\ sweep[k].at = "confirming"
  /\ Sweeping(k, [sweep[k] EXCEPT !.at = "releasing", !.budget = MaxTerminations + 1])
  /\ UNCHANGED <<provider, row, backend, history>>

\* The second, immediately before anything is released; it serves the whole pass.
Confirms(k) ==
  /\ sweep[k].at = "confirming"
  /\ Sweeping(k, [sweep[k] EXCEPT !.at = "releasing", !.budget = MaxTerminations,
                                  !.orphans = {p \in @ : Orphaned(p)}])
  /\ UNCHANGED <<provider, row, backend, history>>

\* One termination: confirmed (or gone already), or failed.
Terminates(k) ==
  /\ sweep[k].at = "releasing" /\ sweep[k].budget > 0
  /\ \E p \in sweep[k].orphans :
       LET next == [sweep[k] EXCEPT !.orphans = @ \ {p}, !.budget = @ - 1] IN
       \/ /\ status' = [status EXCEPT ![p] = "ended"]
          /\ Sweeping(k, [next EXCEPT !.at = "recording", !.target = p])
       \/ Release(p) /\ Sweeping(k, next)
  /\ UNCHANGED <<born, owner, age, row, backend, history>>

\* record_release, by the provider's id; its write may fail.
Records(k) ==
  /\ sweep[k].at = "recording"
  /\ \/ row' = [w \in Webs |-> IF row[w] # None /\ row[w].pid = sweep[k].target
                               THEN [row[w] EXCEPT !.status = "stopped"] ELSE row[w]]
     \/ UNCHANGED row
  /\ Sweeping(k, [sweep[k] EXCEPT !.at = "releasing", !.target = None])
  /\ UNCHANGED <<provider, backend, history>>

\* What is left over the budget is deferred.
Ends(k) ==
  /\ sweep[k].at = "releasing" /\ (sweep[k].orphans = {} \/ sweep[k].budget = 0)
  /\ Sweeping(k, NoSweep)
  /\ UNCHANGED <<provider, row, backend, history>>

WorkerDies ==
  /\ sweep["worker"].at # "idle"
  /\ Sweeping("worker", NoSweep)
  /\ UNCHANGED <<provider, row, backend, history>>

Sweep(k) ==
  \/ Lists(k) \/ Judges(k) \/ Confirms(k) \/ Terminates(k) \/ Records(k)
  \/ Ends(k) \/ PassFails(k)

-----------------------------------------------------------------------------
(* The provider *)

\* A browser ages, never before an older one.
Ages ==
  \E p \in 1..born :
    /\ age[p] < Overdue
    /\ \A q \in 1..(p - 1) : age[q] > age[p]
    /\ age' = [age EXCEPT ![p] = @ + 1]
    /\ slow' = IF op # None /\ op.do = "start" /\ op.pid = p THEN slow \cup {p} ELSE slow
  /\ UNCHANGED <<born, owner, status, row, backend, sweep, unwritten, survivors>>

\* A session ends on its own: expiry, disconnection, an outage.
SessionEnds ==
  /\ \E p \in Browsers :
       /\ status[p] = "running"
       /\ status' = [status EXCEPT ![p] = "ended"]
  /\ UNCHANGED <<born, owner, age, row, backend, sweep, history>>

Next ==
  \/ Controller
  \/ Crash \/ Boot \/ Serve
  \/ WorkerStarts \/ WorkerDies
  \/ \E k \in Sweepers : Sweep(k)
  \/ Ages \/ SessionEnds

Spec == Init /\ [][Next]_vars
=============================================================================
