-------------------------- MODULE BrowserLeaseProofs --------------------------
(***************************************************************************)
(* What holds of managed browsers for any web sessions, any number of      *)
(* browsers and any budget of a pass.  The types, the ledger of who was    *)
(* created for whom and what a pass has in hand are LedgerInv.  LeaseInv   *)
(* relates rows to browsers.  Every write of the controller may raise: a   *)
(* browser it could not write about (unwritten) may be up with no row of   *)
(* its own, or gone with a row that still claims it.                       *)
(***************************************************************************)
EXTENDS BrowserLeaseProps, TLAPS

-----------------------------------------------------------------------------
(* The inductive invariant *)

Born == 1..born

\* The provider's sessions: those created have an owner, the others no history.
BornFits ==
  \A p \in Browsers :
    /\ p <= born => owner[p] \in Webs
    /\ p > born => status[p] = "none" /\ age[p] = Young

\* A row is about a browser created for its web session, and so is a runtime, which is never
\* the older of the two.
RowsFit ==
  \A w \in Webs :
    /\ row[w] # None => row[w].pid <= born /\ owner[row[w].pid] = w
    /\ runtime[w] # None => runtime[w] <= born /\ owner[runtime[w]] = w
    /\ row[w] # None /\ runtime[w] # None => row[w].pid <= runtime[w]

\* What the holder of the controller's lock knows.
OpFits ==
  op # None =>
    /\ op.pid <= born /\ owner[op.pid] = op.web
    /\ row[op.web] # None => row[op.web].pid <= op.pid
    /\ op.at = "terminating" <=> op.do = "stop"
    /\ op.do = "start" => age[op.pid] = Young \/ op.pid \in slow
    /\ op.at \in {"attaching", "undoing"} =>
         (row[op.web] # None => row[op.web].pid # op.pid)
    /\ op.at = "saved" => /\ runtime[op.web] = op.pid
                          /\ row[op.web] # None /\ row[op.web].pid = op.pid
    /\ op.at \in {"attaching", "undoing", "terminating"} => runtime[op.web] = None

\* What a pass has in hand.
PassFits ==
  \A k \in Sweepers :
    /\ sweep[k].found \subseteq Born /\ sweep[k].orphans \subseteq Born
    /\ sweep[k].at = "recording" =>
         sweep[k].target \in Born /\ status[sweep[k].target] = "ended"

LedgerInv ==
  /\ TypeOK
  /\ BornFits /\ RowsFit /\ OpFits /\ PassFits
  /\ survivors <= born /\ unwritten \subseteq Born

\* A browser is entered as a runtime together with its row, or its row could not be written.
RuntimesFit ==
  \A w \in Webs : runtime[w] # None =>
    (row[w] # None /\ row[w].pid = runtime[w]) \/ runtime[w] \in unwritten

\* A stop is of the browser the row is about, or again of one whose row was not written.
StopFits ==
  op # None /\ op.at = "terminating" =>
    (row[op.web] # None /\ row[op.web].pid = op.pid) \/ op.pid \in unwritten

\* Whom a pass may release; a start that outlasts its grace, or cannot write its row, makes
\* a browser fair game.
Spent(p) == ~InUse(p) \/ age[p] >= Expired \/ p \in slow \cup unwritten

\* The row of a browser in use says so, and since when, unless a pass may release it.
UsedRowsFit ==
  \A w \in Webs : runtime[w] # None /\ ~Spent(runtime[w]) =>
    /\ row[w].status = "connected"
    /\ row[w].since = runtime[w] \/ (op # None /\ op.at = "saved" /\ op.web = w)

\* Whom the pass k is to release yet, or to write down.
Doomed(k) ==
  {p \in Browsers : \/ sweep[k].at \in {"releasing", "recording"} /\ p \in sweep[k].orphans
                    \/ sweep[k].at = "recording" /\ p = sweep[k].target}

\* They are out of use, or fair game.
PassSpares == \A k \in Sweepers : \A p \in Doomed(k) : Spent(p)

LeaseInv ==
  /\ LedgerInv
  /\ RuntimesFit /\ StopFits /\ UsedRowsFit /\ PassSpares
  /\ StoppedIsConfirmed

-----------------------------------------------------------------------------
(* What the steps have in common *)

Pass == [at : {"idle", "listing", "judging", "confirming", "releasing", "recording"},
         found : SUBSET Browsers, orphans : SUBSET Browsers,
         budget : 0..MaxTerminations, target : Browsers \cup {None}]

\* Bounds are numbers, and nothing is what None is.
LEMMA Apart ==
  /\ MaxBrowsers \in Nat /\ MaxTerminations \in Nat
  /\ None \notin Webs /\ None \notin Browsers
  /\ \A r \in Row : r # None
  /\ \A o \in Operation : o # None
  BY LeaseAssumption, NoneIsNeither DEF Browsers

\* The idle pass is one.
LEMMA NoPass == NoSweep \in Pass
  BY Apart DEF NoSweep, Pass

\* What a created browser is known by.
LEMMA BornAreBrowsers ==
  ASSUME TypeOK
  PROVE  /\ born \in Nat
         /\ Born \subseteq Browsers
         /\ \A p \in Browsers : p \in Born <=> p <= born
  BY Apart DEF TypeOK, Born, Browsers

\* The steps of a pass, and of the worker, that only look.
Looks ==
  \/ WorkerStarts \/ WorkerDies
  \/ \E k \in Sweepers : Lists(k) \/ Judges(k) \/ Confirms(k) \/ Ends(k) \/ PassFails(k)

\* They change nothing but the pass.
LEMMA LooksOnly ==
  ASSUME Looks
  PROVE  UNCHANGED <<provider, row, backend, history>>
  BY DEF Looks, WorkerStarts, WorkerDies, Lists, Judges, Confirms, Ends, PassFails

\* The steps of the other parties.
LEMMA Steps ==
  ASSUME Next
  PROVE  \/ \E w \in Webs : Start(w) \/ Stop(w)
         \/ StartSaves \/ StartReturns \/ StartUnwritten \/ StartFails \/ StartUndone
         \/ StopConfirmed \/ StopRefused \/ StopUnwritten
         \/ Crash \/ Boot \/ Serve
         \/ Looks
         \/ \E k \in Sweepers : Terminates(k) \/ Records(k)
         \/ Ages \/ SessionEnds
  BY DEF Next, Controller, Sweep, Looks

\* The pass k goes on to s; the others stay.
LEMMA PassMoves ==
  ASSUME TypeOK, NEW k \in Sweepers, NEW s \in Pass, Sweeping(k, s)
  PROVE  /\ sweep' \in [Sweepers -> Pass]
         /\ \A j \in Sweepers : sweep'[j] = IF j = k THEN s ELSE sweep[j]
  BY DEF TypeOK, Sweeping, Pass

-----------------------------------------------------------------------------
(* The ledger *)

\* At first nothing was created and nothing is in hand.
LEMMA InitLedger == Init => LedgerInv
<1> SUFFICES ASSUME Init PROVE LedgerInv
  OBVIOUS
<1> USE Apart DEF Init
<1>1. TypeOK
  BY NoPass DEF TypeOK, Pass, Young, Overdue
<1>2. BornFits /\ RowsFit /\ OpFits
  BY DEF BornFits, RowsFit, OpFits, Browsers
<1>3. PassFits
  BY DEF PassFits, NoSweep
<1>4. survivors <= born /\ unwritten \subseteq Born
  OBVIOUS
<1>5. QED
  BY <1>1, <1>2, <1>3, <1>4 DEF LedgerInv

\* A step of a pass that only looks leaves it a pass, over browsers that exist.
LEMMA LooksLedger ==
  ASSUME LedgerInv, Looks
  PROVE  LedgerInv'
<1> USE DEF LedgerInv
<1>1. UNCHANGED <<provider, row, backend, history>>
  BY LooksOnly
<1>2. ASSUME NEW k \in Sweepers, NEW s \in Pass, Sweeping(k, s),
             s.at # "recording", s.found \subseteq Born, s.orphans \subseteq Born
      PROVE  TypeOK' /\ PassFits'
  <2>1. /\ sweep' \in [Sweepers -> Pass]
        /\ \A j \in Sweepers : sweep'[j] = IF j = k THEN s ELSE sweep[j]
    BY <1>2, PassMoves
  <2>2. TypeOK'
    BY <1>1, <2>1 DEF TypeOK, Pass, provider, backend, history
  <2>3. PassFits'
    BY <1>1, <1>2, <2>1 DEF PassFits, Born, provider
  <2>4. QED
    BY <2>2, <2>3
<1>3. TypeOK' /\ PassFits'
  <2>1. ASSUME \/ WorkerStarts \/ WorkerDies
               \/ \E k \in Sweepers : Ends(k) \/ PassFails(k)
        PROVE  TypeOK' /\ PassFits'
    <3>1. "worker" \in Sweepers
      BY DEF Sweepers
    <3>2. [NoSweep EXCEPT !.at = "listing"] \in Pass
      BY NoPass DEF NoSweep, Pass
    <3>3. \E k \in Sweepers, s \in {NoSweep, [NoSweep EXCEPT !.at = "listing"]} :
             Sweeping(k, s)
      BY <2>1, <3>1 DEF WorkerStarts, WorkerDies, Ends, PassFails
    <3>4. \A s \in {NoSweep, [NoSweep EXCEPT !.at = "listing"]} :
            s.at # "recording" /\ s.found = {} /\ s.orphans = {}
      BY DEF NoSweep
    <3>5. QED
      BY <1>2, <3>2, <3>3, <3>4, NoPass
  <2>2. ASSUME NEW k \in Sweepers, Lists(k)
        PROVE  TypeOK' /\ PassFits'
    <3> DEFINE live == {p \in Browsers : status[p] = "running"}
               s == [NoSweep EXCEPT !.at = "judging", !.found = live]
    <3>1. live \subseteq Born
      BY BornAreBrowsers DEF BornFits, Browsers
    <3>2. s \in Pass /\ s.at # "recording" /\ s.found = live /\ s.orphans = {}
      BY NoPass DEF NoSweep, Pass
    <3>3. Sweeping(k, s)
      BY <2>2 DEF Lists
    <3>4. QED
      <4> HIDE DEF s, live
      <4> QED
        BY <1>2, <3>1, <3>2, <3>3
  <2>3. ASSUME NEW k \in Sweepers, Judges(k)
        PROVE  TypeOK' /\ PassFits'
    <3> DEFINE suspects == {p \in sweep[k].found : Orphaned(p)}
               s == [NoSweep EXCEPT !.at = "confirming", !.orphans = suspects]
    <3>1. suspects \subseteq Born /\ suspects \subseteq Browsers
      BY BornAreBrowsers DEF PassFits
    <3>2. s \in Pass /\ s.at # "recording" /\ s.found = {} /\ s.orphans = suspects
      BY <3>1, NoPass DEF NoSweep, Pass
    <3>3. Sweeping(k, NoSweep) \/ Sweeping(k, s)
      BY <2>3 DEF Judges
    <3>4. NoSweep.at # "recording" /\ NoSweep.found = {} /\ NoSweep.orphans = {}
      BY DEF NoSweep
    <3>5. QED
      <4> HIDE DEF s, suspects
      <4> QED
        BY <1>2, <3>1, <3>2, <3>3, <3>4, NoPass
  <2>4. ASSUME NEW k \in Sweepers, Confirms(k)
        PROVE  TypeOK' /\ PassFits'
    <3> DEFINE orphans == {p \in sweep[k].orphans : Orphaned(p)}
               s == [sweep[k] EXCEPT !.at = "releasing", !.budget = MaxTerminations,
                                     !.orphans = orphans]
    <3>1. sweep[k] \in Pass
      BY DEF TypeOK, Pass
    <3>2. orphans \subseteq Born /\ orphans \subseteq Browsers
      BY BornAreBrowsers DEF PassFits
    <3>3. MaxTerminations \in 0..MaxTerminations
      BY Apart
    <3>4. /\ s \in Pass /\ s.at # "recording"
          /\ s.found = sweep[k].found /\ s.orphans = orphans
      BY <3>1, <3>2, <3>3 DEF Pass
    <3>5. Sweeping(k, s)
      BY <2>4 DEF Confirms
    <3>6. QED
      <4> HIDE DEF s, orphans
      <4> QED
        BY <1>2, <3>2, <3>4, <3>5 DEF PassFits
  <2>5. QED
    BY <2>1, <2>2, <2>3, <2>4 DEF Looks
<1>4. BornFits' /\ RowsFit' /\ OpFits' /\ (survivors <= born /\ unwritten \subseteq Born)'
  BY <1>1 DEF BornFits, RowsFit, OpFits, Born, provider, backend, history
<1>5. QED
  BY <1>3, <1>4

\* A browser is created for w; its answer arrives or is lost.
LEMMA StartLedger ==
  ASSUME LedgerInv, NEW w \in Webs, Start(w)
  PROVE  LedgerInv'
<1> USE DEF LedgerInv, Start, history
<1> DEFINE first == [do |-> "start", web |-> w, pid |-> born', at |-> "attaching"]
<1>1. born' = born + 1 /\ born' \in Browsers /\ born \in Nat
  BY Apart DEF TypeOK, Browsers
<1>2. first \in Operation /\ (op' = first \/ op' = None)
  BY <1>1 DEF Operation
<1>3. TypeOK'
  BY <1>1, <1>2 DEF TypeOK, Browsers
<1>4. /\ owner' = [owner EXCEPT ![born'] = w] /\ owner \in [Browsers -> Webs \cup {None}]
      /\ status' = [status EXCEPT ![born'] = "running"]
      /\ status \in [Browsers -> {"none", "running", "ended"}]
  BY DEF TypeOK
<1>5. BornFits'
  BY <1>1, <1>4 DEF BornFits, Browsers
<1>6. RowsFit'
  BY <1>1, <1>4 DEF RowsFit, TypeOK, Row, Browsers
<1>7. OpFits'
  <2> HIDE DEF Start
  <2>1. age'[born'] = Young
    BY <1>1 DEF BornFits, Start, Browsers
  <2>2. row'[w] # None => row'[w].pid # born' /\ row'[w].pid <= born'
    BY <1>1 DEF RowsFit, Start, TypeOK, Row, Browsers
  <2>3. /\ first.at = "attaching" /\ first.do = "start" /\ first.web = w
        /\ first.pid = born'
    OBVIOUS
  <2>4. owner'[born'] = w /\ born' <= born'
    BY <1>1, <1>4
  <2>5. runtime'[w] = None
    BY DEF Start
  <2>6. QED
    <3> HIDE DEF first
    <3> QED
      BY <1>2, <2>1, <2>2, <2>3, <2>4, <2>5 DEF OpFits
<1>8. PassFits'
  BY <1>1, <1>4, BornAreBrowsers DEF PassFits, Born
<1>9. survivors' <= born' /\ unwritten' \subseteq Born'
  BY <1>1 DEF TypeOK, Born
<1>10. QED
  BY <1>3, <1>5, <1>6, <1>7, <1>8, <1>9

\* The other steps of a start and the steps of a stop.
LEMMA ControllerLedger ==
  ASSUME LedgerInv,
         \/ StartSaves \/ StartReturns \/ StartUnwritten \/ StartFails \/ StartUndone
         \/ StopConfirmed \/ StopRefused \/ StopUnwritten
         \/ \E w \in Webs : Stop(w)
  PROVE  LedgerInv'
<1> USE DEF LedgerInv, provider, history
<1>1. UNCHANGED <<born, owner, age, proc, sweep, slow, survivors>>
  BY DEF StartSaves, StartReturns, StartUnwritten, StartFails, StartUndone, StopConfirmed,
         StopRefused, StopUnwritten, Stop
<1>13. \A p \in Browsers : p \in Nat
  BY Apart DEF Browsers
<1>0. op # None => op \in Operation /\ op.web \in Webs /\ op.pid \in Browsers /\ op.pid \in Born
  BY BornAreBrowsers DEF TypeOK, Operation, OpFits
<1>10. unwritten' \subseteq Born'
  BY <1>0, <1>1 DEF StartSaves, StartReturns, StartUnwritten, StartFails, StartUndone, Marked,
     StopConfirmed, StopRefused, StopUnwritten, Stop, Born
<1>11. unwritten' \subseteq Browsers
  BY <1>1, <1>10, BornAreBrowsers DEF Born
<1>12. ASSUME StartUnwritten PROVE TypeOK' /\ RowsFit' /\ OpFits'
  <2> USE <1>12 DEF StartUnwritten
  <2>1. runtime' = [runtime EXCEPT ![op.web] = op.pid] /\ op' = None /\ row' = row
    OBVIOUS
  <2>2. TypeOK'
    BY <1>0, <1>1, <1>11, <2>1 DEF TypeOK
  <2>3. RowsFit'
    BY <1>0, <2>1 DEF RowsFit, OpFits, TypeOK
  <2>4. OpFits'
    BY <2>1 DEF OpFits
  <2>5. QED
    BY <2>2, <2>3, <2>4
<1>2. ASSUME StartSaves PROVE TypeOK' /\ RowsFit' /\ OpFits'
  <2> USE <1>2 DEF StartSaves
  <2>1. op \in Operation /\ op.web \in Webs /\ op.pid \in Browsers
    BY DEF TypeOK, Operation
  <2>2. TypeOK'
    BY <2>1 DEF TypeOK, Row, Operation
  <2>3. RowsFit'
    BY <1>13, <2>1, Apart DEF RowsFit, OpFits, TypeOK, Row
  <2>4. OpFits'
    BY <1>13, <2>1, Apart DEF OpFits, TypeOK, Row, Operation
  <2>5. QED
    BY <2>2, <2>3, <2>4
<1>3. ASSUME StartReturns PROVE TypeOK' /\ RowsFit' /\ OpFits'
  <2> USE <1>3 DEF StartReturns
  <2>1. /\ op \in Operation /\ op.web \in Webs /\ op.pid \in Browsers
        /\ row[op.web] \in Row
    BY DEF TypeOK, Operation, OpFits
  <2>2. TypeOK'
    BY <2>1 DEF TypeOK, Row
  <2>3. RowsFit'
    BY <2>1, Apart DEF RowsFit, TypeOK, Row
  <2>4. OpFits'
    BY DEF OpFits
  <2>5. QED
    BY <2>2, <2>3, <2>4
<1>4. ASSUME StartFails \/ \E w \in Webs : Stop(w) PROVE TypeOK' /\ RowsFit' /\ OpFits'
  <2>1. CASE StartFails
    BY <2>1 DEF StartFails, TypeOK, RowsFit, OpFits, Operation
  <2>2. ASSUME NEW w \in Webs, Stop(w) PROVE TypeOK' /\ RowsFit' /\ OpFits'
    <3> USE <2>2 DEF Stop
    <3>1. PICK p \in Browsers :
            /\ \/ p = runtime[w]
               \/ row[w] # None /\ p = row[w].pid
            /\ op' = [do |-> "stop", web |-> w, pid |-> p, at |-> "terminating"]
      OBVIOUS
    <3>2. TypeOK'
      BY <3>1 DEF TypeOK, Operation
    <3>3. RowsFit'
      BY DEF RowsFit
    <3>4. OpFits'
      BY <1>13, <3>1, Apart DEF OpFits, RowsFit, TypeOK, Row
    <3>5. QED
      BY <3>2, <3>3, <3>4
  <2>3. QED
    BY <1>4, <2>1, <2>2
<1>5. ASSUME StartUndone \/ StopConfirmed \/ StopRefused \/ StopUnwritten
      PROVE  TypeOK' /\ RowsFit' /\ OpFits'
  <2>1. op \in Operation /\ op.web \in Webs /\ op.pid \in Browsers
    BY <1>5 DEF TypeOK, Operation, StartUndone, StopConfirmed, StopRefused, StopUnwritten
  <2>2. op' = None
    BY <1>5 DEF StartUndone, StopConfirmed, StopRefused, StopUnwritten
  <2>3. status' \in [Browsers -> {"none", "running", "ended"}]
    BY <1>5, <2>1 DEF TypeOK, StartUndone, StopConfirmed, StopRefused, StopUnwritten, Release
  <2>4. PICK to \in {"stopped", "termination_failed"} : Marked(to) \/ row' = row
    BY <1>5 DEF StartUndone, StopConfirmed, StopRefused, StopUnwritten
  <2>5. /\ row' \in [Webs -> Row \cup {None}]
        /\ \A w \in Webs : row'[w] # None => row[w] # None /\ row'[w].pid = row[w].pid
    <3>1. \/ row' = row
          \/ row[op.web] # None /\ row' = [row EXCEPT ![op.web].status = to]
      BY <2>4 DEF Marked
    <3>2. row \in [Webs -> Row \cup {None}]
      BY DEF TypeOK
    <3>3. QED
      BY <2>1, <3>1, <3>2 DEF Row
  <2>6. runtime' = runtime
    BY <1>5 DEF StartUndone, StopConfirmed, StopRefused, StopUnwritten
  <2>7. TypeOK'
    BY <1>1, <1>11, <2>2, <2>3, <2>5, <2>6 DEF TypeOK
  <2>8. RowsFit' /\ OpFits'
    BY <1>1, <2>2, <2>5, <2>6 DEF RowsFit, OpFits
  <2>9. QED
    BY <2>7, <2>8
<1>6. TypeOK' /\ RowsFit' /\ OpFits'
  BY <1>2, <1>3, <1>4, <1>5, <1>12
<1>7. \A p \in Browsers :
        /\ status'[p] = status[p] \/ (p = op.pid /\ op # None /\ status'[p] = "ended")
  BY DEF StartSaves, StartReturns, StartUnwritten, StartFails, StartUndone, StopConfirmed,
         StopRefused, StopUnwritten, Stop, Release, TypeOK
<1>8. BornFits' /\ PassFits'
  BY <1>1, <1>7, BornAreBrowsers DEF BornFits, PassFits, OpFits, Born, Browsers
<1>9. QED
  BY <1>1, <1>6, <1>8, <1>10

\* The backend dies, sweeps and serves; its passes start over.
LEMMA BackendLedger ==
  ASSUME LedgerInv, Crash \/ Boot \/ Serve
  PROVE  LedgerInv'
<1> USE DEF LedgerInv, provider, history
<1>1. /\ UNCHANGED <<provider, row>>
      /\ UNCHANGED <<runtime, op>> \/ (op' = None /\ runtime' = [w \in Webs |-> None])
      /\ survivors' \in {survivors, born} /\ slow' = slow /\ unwritten' = unwritten
      /\ proc' \in {"down", "sweeping", "up"}
  BY DEF Crash, Boot, Serve
<1>2. /\ sweep' \in [Sweepers -> Pass]
      /\ \A k \in Sweepers : sweep'[k] = sweep[k] \/ sweep'[k] = NoSweep
                              \/ sweep'[k] = [sweep[k] EXCEPT !.at = "listing"]
  BY NoPass DEF Crash, Boot, Serve, TypeOK, Pass
<1>3. TypeOK'
  BY <1>1, <1>2, Apart DEF TypeOK, Pass
<1>4. BornFits' /\ RowsFit' /\ OpFits' /\ (survivors <= born /\ unwritten \subseteq Born)'
  BY <1>1, BornAreBrowsers DEF BornFits, RowsFit, OpFits, Born
<1>5. PassFits'
  <2> SUFFICES ASSUME NEW k \in Sweepers
               PROVE  /\ sweep'[k].found \subseteq Born /\ sweep'[k].orphans \subseteq Born
                      /\ sweep'[k].at = "recording" =>
                           sweep'[k].target \in Born /\ status[sweep'[k].target] = "ended"
    BY <1>1 DEF PassFits, Born
  <2>1. sweep[k] \in Pass
    BY DEF TypeOK, Pass
  <2>2. QED
    BY <1>2, <2>1 DEF PassFits, NoSweep, Pass
<1>6. QED
  BY <1>3, <1>4, <1>5

\* A pass releases a browser, or fails to.
LEMMA TerminatesLedger ==
  ASSUME LedgerInv, NEW k \in Sweepers, Terminates(k)
  PROVE  LedgerInv'
<1> USE DEF LedgerInv, backend, history
<1> DEFINE Next1(p) == [sweep[k] EXCEPT !.orphans = @ \ {p}, !.budget = @ - 1]
           Next2(p) == [Next1(p) EXCEPT !.at = "recording", !.target = p]
<1>1. PICK p \in sweep[k].orphans :
        \/ status' = [status EXCEPT ![p] = "ended"] /\ Sweeping(k, Next2(p))
        \/ Release(p) /\ Sweeping(k, Next1(p))
  BY DEF Terminates
<1>2. /\ UNCHANGED <<born, owner, age, row, backend, history>>
      /\ sweep[k].at = "releasing" /\ sweep[k].budget > 0
  BY DEF Terminates
<1>3. sweep[k] \in Pass /\ p \in Browsers /\ p \in Born
  BY BornAreBrowsers DEF TypeOK, PassFits, Pass
<1>4. /\ Next1(p) \in Pass /\ Next1(p).at = "releasing"
      /\ Next1(p).found = sweep[k].found /\ Next1(p).orphans = sweep[k].orphans \ {p}
  <2>1. sweep[k].budget - 1 \in 0..MaxTerminations
    BY <1>2, <1>3, Apart DEF Pass
  <2>2. sweep[k].orphans \ {p} \in SUBSET Browsers
    BY <1>3 DEF Pass
  <2>3. QED
    BY <1>2, <1>3, <2>1, <2>2 DEF Pass
<1>5. /\ Next2(p) \in Pass /\ Next2(p).at = "recording" /\ Next2(p).target = p
      /\ Next2(p).found = sweep[k].found /\ Next2(p).orphans = sweep[k].orphans \ {p}
  <2> HIDE DEF Next1
  <2> QED
    BY <1>3, <1>4 DEF Pass
<1> HIDE DEF Next1, Next2
<1>6. /\ status' \in [Browsers -> {"none", "running", "ended"}]
      /\ \A q \in Browsers : status'[q] = status[q] \/ (q = p /\ status'[q] = "ended")
  BY <1>1, <1>3 DEF Release, TypeOK
<1>7. /\ sweep' \in [Sweepers -> Pass]
      /\ \A j \in Sweepers : j # k => sweep'[j] = sweep[j]
      /\ sweep'[k] = Next1(p) \/ (sweep'[k] = Next2(p) /\ status'[p] = "ended")
  BY <1>1, <1>3, <1>4, <1>5, PassMoves DEF TypeOK
<1>8. TypeOK'
  BY <1>2, <1>6, <1>7 DEF TypeOK, Pass
<1>9. BornFits' /\ RowsFit' /\ OpFits' /\ (survivors <= born /\ unwritten \subseteq Born)'
  BY <1>2, <1>3, <1>6, BornAreBrowsers DEF BornFits, RowsFit, OpFits, Browsers, Born
<1>10. PassFits'
  BY <1>2, <1>3, <1>4, <1>5, <1>6, <1>7, BornAreBrowsers DEF PassFits, Born
<1>11. QED
  BY <1>8, <1>9, <1>10

\* A pass writes down what it released, or fails to.
LEMMA RecordsLedger ==
  ASSUME LedgerInv, NEW k \in Sweepers, Records(k)
  PROVE  LedgerInv'
<1> USE DEF LedgerInv, provider, backend, history
<1> DEFINE s == [sweep[k] EXCEPT !.at = "releasing", !.target = None]
<1>1. UNCHANGED <<provider, backend, history>> /\ Sweeping(k, s)
  BY DEF Records
<1>2. sweep[k] \in Pass
  BY DEF TypeOK, Pass
<1>3. /\ s \in Pass /\ s.at = "releasing"
      /\ s.found = sweep[k].found /\ s.orphans = sweep[k].orphans
  BY <1>2 DEF Pass
<1> HIDE DEF s
<1>4. /\ row' \in [Webs -> Row \cup {None}]
      /\ \A w \in Webs : row'[w] = row[w] \/ (/\ row[w] # None /\ row'[w] # None
                                              /\ row'[w].pid = row[w].pid)
  BY Apart DEF Records, TypeOK, Row
<1>5. /\ sweep' \in [Sweepers -> Pass]
      /\ \A j \in Sweepers : sweep'[j] = IF j = k THEN s ELSE sweep[j]
  BY <1>1, <1>3, PassMoves
<1>6. TypeOK'
  BY <1>1, <1>4, <1>5 DEF TypeOK, Pass
<1>7. BornFits' /\ RowsFit' /\ (survivors <= born /\ unwritten \subseteq Born)'
  BY <1>1, <1>4 DEF BornFits, RowsFit, Born
<1>8. OpFits'
  BY <1>1, <1>4 DEF OpFits, TypeOK, Operation
<1>9. PassFits'
  BY <1>1, <1>3, <1>5 DEF PassFits, Born
<1>10. QED
  BY <1>6, <1>7, <1>8, <1>9

\* Time passes at the provider, and sessions end there on their own.
LEMMA ProviderLedger ==
  ASSUME LedgerInv, Ages \/ SessionEnds
  PROVE  LedgerInv'
<1> USE DEF LedgerInv, backend, history
<1>1. UNCHANGED <<born, owner, row, backend, sweep, unwritten, survivors>>
  BY DEF Ages, SessionEnds
<1>2. /\ status' \in [Browsers -> {"none", "running", "ended"}]
      /\ \A p \in Browsers :
           status'[p] = status[p] \/ (status[p] = "running" /\ status'[p] = "ended")
  BY DEF Ages, SessionEnds, TypeOK
<1>3. /\ age' \in [Browsers -> Young..Overdue] /\ slow' \subseteq Browsers
      /\ \A p \in Browsers : p > born => age'[p] = age[p]
      /\ slow \subseteq slow'
      /\ op # None /\ op.do = "start" =>
           age'[op.pid] = age[op.pid] \/ op.pid \in slow'
  <2>1. CASE SessionEnds
    BY <2>1 DEF SessionEnds, TypeOK
  <2>2. CASE Ages
    <3>1. PICK p \in Born : /\ age[p] < Overdue
                           /\ age' = [age EXCEPT ![p] = @ + 1]
                           /\ slow' = IF op # None /\ op.do = "start" /\ op.pid = p
                                      THEN slow \cup {p} ELSE slow
      BY <2>2 DEF Ages, Born
    <3>2. p \in Browsers /\ p <= born /\ age[p] + 1 \in Young..Overdue
      BY <3>1, BornAreBrowsers DEF TypeOK, Young, Overdue
    <3>3. age' \in [Browsers -> Young..Overdue] /\ slow' \subseteq Browsers
      BY <3>1, <3>2 DEF TypeOK
    <3>4. \A q \in Browsers : q # p => age'[q] = age[q]
      BY <3>1 DEF TypeOK
    <3>5. op # None => op.pid \in Browsers
      BY DEF TypeOK, Operation
    <3>6. QED
      BY <3>1, <3>2, <3>3, <3>4, <3>5, BornAreBrowsers DEF Browsers
  <2>3. QED
    BY <2>1, <2>2
<1>4. TypeOK'
  BY <1>1, <1>2, <1>3 DEF TypeOK
<1>5. BornFits' /\ RowsFit' /\ (survivors <= born /\ unwritten \subseteq Born)'
  BY <1>1, <1>2, <1>3 DEF BornFits, RowsFit, Born
<1>6. OpFits'
  BY <1>1, <1>3 DEF OpFits
<1>7. PassFits'
  BY <1>1, <1>2, BornAreBrowsers DEF PassFits, Born
<1>8. QED
  BY <1>4, <1>5, <1>6, <1>7

\* Every step keeps the ledger.
LEMMA StepLedger == LedgerInv /\ [Next]_vars => LedgerInv'
<1> SUFFICES ASSUME LedgerInv, [Next]_vars PROVE LedgerInv'
  OBVIOUS
<1>1. CASE Next
  BY <1>1, Steps, LooksLedger, StartLedger, ControllerLedger, BackendLedger,
     TerminatesLedger, RecordsLedger, ProviderLedger
<1>2. CASE UNCHANGED vars
  BY <1>2 DEF vars, provider, backend, history, LedgerInv, TypeOK, BornFits, RowsFit,
              OpFits, PassFits, Born
<1>3. QED
  BY <1>1, <1>2

\* The ledger holds whatever fails: of the provider's sessions, the rows, the holder of the
\* controller's lock and what each pass has in hand.
THEOREM LedgerInvHolds == Spec => []LedgerInv
  BY InitLedger, StepLedger, PTL DEF Spec

\* Types hold whatever fails.
THEOREM TypeCorrect == Spec => []TypeOK
<1>1. LedgerInv => TypeOK
  BY DEF LedgerInv
<1>2. QED
  BY <1>1, LedgerInvHolds, PTL

-----------------------------------------------------------------------------
(* Rows and browsers *)

\* What is not in use never is again, time does not go back, and the provider does not
\* revive a session.
LEMMA Stays ==
  ASSUME LedgerInv, Next
  PROVE  /\ Born \subseteq Born'
         /\ \A p \in Born : /\ owner'[p] = owner[p]
                            /\ status[p] = "ended" => status'[p] = "ended"
                            /\ InUse(p)' => InUse(p)
                            /\ Spent(p) => Spent(p)'
<1> USE DEF LedgerInv, provider, backend, history
<1>1. SUFFICES ASSUME NEW p \in Born
      PROVE  /\ born' \in {born, born + 1}
             /\ owner'[p] = owner[p]
             /\ status[p] = "ended" => status'[p] = "ended"
             /\ InUse(p)' => InUse(p)
             /\ age'[p] >= age[p] /\ slow \subseteq slow'
             /\ p \in unwritten => p \in unwritten' \/ ~InUse(p)'
  <2>1. born \in Nat
    BY BornAreBrowsers
  <2>2. ASSUME NEW p \in Born, age'[p] >= age[p] PROVE age[p] >= Expired => age'[p] >= Expired
    <3>1. age[p] \in Nat /\ age'[p] \in Nat
      BY BornAreBrowsers, StepLedger DEF TypeOK, Young, Overdue, vars
    <3>2. QED
      BY <2>2, <3>1 DEF Expired
  <2>3. QED
    BY <1>1, <2>1, <2>2 DEF Born, Spent
<1>2. p \in Browsers /\ p <= born /\ born \in Nat /\ age[p] \in Nat /\ p \in Nat
  BY BornAreBrowsers DEF TypeOK, Young, Overdue, Born
<1>3. ASSUME Looks \/ (\E k \in Sweepers : Records(k)) \/ Boot \/ Serve
      PROVE  UNCHANGED <<born, owner, status, age, runtime, op, slow, unwritten>>
  BY <1>3, LooksOnly DEF Records, Boot, Serve
<1>4. ASSUME NEW w \in Webs, Start(w)
      PROVE  /\ born' = born + 1 /\ owner'[p] = owner[p] /\ status'[p] = status[p]
             /\ runtime' = runtime /\ age' = age /\ slow' = slow /\ unwritten' = unwritten
             /\ op' = None \/ op'.pid = born'
  BY <1>2, <1>4 DEF Start, TypeOK
<1>5. ASSUME \/ StartSaves \/ StartReturns \/ StartUnwritten \/ StartFails \/ StartUndone
             \/ StopConfirmed \/ StopRefused \/ StopUnwritten
             \/ \E w \in Webs : Stop(w)
      PROVE  /\ UNCHANGED <<born, owner, age, slow>>
             /\ status[p] = "ended" => status'[p] = "ended"
             /\ InUse(p)' => InUse(p)
             /\ p \in unwritten => p \in unwritten' \/ ~InUse(p)'
  <2>1. UNCHANGED <<born, owner, age, slow>> /\ (status[p] = "ended" => status'[p] = "ended")
    BY <1>2, <1>5 DEF StartSaves, StartReturns, StartUnwritten, StartFails, StartUndone,
                      StopConfirmed, StopRefused, StopUnwritten, Stop, Release, TypeOK
  <2>2. ASSUME StartSaves \/ StartUnwritten PROVE InUse(p)' => InUse(p)
    <3>1. /\ op # None /\ op \in Operation /\ op.do = "start"
          /\ runtime' = [runtime EXCEPT ![op.web] = op.pid]
          /\ op' = None \/ op'.pid = op.pid
      BY <2>2 DEF StartSaves, StartUnwritten, TypeOK, OpFits, Operation
    <3>2. runtime'[owner[p]] = p => runtime[owner[p]] = p \/ op.pid = p
      BY <1>2, <3>1 DEF TypeOK, Operation
    <3>3. QED
      BY <2>1, <3>1, <3>2 DEF InUse
  <2>3. ASSUME NEW w \in Webs, Stop(w) PROVE InUse(p)' => InUse(p)
    BY <1>2, <2>1, <2>3, Apart DEF Stop, InUse, TypeOK
  <2>4. ASSUME \/ StartReturns \/ StartFails \/ StartUndone
               \/ StopConfirmed \/ StopRefused \/ StopUnwritten
        PROVE  InUse(p)' => InUse(p)
    <3>1. runtime' = runtime
          /\ (op' = None \/ (op # None /\ op'.do = op.do /\ op'.pid = op.pid))
      BY <2>4 DEF StartReturns, StartFails, StartUndone, StopConfirmed, StopRefused,
                  StopUnwritten, TypeOK, Operation
    <3>2. QED
      BY <2>1, <3>1 DEF InUse
  <2>5. ASSUME p \in unwritten, p \notin unwritten'
        PROVE  ~InUse(p)'
    <3>1. /\ op # None /\ op.at = "terminating" /\ op.pid = p
          /\ runtime' = runtime /\ op' = None
      BY <1>5, <2>5 DEF StartSaves, StartReturns, StartUnwritten, StartFails, StartUndone,
         StopConfirmed, StopRefused, StopUnwritten, Stop, Marked, history
    <3>2. runtime'[owner'[p]] = None
      BY <2>1, <3>1 DEF OpFits
    <3>3. QED
      BY <1>2, <3>1, <3>2, Apart DEF InUse
  <2>6. QED
    BY <1>5, <2>1, <2>2, <2>3, <2>4, <2>5
<1>6. ASSUME Crash
      PROVE  UNCHANGED <<born, owner, status, age, slow, unwritten>> /\ ~InUse(p)'
  BY <1>2, <1>6, Apart DEF Crash, InUse, BornFits
<1>7. ASSUME NEW k \in Sweepers, Terminates(k)
      PROVE  /\ UNCHANGED <<born, owner, age, runtime, op, slow, unwritten>>
             /\ status[p] = "ended" => status'[p] = "ended"
  BY <1>2, <1>7 DEF Terminates, Release, TypeOK
<1>8. ASSUME Ages \/ SessionEnds
      PROVE  /\ UNCHANGED <<born, owner, runtime, op, unwritten>>
             /\ status[p] = "ended" => status'[p] = "ended"
             /\ age'[p] >= age[p] /\ slow \subseteq slow'
  BY <1>2, <1>8 DEF Ages, SessionEnds, TypeOK, Young, Overdue
<1>9. QED
  <2>1. age[p] >= age[p]
    BY <1>2
  <2>2. CASE Looks \/ (\E k \in Sweepers : Records(k)) \/ Boot \/ Serve
    BY <1>3, <2>1, <2>2 DEF InUse
  <2>3. CASE \E w \in Webs : Start(w)
    BY <1>2, <1>4, <2>1, <2>3 DEF InUse
  <2>4. CASE \/ StartSaves \/ StartReturns \/ StartUnwritten \/ StartFails \/ StartUndone
             \/ StopConfirmed \/ StopRefused \/ StopUnwritten
             \/ \E w \in Webs : Stop(w)
    BY <1>5, <2>1, <2>4
  <2>5. CASE Crash
    BY <1>6, <2>1, <2>5
  <2>6. CASE \E k \in Sweepers : Terminates(k)
    BY <1>7, <2>1, <2>6 DEF InUse
  <2>7. CASE Ages \/ SessionEnds
    BY <1>8, <2>7 DEF InUse
  <2>8. QED
    BY <2>2, <2>3, <2>4, <2>5, <2>6, <2>7, Steps

\* What a pass takes for an orphan is out of use, or fair game.
LEMMA OrphansAreSpent ==
  ASSUME LedgerInv, RuntimesFit, UsedRowsFit, NEW p \in Born, Orphaned(p)
  PROVE  Spent(p)
<1> USE DEF LedgerInv
<1>1. SUFFICES ASSUME ~Spent(p) PROVE FALSE
  OBVIOUS
<1>2. /\ p \in Browsers /\ owner[p] \in Webs /\ age[p] \in Nat /\ age[p] < Expired
      /\ p \notin slow /\ p \notin unwritten
  BY <1>1, BornAreBrowsers DEF TypeOK, BornFits, Spent, Young, Overdue, Expired
<1>3. age[p] >= Grown /\ age[p] # Young
  BY <1>2 DEF Orphaned, Grown, Young, Expired
<1>4. ~(op # None /\ op.do = "start" /\ op.pid = p)
  BY <1>2, <1>3 DEF OpFits
<1>5. runtime[owner[p]] = p
  BY <1>1, <1>4 DEF Spent, InUse
<1>6. row[owner[p]] # None /\ row[owner[p]].pid = p
  BY <1>2, <1>5, Apart DEF RuntimesFit
<1>7. row[owner[p]].status = "connected"
  BY <1>1, <1>2, <1>5, Apart DEF UsedRowsFit
<1>8. row[owner[p]].since = p
  <2>1. ASSUME op # None, op.at = "saved", op.web = owner[p] PROVE FALSE
    BY <1>2, <1>4, <1>5, <2>1 DEF OpFits, TypeOK, Operation
  <2>2. QED
    BY <1>1, <1>2, <1>5, <2>1, Apart DEF UsedRowsFit
<1>9. QED
  BY <1>2, <1>6, <1>7, <1>8 DEF Orphaned, Expired, Overdue

\* The first state satisfies the invariant.
LEMMA InitLease == Init => LeaseInv
<1> SUFFICES ASSUME Init PROVE LeaseInv
  OBVIOUS
<1> USE Apart DEF Init
<1>1. RuntimesFit /\ StopFits /\ UsedRowsFit /\ StoppedIsConfirmed
  BY DEF RuntimesFit, StopFits, UsedRowsFit, StoppedIsConfirmed
<1>2. PassSpares
  BY DEF PassSpares, Doomed, NoSweep
<1>3. QED
  BY <1>1, <1>2, InitLedger DEF LeaseInv

\* Only a start whose row cannot be written leaves a runtime without its row.
LEMMA RuntimesStep ==
  ASSUME LeaseInv, Next
  PROVE  RuntimesFit' /\ StopFits'
<1> USE DEF LeaseInv, LedgerInv, backend
<1>1. ASSUME Looks PROVE UNCHANGED <<row, runtime, op, unwritten>>
  BY <1>1, LooksOnly DEF history
<1>2. ASSUME NEW w \in Webs, Start(w) PROVE RuntimesFit' /\ StopFits'
  BY <1>2, Apart DEF Start, RuntimesFit, StopFits, history
<1>3. ASSUME StartSaves PROVE RuntimesFit' /\ StopFits'
  <2>1. op \in Operation /\ op.web \in Webs /\ op.pid \in Browsers
    BY <1>3 DEF StartSaves, TypeOK, Operation
  <2>2. PICK r \in Row : r.pid = op.pid /\ row' = [row EXCEPT ![op.web] = r]
    BY <1>3, <2>1, <1>3 DEF StartSaves, TypeOK, Row
  <2>3. op'.at = "saved" /\ runtime' = [runtime EXCEPT ![op.web] = op.pid]
    BY <1>3, <2>1 DEF StartSaves, Operation
  <2>4. unwritten' = unwritten
    BY <1>3 DEF StartSaves, history
  <2>5. QED
    BY <2>1, <2>2, <2>3, <2>4, Apart DEF RuntimesFit, StopFits, TypeOK
<1>11. ASSUME StartUnwritten PROVE RuntimesFit' /\ StopFits'
  BY <1>11 DEF StartUnwritten, RuntimesFit, StopFits, TypeOK, Operation
<1>4. ASSUME \/ StartReturns \/ StartFails \/ StartUndone
             \/ StopConfirmed \/ StopRefused \/ StopUnwritten
      PROVE  RuntimesFit' /\ StopFits'
  <2>1. op \in Operation /\ op.web \in Webs
    BY <1>4 DEF TypeOK, Operation, StartReturns, StartFails, StartUndone, StopConfirmed,
                StopRefused, StopUnwritten
  <2>2. /\ runtime' = runtime
        /\ op' = None \/ op'.at = "undoing"
    BY <1>4, <2>1 DEF StartReturns, StartFails, StartUndone, StopConfirmed, StopRefused,
                      StopUnwritten, Operation
  <2>5. \A w \in Webs : runtime[w] # None /\ runtime[w] \in unwritten => runtime[w] \in unwritten'
    <3>1. ASSUME NEW w \in Webs, runtime[w] # None, runtime[w] = op.pid,
                 op.at = "terminating"
          PROVE  FALSE
      BY <2>1, <3>1, Apart DEF OpFits, RowsFit
    <3>2. CASE StopConfirmed \/ StopRefused
      BY <3>1, <3>2 DEF StopConfirmed, StopRefused, Marked
    <3>3. CASE ~(StopConfirmed \/ StopRefused)
      BY <1>4, <3>3 DEF StartReturns, StartFails, StartUndone, StopUnwritten, history
    <3>4. QED
      BY <3>2, <3>3
  <2>3. \A w \in Webs : row[w] # None => row'[w] # None /\ row'[w].pid = row[w].pid
    <3>1. ASSUME StartReturns
          PROVE  \A w \in Webs : row[w] # None => row'[w] # None /\ row'[w].pid = row[w].pid
      BY <2>1, <3>1, Apart DEF StartReturns, TypeOK, Row
    <3>2. ASSUME NEW to \in {"stopped", "termination_failed"}, Marked(to)
          PROVE  \A w \in Webs : row[w] # None => row'[w] # None /\ row'[w].pid = row[w].pid
      BY <2>1, <3>2, Apart DEF Marked, TypeOK, Row
    <3>3. QED
      BY <1>4, <3>1, <3>2 DEF StartFails, StartUndone, StopConfirmed, StopRefused, StopUnwritten
  <2>4. QED
    BY <2>2, <2>3, <2>5 DEF RuntimesFit, StopFits
<1>5. ASSUME NEW w \in Webs, Stop(w) PROVE RuntimesFit' /\ StopFits'
  BY <1>5, Apart DEF Stop, RuntimesFit, StopFits, TypeOK, history
<1>6. ASSUME Crash PROVE RuntimesFit' /\ StopFits'
  BY <1>6 DEF Crash, RuntimesFit, StopFits
<1>7. ASSUME NEW k \in Sweepers, Records(k) PROVE RuntimesFit' /\ StopFits'
  <2>1. \A w \in Webs : row[w] # None => row'[w] # None /\ row'[w].pid = row[w].pid
    BY <1>7, Apart DEF Records, TypeOK, Row
  <2>2. QED
    BY <1>7, <2>1 DEF Records, RuntimesFit, StopFits, TypeOK, Operation, history
<1>8. ASSUME Boot \/ Serve \/ (\E k \in Sweepers : Terminates(k)) \/ Ages \/ SessionEnds
      PROVE  UNCHANGED <<row, runtime, op, unwritten>>
  BY <1>8 DEF Boot, Serve, Terminates, Ages, SessionEnds, history
<1>9. UNCHANGED <<row, runtime, op, unwritten>> => RuntimesFit' /\ StopFits'
  BY DEF RuntimesFit, StopFits
<1>10. QED
  BY <1>1, <1>2, <1>3, <1>4, <1>5, <1>6, <1>7, <1>8, <1>9, <1>11, Steps

\* The row of a browser in use goes on saying so: a stop takes the runtime away first, and
\* what a pass writes down was out of use when the pass released it.
LEMMA UsedRowsStep ==
  ASSUME LeaseInv, Next
  PROVE  UsedRowsFit'
<1> USE DEF LeaseInv, LedgerInv, backend
<1> SUFFICES ASSUME NEW w \in Webs, NEW p, runtime'[w] = p, p # None, ~Spent(p)'
             PROVE  /\ row'[w].status = "connected"
                    /\ row'[w].since = p \/ (op' # None /\ op'.at = "saved" /\ op'.web = w)
  BY DEF UsedRowsFit, Spent, InUse
<1>1. ASSUME runtime[w] = p
      PROVE  /\ p \in Born /\ ~Spent(p)
             /\ row[w] # None /\ row[w].pid = p /\ row[w].status = "connected"
             /\ row[w].since = p \/ (op # None /\ op.at = "saved" /\ op.web = w)
  <2>1. p \in Born
    BY <1>1, BornAreBrowsers DEF TypeOK, RowsFit
  <2>2. ~Spent(p)
    BY <2>1, Stays
  <2>3. p \notin unwritten
    BY <2>2 DEF Spent
  <2>4. QED
    BY <1>1, <2>1, <2>2, <2>3 DEF RuntimesFit, UsedRowsFit
<1>2. CASE StartSaves
  <2>1. op \in Operation /\ op.web \in Webs /\ op.pid \in Browsers
    BY <1>2 DEF StartSaves, TypeOK, Operation
  <2>2. CASE op.web = w
    BY <1>2, <2>1, <2>2, Apart DEF StartSaves, TypeOK, Row, Operation
  <2>3. CASE op.web # w
    BY <1>1, <1>2, <2>1, <2>3 DEF StartSaves, TypeOK
  <2>4. QED
    BY <2>2, <2>3
<1>3. CASE StartReturns
  BY <1>1, <1>3 DEF StartReturns, OpFits, TypeOK, Operation, Row
<1>4. CASE StopConfirmed \/ StopRefused
  BY <1>1, <1>4 DEF StopConfirmed, StopRefused, Marked, OpFits, TypeOK, Operation
<1>5. CASE StartFails \/ StartUndone \/ StopUnwritten \/ \E v \in Webs : Start(v)
  BY <1>1, <1>5 DEF StartFails, StartUndone, StopUnwritten, Start
<1>11. CASE StartUnwritten
  <2>1. op.web \in Webs /\ p \notin unwritten'
    BY <1>11 DEF StartUnwritten, TypeOK, Operation, Spent
  <2>2. op.web # w /\ runtime[w] = p /\ row' = row
    BY <1>11, <2>1 DEF StartUnwritten, TypeOK
  <2>3. QED
    BY <1>1, <1>11, <2>2 DEF StartUnwritten
<1>6. CASE \E v \in Webs : Stop(v)
  BY <1>1, <1>6 DEF Stop, TypeOK
<1>7. CASE Crash
  BY <1>7 DEF Crash
<1>8. CASE \E k \in Sweepers : Records(k)
  BY <1>1, <1>8 DEF Records, PassSpares, Doomed, TypeOK, Row
<1>9. CASE Looks \/ Boot \/ Serve \/ (\E k \in Sweepers : Terminates(k)) \/ Ages \/ SessionEnds
  <2>1. UNCHANGED <<row, runtime, op>>
    BY <1>9, LooksOnly DEF Boot, Serve, Terminates, Ages, SessionEnds
  <2>2. QED
    BY <1>1, <2>1
<1>10. QED
  BY <1>2, <1>3, <1>4, <1>5, <1>6, <1>7, <1>8, <1>9, <1>11, Steps

\* A pass releases what its second snapshot still called an orphan, and it stays one.
LEMMA PassStep ==
  ASSUME LeaseInv, Next
  PROVE  PassSpares'
<1> USE DEF LeaseInv, LedgerInv
<1>1. SUFFICES ASSUME NEW j \in Sweepers, NEW p \in Browsers, p \in Doomed(j)'
               PROVE  p \in Born /\ Spent(p)
  <2>1. \A j \in Sweepers, p \in Browsers : p \in Doomed(j)' => p \in Born /\ Spent(p)
    BY <1>1
  <2>2. \A j \in Sweepers : Doomed(j)' \subseteq Browsers
    BY DEF Doomed
  <2>3. \A j \in Sweepers, p \in Browsers : p \in Doomed(j)' => Spent(p)'
    BY <2>1, Stays
  <2>4. QED
    BY <2>2, <2>3 DEF PassSpares
<1>2. ASSUME p \in Doomed(j) PROVE p \in Born /\ Spent(p)
  BY <1>2 DEF PassSpares, PassFits, Doomed
<1>3. sweep[j] \in Pass /\ (p \in sweep[j].orphans => p \in Born)
  BY DEF TypeOK, Pass, PassFits
<1>4. ASSUME sweep'[j] = sweep[j] PROVE p \in Born /\ Spent(p)
  BY <1>1, <1>2, <1>4 DEF Doomed
<1>5. ASSUME sweep'[j].at \notin {"releasing", "recording"} PROVE FALSE
  BY <1>1, <1>5 DEF Doomed
<1>6. ASSUME NEW k \in Sweepers,
             Lists(k) \/ Judges(k) \/ Ends(k) \/ PassFails(k)
      PROVE  p \in Born /\ Spent(p)
  <2>1. PICK s : /\ sweep' = [sweep EXCEPT ![k] = s]
                 /\ s.at \in {"idle", "judging", "confirming"}
    <3>1. NoSweep.at = "idle"
      BY DEF NoSweep
    <3>2. \A found : [NoSweep EXCEPT !.at = "judging", !.found = found].at = "judging"
      BY DEF NoSweep
    <3>3. \A orphans :
            [NoSweep EXCEPT !.at = "confirming", !.orphans = orphans].at = "confirming"
      BY DEF NoSweep
    <3>4. CASE Lists(k)
      BY <3>2, <3>4 DEF Lists, Sweeping
    <3>5. CASE Judges(k)
      BY <3>1, <3>3, <3>5 DEF Judges, Sweeping
    <3>6. CASE Ends(k) \/ PassFails(k)
      BY <3>1, <3>6 DEF Ends, PassFails, Sweeping
    <3>7. QED
      BY <1>6, <3>4, <3>5, <3>6
  <2>2. sweep'[j] = sweep[j] \/ sweep'[j] = s
    BY <2>1 DEF TypeOK
  <2>3. QED
    BY <1>4, <1>5, <2>1, <2>2
<1>7. ASSUME WorkerStarts \/ WorkerDies PROVE p \in Born /\ Spent(p)
  <2>1. PICK s : /\ sweep' = [sweep EXCEPT !["worker"] = s]
                 /\ s.at \in {"idle", "listing"}
    BY <1>7 DEF WorkerStarts, WorkerDies, Sweeping, NoSweep
  <2>2. sweep'[j] = sweep[j] \/ sweep'[j] = s
    BY <2>1 DEF TypeOK
  <2>3. QED
    BY <1>4, <1>5, <2>1, <2>2
<1>8. ASSUME NEW k \in Sweepers, Confirms(k) PROVE p \in Born /\ Spent(p)
  <2>1. CASE j = k
    <3>1. /\ sweep'[j].at = "releasing"
          /\ sweep'[j].orphans = {q \in sweep[j].orphans : Orphaned(q)}
      BY <1>3, <1>8, <2>1 DEF Confirms, Sweeping, TypeOK, Pass
    <3>2. QED
      BY <1>1, <1>3, <3>1, OrphansAreSpent DEF Doomed
  <2>2. CASE j # k
    BY <1>4, <1>8, <2>2 DEF Confirms, Sweeping, TypeOK
  <2>3. QED
    BY <2>1, <2>2
<1>9. ASSUME NEW k \in Sweepers, Terminates(k) PROVE p \in Born /\ Spent(p)
  <2>1. CASE j = k
    <3> DEFINE Next1(q) == [sweep[j] EXCEPT !.orphans = @ \ {q}, !.budget = @ - 1]
               Next2(q) == [Next1(q) EXCEPT !.at = "recording", !.target = q]
    <3>0. PICK q \in sweep[j].orphans : Sweeping(j, Next1(q)) \/ Sweeping(j, Next2(q))
      BY <1>9, <2>1 DEF Terminates
    <3>1. /\ sweep'[j].orphans = sweep[j].orphans \ {q}
          /\ sweep'[j].at = "releasing" \/ sweep'[j].target = q
      <4>1. sweep'[j] = Next1(q) \/ sweep'[j] = Next2(q)
        BY <3>0 DEF Sweeping, TypeOK
      <4>2. sweep[j].at = "releasing"
        BY <1>9, <2>1 DEF Terminates
      <4>3. QED
        BY <1>3, <4>1, <4>2 DEF Pass
    <3>2. p \in sweep[j].orphans /\ sweep[j].at = "releasing"
      <4> HIDE DEF Next1, Next2
      <4> QED
        BY <1>1, <1>9, <2>1, <3>0, <3>1 DEF Doomed, Terminates
    <3>3. QED
      BY <1>2, <3>2 DEF Doomed
  <2>2. CASE j # k
    BY <1>4, <1>9, <2>2 DEF Terminates, Sweeping, TypeOK
  <2>3. QED
    BY <2>1, <2>2
<1>10. ASSUME NEW k \in Sweepers, Records(k) PROVE p \in Born /\ Spent(p)
  <2>1. CASE j = k
    <3>1. /\ sweep'[j].orphans = sweep[j].orphans /\ sweep'[j].at = "releasing"
          /\ sweep[j].at = "recording"
      BY <1>3, <1>10, <2>1 DEF Records, Sweeping, TypeOK, Pass
    <3>2. QED
      BY <1>1, <1>2, <3>1 DEF Doomed
  <2>2. CASE j # k
    BY <1>4, <1>10, <2>2 DEF Records, Sweeping, TypeOK
  <2>3. QED
    BY <2>1, <2>2
<1>11. ASSUME Crash \/ Boot \/ Serve PROVE p \in Born /\ Spent(p)
  <2>1. sweep'[j] = sweep[j] \/ sweep'[j].at \in {"idle", "listing"}
    BY <1>3, <1>11 DEF Crash, Boot, Serve, TypeOK, Pass, NoSweep
  <2>2. QED
    BY <1>4, <1>5, <2>1
<1>12. ASSUME \/ \E w \in Webs : Start(w) \/ Stop(w)
              \/ StartSaves \/ StartReturns \/ StartUnwritten \/ StartFails \/ StartUndone
              \/ StopConfirmed \/ StopRefused \/ StopUnwritten \/ Ages \/ SessionEnds
       PROVE  p \in Born /\ Spent(p)
  BY <1>4, <1>12 DEF Start, Stop, StartSaves, StartReturns, StartUnwritten, StartFails,
                     StartUndone, StopConfirmed, StopRefused, StopUnwritten, Ages, SessionEnds
<1>13. QED
  BY <1>6, <1>7, <1>8, <1>9, <1>10, <1>11, <1>12, Steps DEF Looks

\* Whoever writes "stopped" writes it of a session whose end the provider has confirmed, or
\* stops a browser without a row of its own.
LEMMA StoppedStep ==
  ASSUME LeaseInv, Next
  PROVE  StoppedIsConfirmed'
<1> USE DEF LeaseInv, LedgerInv
<1> DEFINE Fine(w) == status'[row'[w].pid] = "ended" \/ Shadowed(w)'
<1> SUFFICES ASSUME NEW w \in Webs, row'[w] # None, row'[w].status = "stopped"
             PROVE  Fine(w)
  BY DEF StoppedIsConfirmed
<1>0. ASSUME row[w] # None, row'[w].pid = row[w].pid, Shadowed(w) PROVE Shadowed(w)'
  <2>1. PICK q \in unwritten : owner[q] = w /\ q > row[w].pid
    BY <1>0 DEF Shadowed
  <2>2. owner'[q] = w
    BY <2>1, Stays
  <2>3. q \in unwritten'
    <3>1. ASSUME StopConfirmed \/ StopRefused, q = op.pid, row[op.web] # None,
                 row[op.web].pid = op.pid
          PROVE  FALSE
      <4>1. op # None /\ op.web = w
        BY <2>1, <3>1 DEF OpFits, StopConfirmed, StopRefused
      <4>2. q \in Nat
        BY <2>1, BornAreBrowsers DEF Born
      <4>3. row[w].pid = q
        BY <3>1, <4>1
      <4>4. QED
        BY <2>1, <4>2, <4>3
    <3>2. CASE StopConfirmed \/ StopRefused
      BY <2>1, <3>1, <3>2 DEF StopConfirmed, StopRefused, Marked
    <3>3. CASE StartUnwritten \/ StopUnwritten
      BY <2>1, <3>3 DEF StartUnwritten, StopUnwritten
    <3>4. CASE ~(\/ StopConfirmed \/ StopRefused \/ StartUnwritten \/ StopUnwritten)
      BY <2>1, <3>4, Steps, LooksOnly DEF history, Start, Stop, StartSaves, StartReturns,
         StartFails, StartUndone, Crash, Boot, Serve, Terminates, Records, Ages, SessionEnds
    <3>5. QED
      BY <3>2, <3>3, <3>4
  <2>4. QED
    BY <1>0, <2>1, <2>2, <2>3 DEF Shadowed
<1>1. ASSUME row'[w] = row[w] PROVE Fine(w)
  <2>1. row[w].pid \in Born
    BY <1>1, BornAreBrowsers DEF RowsFit, TypeOK, Row
  <2>2. QED
    BY <1>0, <1>1, <2>1, Stays DEF StoppedIsConfirmed
<1>2. CASE StartSaves \/ StartReturns
  <2>1. op \in Operation /\ op.web \in Webs /\ (op.at = "saved" => row[op.web] \in Row)
    BY <1>2 DEF StartSaves, StartReturns, TypeOK, Operation, OpFits
  <2>2. row'[op.web] # row[op.web] /\ row'[op.web] # None => row'[op.web].status = "connected"
    BY <1>2, <2>1 DEF StartSaves, StartReturns, TypeOK, Row
  <2>3. \A v \in Webs : v # op.web => row'[v] = row[v]
    BY <1>2, <2>1 DEF StartSaves, StartReturns, TypeOK
  <2>4. QED
    BY <1>1, <2>2, <2>3
<1>3. CASE StopConfirmed \/ StopRefused
  <2>1. op \in Operation /\ op.web \in Webs /\ op.pid \in Browsers
    BY <1>3 DEF StopConfirmed, StopRefused, TypeOK, Operation
  <2>2. CASE w = op.web /\ row[w] # None
    <3>1. StopConfirmed /\ row'[w].pid = row[w].pid
      BY <1>3, <2>1, <2>2 DEF StopConfirmed, StopRefused, Marked, TypeOK, Row
    <3>2. status'[op.pid] = "ended"
      BY <2>1, <3>1 DEF StopConfirmed, TypeOK
    <3>3. CASE row[w].pid = op.pid
      BY <3>1, <3>2, <3>3
    <3>4. CASE row[w].pid # op.pid
      <4>1. op.pid \in unwritten /\ op.pid \in unwritten' /\ op # None
        BY <1>3, <2>2, <3>1, <3>4 DEF StopFits, StopConfirmed, Marked
      <4>2. owner'[op.pid] = w
        BY <2>2, <4>1, Stays DEF OpFits
      <4>3. row[w].pid <= op.pid /\ row[w].pid \in Nat /\ op.pid \in Nat
        BY <2>1, <2>2, <4>1 DEF OpFits, TypeOK, Row, Browsers
      <4>4. QED
        BY <3>1, <3>4, <4>1, <4>2, <4>3 DEF Shadowed
    <3>5. QED
      BY <3>3, <3>4
  <2>3. CASE w # op.web \/ row[w] = None
    BY <1>1, <1>3, <2>1, <2>3 DEF StopConfirmed, StopRefused, Marked, TypeOK
  <2>4. QED
    BY <2>2, <2>3
<1>4. CASE \E k \in Sweepers : Records(k)
  <2>1. PICK k \in Sweepers : Records(k)
    BY <1>4
  <2>2. CASE row[w] # None /\ row[w].pid = sweep[k].target /\ row' # row
    <3>1. row'[w].pid = sweep[k].target
      BY <2>1, <2>2 DEF Records, TypeOK, Row
    <3>2. QED
      BY <2>1, <3>1 DEF Records, PassFits, provider
  <2>3. CASE ~(row[w] # None /\ row[w].pid = sweep[k].target /\ row' # row)
    BY <1>1, <2>1, <2>3 DEF Records
  <2>4. QED
    BY <2>2, <2>3
<1>5. CASE \/ Looks \/ StartUnwritten \/ StartFails \/ StartUndone \/ StopUnwritten
           \/ (\E v \in Webs : Start(v) \/ Stop(v))
           \/ Crash \/ Boot \/ Serve \/ (\E k \in Sweepers : Terminates(k))
           \/ Ages \/ SessionEnds
  BY <1>1, <1>5, LooksOnly DEF StartUnwritten, StartFails, StartUndone, StopUnwritten, Start,
     Stop, Crash, Boot, Serve, Terminates, Ages, SessionEnds
<1>6. QED
  BY <1>2, <1>3, <1>4, <1>5, Steps

\* A browser nobody holds any more is claimed by no row: whoever lets go of one has
\* confirmed its end, or has marked the row, or never wrote one.
LEMMA LeaksStep ==
  ASSUME LedgerInv, LeaksAreOrphans, Next
  PROVE  LeaksAreOrphans'
<1> USE DEF LedgerInv, provider, backend, history
<1> SUFFICES ASSUME NEW p \in (survivors' + 1)..born', status'[p] = "running", Claimed(p)',
                    p \notin unwritten'
             PROVE  Held(p)'
  BY DEF LeaksAreOrphans
<1>1. born \in Nat /\ survivors \in Nat /\ MaxBrowsers \in Nat
  BY BornAreBrowsers, Apart DEF TypeOK
<1>2. CASE Crash
  BY <1>1, <1>2 DEF Crash
<1>3. CASE \E w \in Webs : Start(w)
  <2>1. PICK w \in Webs : Start(w)
    BY <1>3
  <2>2. /\ born' = born + 1 /\ born' \in Browsers /\ survivors' = survivors
        /\ row' = row /\ runtime' = runtime /\ op = None
    BY <1>1, <2>1 DEF Start, TypeOK, Browsers
  <2>3. p \in Browsers /\ (p \in Born \/ p = born')
    BY <1>1, <2>2 DEF Browsers, Born
  <2>4. CASE p = born'
    <3>1. owner'[p] = w /\ row[w] # None /\ row[w].pid = p
      BY <2>1, <2>2, <2>3, <2>4 DEF Start, TypeOK, Claimed
    <3>2. QED
      BY <1>1, <2>2, <2>4, <3>1 DEF RowsFit
  <2>5. CASE p \in Born
    <3>1. owner'[p] = owner[p] /\ status'[p] = status[p]
      BY <1>1, <2>1, <2>2, <2>3, <2>5 DEF Start, TypeOK, Born
    <3>2. p \in (survivors + 1)..born /\ Claimed(p)
      BY <1>1, <2>2, <2>3, <2>5, <3>1 DEF Claimed, Born
    <3>3. Held(p)
      BY <2>1, <3>1, <3>2 DEF LeaksAreOrphans, Start
    <3>4. QED
      BY <2>2, <3>1, <3>3 DEF Held
  <2>6. QED
    BY <2>3, <2>4, <2>5
<1> SUFFICES ASSUME ~Crash, ~\E w \in Webs : Start(w)
             PROVE  Held(p)'
  BY <1>2, <1>3
<1>4. UNCHANGED <<born, owner, survivors>>
  BY Steps, LooksOnly DEF StartSaves, StartReturns, StartUnwritten, StartFails, StartUndone, StopConfirmed,
     StopRefused, StopUnwritten, Stop, Boot, Serve, Terminates, Records, Ages, SessionEnds
<1>5. p \in Born /\ p \in Browsers /\ owner[p] \in Webs /\ p \in (survivors + 1)..born
  BY <1>1, <1>4, BornAreBrowsers DEF Born, BornFits
<1>6. status[p] = "running"
  BY <1>4, <1>5, Steps, LooksOnly DEF StartSaves, StartReturns, StartUnwritten, StartFails,
     StartUndone, StopConfirmed, StopRefused, StopUnwritten, Stop, Boot, Serve, Terminates,
     Records, Ages, SessionEnds, Release, TypeOK
<1> DEFINE w == owner[p]
<1>8. w \in Webs /\ row'[w] # None /\ row'[w].pid = p /\ row'[w].status = "connected"
  BY <1>4, <1>5 DEF Claimed
<1>21. p \notin unwritten
  <2>1. CASE StopConfirmed \/ StopRefused
    <3>1. op \in Operation /\ op.web \in Webs
      BY <2>1 DEF StopConfirmed, StopRefused, TypeOK, Operation
    <3>2. CASE op.web = w
      BY <1>8, <2>1, <3>1, <3>2 DEF StopConfirmed, StopRefused, Marked, TypeOK, Row
    <3>3. CASE op.web # w
      BY <2>1, <3>3 DEF StopConfirmed, StopRefused, Marked, OpFits
    <3>4. QED
      BY <3>2, <3>3
  <2>2. CASE StartUnwritten \/ StopUnwritten
    BY <2>2 DEF StartUnwritten, StopUnwritten
  <2>3. CASE ~(StopConfirmed \/ StopRefused \/ StartUnwritten \/ StopUnwritten)
    BY <2>3, Steps, LooksOnly DEF StartSaves, StartReturns, StartFails, StartUndone, Stop,
       Boot, Serve, Terminates, Records, Ages, SessionEnds
  <2>4. QED
    BY <2>1, <2>2, <2>3
<1>7. Claimed(p) => Held(p)
  BY <1>5, <1>6, <1>21 DEF LeaksAreOrphans
<1>9. ASSUME row'[w] = row[w], runtime'[w] = runtime[w],
             op # None /\ op.pid = p => op' # None /\ op'.pid = p
      PROVE  Held(p)'
  BY <1>4, <1>7, <1>8, <1>9 DEF Claimed, Held
<1>10. op # None => op \in Operation /\ op.web \in Webs /\ op.pid \in Browsers
  BY DEF TypeOK, Operation
<1>11. op # None /\ op.pid = p => op.web = w
  BY DEF OpFits
<1>12. CASE StartSaves
  <2>1. CASE op.web = w
    <3>1. runtime'[w] = op.pid
      BY <1>8, <1>10, <1>12, <2>1 DEF StartSaves, TypeOK
    <3>2. op.pid = p
      BY <1>8, <1>10, <1>12, <2>1 DEF StartSaves, TypeOK, Row
    <3>3. QED
      BY <1>4, <3>1, <3>2 DEF Held
  <2>2. CASE op.web # w
    <3>1. row'[w] = row[w] /\ runtime'[w] = runtime[w]
      BY <1>8, <1>10, <1>12, <2>2 DEF StartSaves, TypeOK
    <3>2. ~(op # None /\ op.pid = p)
      BY <1>11, <2>2
    <3>3. QED
      BY <1>9, <3>1, <3>2
  <2>3. QED
    BY <2>1, <2>2
<1>13. CASE StartReturns
  <2>1. /\ op # None /\ op.at = "saved" /\ runtime' = runtime
        /\ runtime[op.web] = op.pid /\ row[op.web] \in Row /\ row[op.web].pid = op.pid
    BY <1>10, <1>13 DEF StartReturns, OpFits, TypeOK
  <2>2. CASE op.web = w
    <3>1. row'[w].pid = op.pid
      BY <1>8, <1>10, <1>13, <2>1, <2>2 DEF StartReturns, TypeOK, Row
    <3>2. QED
      BY <1>4, <1>8, <2>1, <2>2, <3>1 DEF Held
  <2>3. CASE op.web # w
    <3>1. row'[w] = row[w]
      BY <1>8, <1>10, <1>13, <2>1, <2>3 DEF StartReturns, TypeOK
    <3>2. QED
      BY <1>9, <1>11, <2>1, <2>3, <3>1
  <2>4. QED
    BY <2>2, <2>3
<1>22. CASE StartUnwritten
  <2>1. op # None /\ op.pid # p /\ row' = row
    BY <1>22 DEF StartUnwritten
  <2>2. CASE op.web = w
    <3>1. op.at = "saved"
      <4>1. CASE op.at = "attaching"
        <5>1. runtime[w] = None /\ Held(p)
          BY <1>7, <1>8, <2>1, <2>2, <4>1 DEF OpFits, Claimed
        <5>2. QED
          BY <1>5, <2>1, <5>1, Apart DEF Held
      <4>2. QED
        BY <1>22, <4>1 DEF StartUnwritten
    <3>2. row[w].pid = op.pid
      BY <2>1, <2>2, <3>1 DEF OpFits
    <3>3. QED
      BY <1>8, <2>1, <3>2
  <2>3. CASE op.web # w
    <3>1. runtime'[w] = runtime[w]
      BY <1>8, <1>10, <1>22, <2>3 DEF StartUnwritten, TypeOK
    <3>2. QED
      BY <1>9, <2>1, <3>1
  <2>4. QED
    BY <2>2, <2>3
<1>23. CASE StopUnwritten
  <2>1. op # None /\ op.pid # p /\ row' = row /\ runtime' = runtime
    BY <1>23 DEF StopUnwritten
  <2>2. QED
    BY <1>9, <2>1
<1>14. CASE StartFails
  <2>1. row' = row /\ runtime' = runtime /\ op' \in Operation /\ op'.pid = op.pid
    BY <1>10, <1>14 DEF StartFails, Operation
  <2>2. QED
    BY <1>9, <2>1, Apart
<1>15. CASE StartUndone
  <2>1. row' = row /\ runtime' = runtime /\ op # None /\ op.at = "undoing"
    BY <1>15 DEF StartUndone
  <2>2. op.pid # p
    BY <1>8, <1>11, <2>1 DEF OpFits
  <2>3. QED
    BY <1>9, <2>1, <2>2
<1>16. CASE StopConfirmed \/ StopRefused
  <2>1. op # None /\ op.at = "terminating" /\ runtime' = runtime
    BY <1>16 DEF StopConfirmed, StopRefused
  <2>2. op.pid # p
    <3>1. CASE StopConfirmed
      BY <1>10, <2>1, <3>1 DEF StopConfirmed, TypeOK
    <3>2. CASE StopRefused
      BY <1>8, <1>10, <1>11, <2>1, <3>2 DEF StopRefused, Marked, TypeOK, Row
    <3>3. QED
      BY <1>16, <3>1, <3>2
  <2>3. op.web # w
    BY <1>8, <1>10, <1>16, <2>1 DEF StopConfirmed, StopRefused, Marked, TypeOK, Row
  <2>4. row'[w] = row[w]
    BY <1>8, <1>10, <1>16, <2>1, <2>3 DEF StopConfirmed, StopRefused, Marked, TypeOK
  <2>5. QED
    BY <1>9, <2>1, <2>2, <2>4
<1>17. CASE \E v \in Webs : Stop(v)
  <2>1. PICK v \in Webs : Stop(v)
    BY <1>17
  <2>2. PICK q \in Browsers :
          /\ q = runtime[v] \/ runtime[v] = None
          /\ op' = [do |-> "stop", web |-> v, pid |-> q, at |-> "terminating"]
    BY <2>1 DEF Stop
  <2>3. op' \in Operation /\ op'.pid = q /\ row' = row /\ op = None
    BY <2>1, <2>2 DEF Stop, Operation
  <2>4. CASE v = w /\ runtime[w] = p
    BY <1>5, <2>2, <2>3, <2>4, Apart DEF Held
  <2>5. CASE ~(v = w /\ runtime[w] = p)
    <3>1. Held(p)
      BY <1>7, <1>8, <2>3 DEF Claimed
    <3>2. runtime[w] = p /\ v # w
      BY <2>3, <2>5, <3>1 DEF Held
    <3>3. runtime'[w] = p
      BY <1>8, <2>1, <3>2 DEF Stop, TypeOK
    <3>4. QED
      BY <1>4, <3>3 DEF Held
  <2>6. QED
    BY <2>4, <2>5
<1>18. CASE \E k \in Sweepers : Records(k)
  <2>1. row'[w] = row[w] \/ row'[w].status = "stopped"
    BY <1>8, <1>18 DEF Records, TypeOK, Row
  <2>2. QED
    BY <1>8, <1>9, <1>18, <2>1 DEF Records
<1>19. CASE \/ Looks \/ Boot \/ Serve \/ (\E k \in Sweepers : Terminates(k))
            \/ Ages \/ SessionEnds
  BY <1>9, <1>19, LooksOnly DEF Boot, Serve, Terminates, Ages, SessionEnds
<1>20. QED
  BY <1>12, <1>13, <1>14, <1>15, <1>16, <1>17, <1>18, <1>19, <1>22, <1>23, Steps

-----------------------------------------------------------------------------
(* The theorems *)

\* Every step keeps the invariant.
LEMMA StepLease == LeaseInv /\ [Next]_vars => LeaseInv'
<1> SUFFICES ASSUME LeaseInv, [Next]_vars PROVE LeaseInv'
  OBVIOUS
<1>1. LedgerInv'
  BY StepLedger DEF LeaseInv
<1>2. CASE Next
  BY <1>1, <1>2, RuntimesStep, UsedRowsStep, PassStep, StoppedStep DEF LeaseInv
<1>3. CASE UNCHANGED vars
  <2> USE <1>3 DEF vars, provider, backend, history, LeaseInv
  <2>1. RuntimesFit' /\ StopFits' /\ StoppedIsConfirmed'
    BY DEF RuntimesFit, StopFits, StoppedIsConfirmed, Shadowed
  <2>2. UsedRowsFit' /\ PassSpares'
    BY DEF UsedRowsFit, PassSpares, Doomed, Spent, InUse
  <2>3. QED
    BY <1>1, <2>1, <2>2
<1>4. QED
  BY <1>2, <1>3

\* The invariant holds, whatever fails and whichever write of the controller raises.
THEOREM LeaseInvHolds == Spec => []LeaseInv
<1>1. LeaseInv /\ [Next]_vars => LeaseInv'
  BY StepLease
<1>2. QED
  BY <1>1, InitLease, PTL DEF Spec

\* No row says stopped of a session whose end the provider has not confirmed, whichever of
\* the controller and the two sweeps wrote it, in whatever order, unless a later browser of
\* its web session could not write a row of its own.
THEOREM StoppedHolds == Spec => []StoppedIsConfirmed
<1>1. LeaseInv => StoppedIsConfirmed
  BY DEF LeaseInv
<1>2. Spec => []LeaseInv
  BY LeaseInvHolds
<1>3. QED
  BY <1>1, <1>2, PTL

\* A browser that leaks is one the next pass can tell from a held one, unless the
\* controller's last write about it raised.
THEOREM LeaksHold == Spec => []LeaksAreOrphans
<1>1. Init => LeaksAreOrphans
  BY Apart DEF Init, LeaksAreOrphans
<1>2. LedgerInv /\ LeaksAreOrphans /\ [Next]_vars => LeaksAreOrphans'
  <2>1. CASE UNCHANGED vars
    BY <2>1 DEF vars, provider, backend, history, LeaksAreOrphans, Held, Claimed
  <2>2. QED
    BY <2>1, LeaksStep
<1>3. QED
  BY <1>1, <1>2, LedgerInvHolds, PTL DEF Spec

\* No pass releases a browser in use whose start kept within its grace and wrote its row,
\* however old its list and its two snapshots are by then.
THEOREM UsedStays == Spec => ReleasesUnused
<1> DEFINE Spares ==
      \A k \in Sweepers, p \in Browsers :
        sweep'[k].at = "recording" /\ sweep'[k].target = p /\ sweep[k].at = "releasing" =>
          ~InUse(p) \/ age[p] >= Expired \/ p \in slow \cup unwritten
<1>1. LeaseInv /\ [Next]_vars => [Spares]_vars
  <2> SUFFICES ASSUME LeaseInv, Next, NEW k \in Sweepers, NEW p \in Browsers,
                      sweep'[k].at = "recording", sweep'[k].target = p,
                      sweep[k].at = "releasing"
               PROVE  Spent(p)
    BY DEF Spent
  <2>1. sweep[k] \in Pass
    BY DEF LeaseInv, LedgerInv, TypeOK, Pass
  <2>2. p \in sweep[k].orphans
    <3>1. CASE \E j \in Sweepers : Terminates(j)
      <4>1. PICK j \in Sweepers : Terminates(j)
        BY <3>1
      <4>2. j = k
        BY <4>1 DEF Terminates, Sweeping, LeaseInv, LedgerInv, TypeOK
      <4> DEFINE Next1(q) == [sweep[k] EXCEPT !.orphans = @ \ {q}, !.budget = @ - 1]
                 Next2(q) == [Next1(q) EXCEPT !.at = "recording", !.target = q]
      <4>3. PICK q \in sweep[k].orphans : Sweeping(k, Next1(q)) \/ Sweeping(k, Next2(q))
        BY <4>1, <4>2 DEF Terminates
      <4>4. sweep'[k] = Next1(q) \/ sweep'[k] = Next2(q)
        BY <4>3 DEF Sweeping, LeaseInv, LedgerInv, TypeOK
      <4>5. Next1(q).at = "releasing" /\ Next2(q).target = q
        BY <2>1 DEF Pass
      <4> HIDE DEF Next1, Next2
      <4>6. QED
        BY <4>4, <4>5
    <3>2. CASE ~\E j \in Sweepers : Terminates(j)
      <4>1. CASE Looks
        <5>1. PICK j, s : /\ sweep' = [sweep EXCEPT ![j] = s]
                          /\ j = k => s.at # "recording"
          <6>1. NoSweep.at = "idle" /\ [NoSweep EXCEPT !.at = "listing"].at = "listing"
            BY DEF NoSweep
          <6>2. \A found : [NoSweep EXCEPT !.at = "judging", !.found = found].at = "judging"
            BY DEF NoSweep
          <6>3. \A orphans :
                  [NoSweep EXCEPT !.at = "confirming", !.orphans = orphans].at = "confirming"
            BY DEF NoSweep
          <6>4. CASE WorkerStarts \/ WorkerDies
            BY <6>1, <6>4 DEF WorkerStarts, WorkerDies, Sweeping
          <6>5. ASSUME NEW j \in Sweepers, Confirms(j) PROVE j # k
            BY <2>1, <6>5 DEF Confirms, Sweeping, Pass, LeaseInv, LedgerInv, TypeOK
          <6>6. ASSUME NEW j \in Sweepers, Lists(j)
                PROVE  \E s : sweep' = [sweep EXCEPT ![j] = s] /\ s.at = "judging"
            BY <6>2, <6>6 DEF Lists, Sweeping
          <6>7. ASSUME NEW j \in Sweepers, Judges(j)
                PROVE  \E s : /\ sweep' = [sweep EXCEPT ![j] = s]
                             /\ s.at \in {"idle", "confirming"}
            BY <6>1, <6>3, <6>7 DEF Judges, Sweeping
          <6>8. CASE \E j \in Sweepers : Ends(j) \/ PassFails(j)
            BY <6>1, <6>8 DEF Ends, PassFails, Sweeping
          <6>9. CASE \E j \in Sweepers : Confirms(j)
            BY <6>5, <6>9 DEF Confirms, Sweeping
          <6>10. QED
            BY <4>1, <6>4, <6>6, <6>7, <6>8, <6>9 DEF Looks
        <5>2. QED
          BY <5>1 DEF LeaseInv, LedgerInv, TypeOK
      <4>2. CASE \E j \in Sweepers : Records(j)
        BY <2>1, <4>2 DEF Records, Sweeping, Pass, LeaseInv, LedgerInv, TypeOK
      <4>3. CASE Crash \/ Boot \/ Serve
        BY <2>1, <4>3 DEF Crash, Boot, Serve, NoSweep, Pass, LeaseInv, LedgerInv, TypeOK
      <4>4. CASE \/ \E w \in Webs : Start(w) \/ Stop(w)
                 \/ StartSaves \/ StartReturns \/ StartUnwritten \/ StartFails \/ StartUndone
                 \/ StopConfirmed \/ StopRefused \/ StopUnwritten \/ Ages \/ SessionEnds
        BY <4>4 DEF Start, Stop, StartSaves, StartReturns, StartUnwritten, StartFails,
                    StartUndone, StopConfirmed, StopRefused, StopUnwritten, Ages, SessionEnds
      <4>5. QED
        BY <3>2, <4>1, <4>2, <4>3, <4>4, Steps
    <3>3. QED
      BY <3>1, <3>2
  <2>3. QED
    BY <2>2 DEF LeaseInv, PassSpares, Doomed
<1>2. Spec => []LeaseInv
  BY LeaseInvHolds
<1>3. QED
  BY <1>1, <1>2, PTL DEF Spec, ReleasesUnused
===============================================================================
