-------------------------- MODULE BrowserLeaseProps --------------------------
(* What must hold of managed browsers and of the service that reconciles them.  Any write  *)
(* of the controller may raise; what holds then all the same names the browsers it was     *)
(* about (unwritten).                                                                      *)
EXTENDS BrowserLease

\* The backend has browser p in use, or is about to.
InUse(p) == runtime[owner[p]] = p \/ (op # None /\ op.do = "start" /\ op.pid = p)

\* A pass never releases a browser that is in use and within the provider's time, except
\* one whose start outlasted startup_grace_seconds or could not write its row: not with its
\* list of sessions, its two snapshots and a pass of the other sweeper all being out of date.
ReleasesUnused ==
  [][\A k \in Sweepers, p \in Browsers :
       sweep'[k].at = "recording" /\ sweep'[k].target = p /\ sweep[k].at = "releasing" =>
         ~InUse(p) \/ age[p] >= Expired \/ p \in slow \cup unwritten]_vars

\* No session is marked stopped without the provider's confirmation, whichever party marks
\* it, unless a later browser of the web session has no row of its own: then the stop of
\* that one finds the row of the earlier.
Shadowed(w) == \E p \in unwritten : owner[p] = w /\ p > row[w].pid
StoppedIsConfirmed ==
  \A w \in Webs :
    row[w] # None /\ row[w].status = "stopped" => status[row[w].pid] = "ended" \/ Shadowed(w)

\* Whatever the provider refuses or answers late, a browser this process created and nobody
\* holds is one that the next pass can tell from a held one: no row claims it, except when
\* the controller's last write about it raised.
Held(p) == runtime[owner[p]] = p \/ (op # None /\ op.pid = p)
Claimed(p) == LET r == row[owner[p]] IN r # None /\ r.pid = p /\ r.status = "connected"
LeaksAreOrphans ==
  \A p \in (survivors + 1)..born :
    status[p] = "running" /\ ~Held(p) => ~Claimed(p) \/ p \in unwritten

\* Violated.  "no orphaned session is marked stopped without provider confirmation"
\* (IMPLEMENTATION_PLAN.md:760): the save of a start raises (controller.py:394), and the stop
\* of its browser writes into the row of an earlier one, which may still run.
OrphansAreNotStopped ==
  \A w \in Webs : row[w] # None /\ row[w].status = "stopped" => status[row[w].pid] = "ended"
=============================================================================
