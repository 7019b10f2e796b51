----------------------------- MODULE ProfileProps -----------------------------
(* What the profile settles to when several tabs write it. *)
EXTENDS Profile

Holds(items, f) == {i.value : i \in InField(items, f)}

\* Two tabs that write at once leave a preference stored twice, but the next write that is
\* alone from its read to its edit, that is not refused for having more than MaxOperations
\* (client.py:293), and whose receipt counts every operation as applied, leaves each of its
\* fields stored once with its value, and a cleared one not at all (client.py:1227).
ProfileHeals ==
  [][\A u \in Setups :
       (At(u, "edit") /\ write[u].seen = profile.items /\ write'[u].status = "updated"
                     /\ write'[u].counted) =>
         \A f \in Fields(u) :
           IF Wanted[u][f] = Cleared THEN InField(profile'.items, f) = {}
           ELSE /\ Cardinality(InField(profile'.items, f)) = 1
                /\ Holds(profile'.items, f) = {Wanted[u][f]}]_profileVars
=============================================================================
