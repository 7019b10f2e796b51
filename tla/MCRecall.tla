------------------------------- MODULE MCRecall -------------------------------
(* Two sessions of one participant. *)
EXTENDS RecallProps

CONSTANTS s1, s2, a1, a2

MCSessions == {s1, s2}
MCTaskOf == [s \in MCSessions |-> s]
OneTask == [s \in MCSessions |-> s1]
===============================================================================
