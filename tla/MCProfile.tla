------------------------------- MODULE MCProfile -------------------------------
(* Two tabs of one participant set the reading size, and one leaves the caregiver's number *)
(* empty; two earlier ones may have stored both twice.                                     *)
EXTENDS ProfileProps

CONSTANTS u1, u2, e1, e2, size, mobile, large, small, number

MCSetups == {u1, u2}
MCEarlier == {e1, e2}
MCWanted ==
  [u \in MCSetups \cup MCEarlier |->
     CASE u = u1 -> [f \in {size} |-> small]
       [] u = u2 -> [f \in {size, mobile} |-> IF f = size THEN large ELSE Cleared]
       [] OTHER -> [f \in {size, mobile} |-> IF f = size THEN large ELSE number]]
===============================================================================
