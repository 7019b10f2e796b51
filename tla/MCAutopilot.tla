---------------------------- MODULE MCAutopilot ----------------------------
(* A list page that is drawn in two ways under one key, and a checkout page. *)
EXTENDS AutopilotProps

MCControls == {"name", "row", "pay", "password"}
MCPages == {"list", "redrawn", "refused"}
MCOn == [list |-> {"name", "row", "pay"}, redrawn |-> {"row", "password"},
         refused |-> {"row"}]
MCKey == [list |-> "list", redrawn |-> "list", refused |-> "refused"]
MCPath == [name |-> "input", row |-> "row1", pay |-> "row2", password |-> "input"]
MCLabelClass == [c \in MCControls |-> IF c = "pay" THEN "stops" ELSE "safe"]
MCNamed == [c \in MCControls |-> IF c = "row" THEN "pay" ELSE None]
=============================================================================
