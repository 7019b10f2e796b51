---------------------------- MODULE MCReminders ----------------------------
(* A participant pays a bill every night at half past midnight, and two nights are in the   *)
(* ledger.  While EverOS answers it knows the routine by its name; else a starter stands for *)
(* it, whose name shares most of its words and is another task.  Moments about the third     *)
(* night: an hour before the reminder shows, an hour before the bill is due, on the day it   *)
(* was last paid, and when a dismissal has lapsed.                                           *)
EXTENDS RemindersProps

CONSTANTS t1, bill, other, billTask, otherTask, pay, light, shop

MCTabs == {t1}
MCConsent == [t \in MCTabs |-> "reminders"]
MCZone == -480
MCNextDue == 2 * 1440 + 30 - MCZone
MCMoments == <<MCNextDue - 180, MCNextDue - 60, MCNextDue + 200>>
MCDueMoments == Tail(MCMoments)
MCFirstStarts == [d \in 1..2 |-> [name |-> bill, at |-> (d - 1) * 1440 + 30 - MCZone,
                                  zone |-> MCZone]]
MCWatched == [task |-> billTask, due |-> MCNextDue]
MCConfirmed == <<bill>>
MCStarters == <<other>>
MCTyped == <<>>
MCWordsOf == [n \in {bill, other} |-> IF n = bill THEN {pay, light} ELSE {pay, light, shop}]
MCTaskOf == [n \in {bill, other} |-> IF n = bill THEN billTask ELSE otherTask]
============================================================================
