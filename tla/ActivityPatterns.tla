--------------------------- MODULE ActivityPatterns ---------------------------
(***************************************************************************)
(* What services/activity_memory.py infers from the starts of a task: a    *)
(* recurrence, when the task is next due, and whether a reminder of it     *)
(* shows now.  Everything here is a function of its arguments.             *)
(*                                                                         *)
(* Moments are minutes UTC; a zone is its offset in minutes, the same all  *)
(* year.  Day 0 is the first of January of a common year, and the next     *)
(* year is common too.  A name is a model value: WordsOf gives its         *)
(* significant terms, TaskOf what is left of it once case and blanks are   *)
(* normalised (the code hashes that).  Starts are in the order of time.    *)
(***************************************************************************)
EXTENDS Integers, Sequences, FiniteSets, TLC

CONSTANTS WordsOf, TaskOf, NoRoutine

Larger(a, b) == IF a > b THEN a ELSE b
Smaller(a, b) == IF a < b THEN a ELSE b

Minutes(days) == days * 1440
LocalDay(start) == (start.at + start.zone) \div 1440
LocalMinute(start) == (start.at + start.zone) % 1440

\* Python's round: to the nearest integer, a half to the even one.
Rounded(num, den) ==
  LET down == num \div den
      twice == 2 * (num % den)
  IN IF twice < den \/ (twice = den /\ down % 2 = 0) THEN down ELSE down + 1

\* Twice the median of a non-empty sequence of numbers.
TwiceMedian(nums) ==
  LET s == SortSeq(nums, <)
      n == Len(s)
  IN IF n % 2 = 1 THEN 2 * s[(n + 1) \div 2] ELSE s[n \div 2] + s[n \div 2 + 1]

-----------------------------------------------------------------------------
(* The calendar: months are counted from the first January. *)

Begins(month) ==
  365 * (month \div 12)
  + <<0, 31, 59, 90, 120, 151, 181, 212, 243, 273, 304, 334>>[(month % 12) + 1]
MonthOf(day) == Cardinality({m \in 1..35 : Begins(m) <= day})
DayOfMonth(day) == day - Begins(MonthOf(day)) + 1

\* The typical day of the month after that of `day`, or its last day.
NextMonthDate(day, typical) ==
  LET next == MonthOf(day) + 1
  IN Begins(next) + Smaller(typical, Begins(next + 1) - Begins(next)) - 1

-----------------------------------------------------------------------------
\* The first start of each local day.
FirstOfEachDay(log) ==
  SelectSeq(log, LAMBDA s : \A i \in DOMAIN log :
                      LocalDay(log[i]) = LocalDay(s) => log[i].at >= s.at)

Gaps(items) == [i \in 1..(Len(items) - 1) |-> items[i + 1].at - items[i].at]

\* The recurrence a median gap (twice it, in minutes) stands for.
RecurrenceOf(gap2) ==
  CASE gap2 <= 2 * Minutes(2) -> "daily"
    [] gap2 >= 2 * Minutes(5) /\ gap2 <= 2 * Minutes(10) -> "weekly"
    [] gap2 >= 2 * Minutes(24) /\ gap2 <= 2 * Minutes(38) -> "monthly"
    [] OTHER -> "none"

IntervalDays(recurrence, gap2) ==
  Larger(CASE recurrence = "daily" -> 1 [] recurrence = "weekly" -> 7 [] OTHER -> 0,
         Rounded(gap2, 2 * 1440))

\* When a task with these first starts of a day is next due.
NextDue(items, recurrence, gap2) ==
  LET last == items[Len(items)]
      InZone(s) == [s EXCEPT !.zone = last.zone]
      typical == Rounded(TwiceMedian([i \in DOMAIN items |-> LocalMinute(items[i])]), 2)
      typicalDay == Rounded(TwiceMedian([i \in DOMAIN items |->
                              DayOfMonth(LocalDay(InZone(items[i])))]), 2)
      date == IF recurrence = "monthly" THEN NextMonthDate(LocalDay(last), typicalDay)
              ELSE LocalDay(last) + IntervalDays(recurrence, gap2)
  IN Minutes(date) + typical - last.zone

\* Mutant of Items: the oldest starts are read instead of the newest.
ItemsOldest(log, task) ==
  LET items == FirstOfEachDay(SelectSeq(log, LAMBDA s : TaskOf[s.name] = task))
  IN SubSeq(items, 1, Smaller(2, Len(items)))

\* The starts of a task, one a day, as list_activities and patterns sort them.
Items(log, task) == FirstOfEachDay(SelectSeq(log, LAMBDA s : TaskOf[s.name] = task))
Kind(items) == IF Len(items) < 2 THEN "none" ELSE RecurrenceOf(TwiceMedian(Gaps(items)))
PatternOf(items) ==
  [task |-> TaskOf[items[1].name], name |-> items[Len(items)].name,
   recurrence |-> Kind(items), due |-> NextDue(items, Kind(items), TwiceMedian(Gaps(items)))]

\* patterns: at most one per task, none without two days or a known rhythm.
Patterns(log) ==
  LET tasks == {TaskOf[log[i].name] : i \in DOMAIN log}
  IN {PatternOf(Items(log, t)) : t \in {u \in tasks : Kind(Items(log, u)) # "none"}}

-----------------------------------------------------------------------------
\* _INTERVALS and _LEADS, in minutes.
Interval(recurrence) ==
  CASE recurrence = "daily" -> Minutes(1)
    [] recurrence = "weekly" -> Minutes(7)
    [] recurrence = "monthly" -> Minutes(30)
Lead(recurrence) ==
  CASE recurrence = "daily" -> 120
    [] recurrence = "weekly" -> Minutes(1)
    [] recurrence = "monthly" -> Minutes(3)

\* The window in which a pattern is worth a reminder.
Timely(pattern, moment) ==
  /\ moment >= pattern.due - Lead(pattern.recurrence)
  /\ moment - pattern.due <= 3 * Interval(pattern.recurrence)

\* How well a routine's name fits a pattern's, as shared of all their words.
Shared(name, other) == Cardinality(WordsOf[name] \cap WordsOf[other])
AllWords(name, other) == Cardinality(WordsOf[name] \cup WordsOf[other])

\* _match_routine: the routine of the same task; else the first of those that
\* share most words with it, if that is half of them or more.
MatchRoutine(pattern, routines) ==
  LET Fits(n, m) == Shared(pattern.name, n) * AllWords(pattern.name, m)
                    >= Shared(pattern.name, m) * AllWords(pattern.name, n)
      same == SelectSeq(routines, LAMBDA n : TaskOf[n] = pattern.task)
      close == SelectSeq(routines, LAMBDA n :
                 /\ 2 * Shared(pattern.name, n) >= AllWords(pattern.name, n)
                 /\ Shared(pattern.name, n) > 0
                 /\ \A i \in DOMAIN routines : Fits(n, routines[i]))
  IN IF same # <<>> THEN Head(same)
     ELSE IF close # <<>> THEN Head(close) ELSE NoRoutine

\* reminders, before the ledger of answers is asked: what is due now and can
\* be started.  A reminder is known by its task and its due moment.
DueNow(log, routines, moment) ==
  {[task |-> p.task, due |-> p.due, routine |-> MatchRoutine(p, routines)] : p \in
     {q \in Patterns(log) : Timely(q, moment) /\ MatchRoutine(q, routines) # NoRoutine}}
=============================================================================
