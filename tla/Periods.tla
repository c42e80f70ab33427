------------------------------ MODULE Periods ------------------------------
(***************************************************************************)
(* The dates of the pages: frontend/src/utils/dateUtils.ts, and the period *)
(* rule that server and pages share, backend/src/common/period.helper.ts.  *)
(* A sheet of month m holds the days from the 17th of the month before to  *)
(* the 16th of m, and may be handed in from the 17th to the 23rd of m.     *)
(*                                                                         *)
(* Days and months are numbered from the first of a calendar, so the year  *)
(* is part of the number of a month and "month + 1" needs no wrap.         *)
(***************************************************************************)
EXTENDS Integers

CONSTANTS
    LastMonth,  \* the calendar has the months 1..LastMonth
    First,      \* the number of the first day of each month, and of the one after the last
    Phase       \* how many days after a Sunday day 0 is

ASSUME PeriodsAssumption ==
    /\ LastMonth \in Nat \ {0}
    /\ First \in [1..LastMonth + 1 -> Nat \ {0}]
    /\ \A m \in 1..LastMonth : First[m + 1] - First[m] \in 28..31
    /\ \A m, n \in 1..LastMonth + 1 : m < n => First[m] < First[n]
    /\ Phase \in 0..6

Months == 1..LastMonth
Days == First[1]..First[LastMonth + 1] - 1

MonthOf(d) == CHOOSE m \in Months : d \in First[m]..First[m + 1] - 1
DayOf(d) == d - First[MonthOf(d)] + 1
DayIn(m, n) == First[m] + n - 1

-----------------------------------------------------------------------------
(* The period rule *)

\* The month of the sheet that a day is booked on.
PeriodOf(d) == IF DayOf(d) >= 17 THEN MonthOf(d) + 1 ELSE MonthOf(d)

\* The window in which the server accepts a sheet, and the month it then accepts.
InWindow(d) == DayOf(d) \in 17..23
SubmittableMonth(d) == MonthOf(d)

-----------------------------------------------------------------------------
(* What the pages compute.  A range has the month it is named after, 0 for a week. *)

MonthRange(d) ==
    LET m == MonthOf(d)
    IN IF DayOf(d) >= 17
         THEN [start |-> DayIn(m, 17), end |-> DayIn(m + 1, 16), month |-> m + 1]
         ELSE [start |-> DayIn(m - 1, 17), end |-> DayIn(m, 16), month |-> m]

\* The pages have the period rule a second time.
CalendarMonth(d) == MonthOf(d)
PagePeriodOf(d) == IF DayOf(d) >= 17 THEN MonthOf(d) + 1 ELSE MonthOf(d)

LastMonthRange(d) == MonthRange(MonthRange(d).start - 1)

WeekDay(d) == (d + Phase) % 7
WeekRange(d) ==
    LET monday == d + (IF WeekDay(d) = 0 THEN -6 ELSE 1 - WeekDay(d))
    IN [start |-> monday, end |-> monday + 6, month |-> 0]

PeriodConfig(mode, d) ==
    CASE mode = "last_month" -> LastMonthRange(d)
      [] mode = "month" -> MonthRange(d)
      [] OTHER -> WeekRange(d)

\* In the window the pages open on the period that is to be handed in.
AnchorToday(d) == d
DefaultAnchor(d) == IF InWindow(d) THEN DayIn(MonthOf(d), 16) ELSE d

\* The month a page asks the server for, and the month whose summary it then looks up.
LoadedMonth(mode, d) == MonthOf(PeriodConfig(mode, d).start)
SummaryMonth(d) == MonthOf(d)

=============================================================================
