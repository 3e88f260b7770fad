-------------------------------- MODULE MCClock --------------------------------
(* A small instance of Clock: times just before the end of an hour, of a   *)
(* day, of a leap February in zone +8; one that is the day before in the   *)
(* west; one past midnight in the east; and one that is no date.           *)
EXTENDS Clock

Time(y, mo, d, h, mi, s) ==
    [year |-> y, mon |-> mo, day |-> d, hour |-> h, minute |-> mi, second |-> s]
SomeTimes == {Time(2023, 6, 1, 3, 59, 58), Time(2024, 2, 27, 15, 59, 58), Time(2024, 1, 31, 15, 59, 59),
              Time(2024, 3, 1, 16, 0, 59), Time(2023, 12, 5, 20, 59, 59), Time(2024, 13, 1, 0, 0, 0)}
SomeZones == {[zone |-> 8, west |-> FALSE], [zone |-> 5, west |-> TRUE]}

\* A century of the code's sums against the calendar.
ASSUME CenturyAssumption ==
    \A y \in 2006 .. 2106, m \in 1 .. 12 : YearsTo[y] + MonthsTo(y, m) = Days(y, m, 1)
=============================================================================
