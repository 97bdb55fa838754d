---------------------------- MODULE BillingCycle ----------------------------
(***************************************************************************)
(* The end of a term: calculateExpiry for each billing cycle, as pure      *)
(* operators on dates (the time of day is kept), against what a calendar   *)
(* says.  The behaviour only walks through the days of a few years.        *)
(***************************************************************************)
EXTENDS Integers

CONSTANT Years \* years walked through

ASSUME YearsAssumption == Years \subseteq Nat \ {0}

VARIABLE date \* the day of an activation

Cycle == {"weekly", "monthly", "quarterly", "yearly"}
IsLeap(y) == y % 4 = 0 /\ (y % 100 # 0 \/ y % 400 = 0)

\* daysInMonth; the months of a year are 1 .. 12.
DaysInMonth(y, m) ==
    IF m = 2 THEN IF IsLeap(y) THEN 29 ELSE 28
    ELSE IF m \in {4, 6, 9, 11} THEN 30 ELSE 31

\* time.Date and AddDate carry days beyond the end of a month over to the next.
Carried(y, m, d) ==
    IF d <= DaysInMonth(y, m) THEN [y |-> y, m |-> m, d |-> d]
    ELSE [y |-> IF m = 12 THEN y + 1 ELSE y, m |-> (m % 12) + 1, d |-> d - DaysInMonth(y, m)]

\* Mutant: the day is left to time.Date.
AddMonthsClamped_Carried(t, n) ==
    Carried(t.y + (t.m + n - 1) \div 12, ((t.m + n - 1) % 12) + 1, t.d)

AddMonthsClamped(t, n) ==
    LET y == t.y + (t.m + n - 1) \div 12
        m == ((t.m + n - 1) % 12) + 1
        last == DaysInMonth(y, m)
    IN [y |-> y, m |-> m, d |-> IF t.d > last THEN last ELSE t.d]

\* The cycles with an end; forever and one_time have none.
CalculateExpiry(t, cycle) ==
    CASE cycle = "weekly" -> Carried(t.y, t.m, t.d + 7)
      [] cycle = "monthly" -> AddMonthsClamped(t, 1)
      [] cycle = "quarterly" -> AddMonthsClamped(t, 3)
      [] cycle = "yearly" -> Carried(t.y + 1, t.m, t.d)

CycleInit ==
    date \in {t \in [y : Years, m : 1 .. 12, d : 1 .. 31] : t.d <= DaysInMonth(t.y, t.m)}

Tomorrow(t) == Carried(t.y, t.m, t.d + 1)

PassDay ==
    /\ Tomorrow(date).y = date.y
    /\ date' = Tomorrow(date)

CycleSpec == CycleInit /\ [][PassDay]_date

-----------------------------------------------------------------------------
(* Properties *)

\* Days since the first of January of year 0, by the length of years and months.
DayNumber(t) ==
    LET before == t.y - 1
        ends == <<0, 31, 59, 90, 120, 151, 181, 212, 243, 273, 304, 334>>
    IN 365 * t.y + before \div 4 - before \div 100 + before \div 400 + ends[t.m]
       + (IF t.m > 2 /\ IsLeap(t.y) THEN 1 ELSE 0) + t.d

\* How long a term of a cycle may be, in days.
Lengths(cycle) ==
    CASE cycle = "weekly" -> 7 .. 7
      [] cycle = "monthly" -> 28 .. 31
      [] cycle = "quarterly" -> 89 .. 92
      [] cycle = "yearly" -> 365 .. 366

\* A term ends on a day that exists.  One of a month or a quarter ends that many
\* months on, on the day it began or, where there is none, on the last of the
\* month; one of a year on the same date, from 29 February on the first of March.
\* It is as long as its cycle may be, and an activation a day later never ends
\* earlier.  The clamp at the ends of months could break each of these.
TermsAreRight ==
    \A cycle \in Cycle :
        LET e == CalculateExpiry(date, cycle)
        IN /\ e.m \in 1 .. 12 /\ e.d \in 1 .. DaysInMonth(e.y, e.m)
           /\ DayNumber(e) - DayNumber(date) \in Lengths(cycle)
           /\ DayNumber(e) <= DayNumber(CalculateExpiry(Tomorrow(date), cycle))
           /\ cycle \in {"monthly", "quarterly"} =>
                /\ 12 * e.y + e.m = 12 * date.y + date.m + (IF cycle = "monthly" THEN 1 ELSE 3)
                /\ e.d = date.d \/ (e.d < date.d /\ e.d = DaysInMonth(e.y, e.m))
           /\ cycle = "yearly" =>
                \/ e = [date EXCEPT !.y = @ + 1]
                \/ (date.m = 2 /\ date.d = 29 /\ e = [y |-> date.y + 1, m |-> 3, d |-> 1])
=============================================================================
