------------------------------ MODULE Calendar ------------------------------
(***************************************************************************)
(* Months and dates as the monthly statistics compute with them.           *)
(***************************************************************************)
EXTENDS Naturals

Month == [year : Nat, month : 1..12]

\* [cur.year - 1, 12] or [cur.year, cur.month - 1]
Previous(m) ==
    IF m.month = 1 THEN [year |-> m.year - 1, month |-> 12]
                   ELSE [m EXCEPT !.month = @ - 1]

Following(m) ==
    IF m.month = 12 THEN [year |-> m.year + 1, month |-> 1]
                    ELSE [m EXCEPT !.month = @ + 1]

Before(m, n) == m.year < n.year \/ (m.year = n.year /\ m.month < n.month)

IsLeap(year) == year % 4 = 0 /\ (year % 100 # 0 \/ year % 400 = 0)

DaysIn(m) ==
    CASE m.month = 2              -> IF IsLeap(m.year) THEN 29 ELSE 28
      [] m.month \in {4, 6, 9, 11} -> 30
      [] OTHER                     -> 31

MonthOf(date) == [year |-> date.year, month |-> date.month]

FirstOf(m) == [year |-> m.year, month |-> m.month, day |-> 1]

\* Mutant: January's last month is December of the same year.
LastMonthOfYear(date) ==
    IF date.month = 1 THEN [year |-> date.year, month |-> 12] ELSE Previous(MonthOf(date))

(***************************************************************************)
(* getLastMonth: d.setMonth(d.getMonth() - 1) keeps the day of the month.  *)
(* If the month before is too short for it, Date carries the days left     *)
(* over into the month after that, which is the month of the date itself.  *)
(***************************************************************************)
LastMonth(date) ==
    IF date.day <= DaysIn(Previous(MonthOf(date)))
    THEN Previous(MonthOf(date))
    ELSE MonthOf(date)

=============================================================================
