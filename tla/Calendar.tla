------------------------------ MODULE Calendar ------------------------------
(***************************************************************************)
(* The calendar arithmetic of timeparse.go: the leap rule the parsers      *)
(* validate a day with, and the shift-to-March algorithm that turns a date *)
(* into days since 1970-01-01 with a leap rule of its own.                 *)
(***************************************************************************)
EXTENDS Integers

MonthLengths == <<31, 28, 31, 30, 31, 30, 31, 31, 30, 31, 30, 31>>

Leap(year) == year % 4 = 0 /\ (year % 100 # 0 \/ year % 400 = 0)

daysInMonth(mo, year) == IF mo = 2 /\ Leap(year) THEN 29 ELSE MonthLengths[mo]

Date == [year : Int, month : 1..12, day : 1..31]
IsDate(t) == t \in Date /\ t.day <= daysInMonth(t.month, t.year)

\* Go divides towards zero.
Quo(a, b) == IF a < 0 THEN - ((- a) \div b) ELSE a \div b

\* The year that starts in March and contains the date, and the month in it.
MarchYear(y, mo)  == IF mo <= 2 THEN y - 1 ELSE y
MarchMonth(mo)    == IF mo <= 2 THEN mo + 9 ELSE mo - 3

\* Mutant: a year before the first era is put into the first era.
EraTowardsZero(y) == Quo(y, 400)
Era(y) == IF y < 0 THEN Quo(y - 399, 400) ELSE Quo(y, 400)

YearDays(y) ==
  LET yoe == y - Era(y) * 400
  IN  Era(y) * 146097 + yoe * 365 + Quo(yoe, 4) - Quo(yoe, 100)

daysFromCivil(y, mo, d) ==
  YearDays(MarchYear(y, mo)) + Quo(153 * MarchMonth(mo) + 2, 5) + d - 1 - 719468
=============================================================================
