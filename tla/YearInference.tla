--------------------------- MODULE YearInference ----------------------------
(***************************************************************************)
(* Timestamps without a year: klog's "MMDD" and RFC3164's "Mmm dd".        *)
(*                                                                         *)
(* A producer stamps a line with the month and day its wall clock shows;   *)
(* the line is read some days later, and the reader supplies the year from *)
(* its own clock.  It does so twice in two pieces of code: a direct parse  *)
(* for the usual shapes (parseKlogTime, parseStampTime), and the old path  *)
(* for the rest (expandKlogTime, expandStampTime and the layout loop),     *)
(* which asks the clock again.  Days pass at any point in between.         *)
(*                                                                         *)
(* The clock counts days since 1970-01-01; what the code makes of a stamp  *)
(* is such a count, and the question is whether it is the day the line was *)
(* written.  The time of day takes no part in the inference.               *)
(***************************************************************************)
EXTENDS Calendar

CONSTANTS
  Years,           \* bound: the years in which the clock runs
  Stamped,         \* <<month, day>> of the days on which lines are written
  MaxDelay         \* bound: days a line can wait before it is read

ASSUME YearAssumption ==
  /\ Years \subseteq Int
  /\ MaxDelay \in Nat

VARIABLES
  clock,           \* the reader's UTC date
  today,           \* the same as a count of days since 1970-01-01
  stamp,           \* the line's month and day, the day it was written, its shape
  at,              \* "none", "fast", "slow" or "done"
  answer,          \* the year inferred and the day the stamp was read as
  seen             \* history: the date the reader had when it answered

vars == <<clock, today, stamp, at, answer, seen>>

NoStamp == [date |-> [year |-> 1970, month |-> 1, day |-> 1], on |-> 0,
            kind |-> "klog", usual |-> FALSE]
NoTime  == [found |-> FALSE, year |-> 0, on |-> 0]

Init ==
  /\ \E y \in Years : clock = [year |-> y, month |-> 1, day |-> 1]
  /\ today = daysFromCivil(clock.year, 1, 1)
  /\ stamp = NoStamp
  /\ at = "none"
  /\ answer = NoTime
  /\ seen = clock

\* A host's clock shows a year of four digits, the only ones the old path can
\* put in front of a stamp; the other years are there for the calendar.
HostYears == 1001..9998

\* The calendar, as a person turns its leaves.
NextDay(t) ==
  CASE t.day < daysInMonth(t.month, t.year) -> [t EXCEPT !.day = @ + 1]
    [] t.day = daysInMonth(t.month, t.year) /\ t.month < 12 ->
         [t EXCEPT !.day = 1, !.month = @ + 1]
    [] OTHER -> [year |-> t.year + 1, month |-> 1, day |-> 1]

Tick ==
  /\ at # "done"
  /\ NextDay(clock).year \in Years
  /\ at # "none" => today < stamp.on + MaxDelay
  /\ clock' = NextDay(clock)
  /\ today' = today + 1
  /\ UNCHANGED <<stamp, at, answer, seen>>

\* The producer writes local time: its date is the reader's, or a day ahead or
\* behind.
Write ==
  /\ at = "none"
  /\ clock.year \in HostYears
  /\ \E w \in [year : clock.year - 1 .. clock.year + 1, month : 1..12, day : 1..31],
        skew \in -1..1, kind \in {"klog", "stamp"}, usual \in BOOLEAN :
       /\ <<w.month, w.day>> \in Stamped
       /\ IsDate(w)
       /\ CASE skew = 0  -> w = clock
            [] skew = 1  -> w = NextDay(clock)
            [] skew = -1 -> NextDay(w) = clock
       /\ stamp' = [date |-> w, on |-> today + skew, kind |-> kind, usual |-> usual]
  /\ at' = "fast"
  /\ UNCHANGED <<clock, today, answer, seen>>

-----------------------------------------------------------------------------
(* The year *)

\* Mutant: the year is never stepped forward.
InferBackOnly(mo, now) == IF now.month = 1 /\ mo = 12 THEN now.year - 1 ELSE now.year

\* Mutant: the two steps are swapped.
InferSwapped(mo, now) ==
  CASE now.month = 1 /\ mo = 12 -> now.year + 1
    [] now.month = 12 /\ mo = 1 -> now.year - 1
    [] OTHER                    -> now.year

inferYear(mo, now) ==
  CASE now.month = 1 /\ mo = 12 -> now.year - 1
    [] now.month = 12 /\ mo = 1 -> now.year + 1
    [] OTHER                    -> now.year

\* expandKlogTime and expandStampTime are copies of it of their own.

\* Mutant: the copy forgets the step back.
ExpandForwardOnly(mo, now) == IF now.month = 12 /\ mo = 1 THEN now.year + 1 ELSE now.year
expandKlogTime(mo, now) ==
  IF now.month = 1 /\ mo = 12 THEN now.year - 1
  ELSE IF now.month = 12 /\ mo = 1 THEN now.year + 1
  ELSE now.year

expandStampTime(mo, now) ==
  IF now.month = 1 /\ mo = 12 THEN now.year - 1
  ELSE IF now.month = 12 /\ mo = 1 THEN now.year + 1
  ELSE now.year

\* Mutant: the day is checked against the longest February.
FitsSomeYear(mo, d, year) == d <= daysInMonth(mo, 2000)
Fits(mo, d, year) == d <= daysInMonth(mo, year)

ReadAs(year, mo, d) == [found |-> TRUE, year |-> year, on |-> daysFromCivil(year, mo, d)]

-----------------------------------------------------------------------------
(* The reader *)

Answered(a) == answer' = a /\ at' = "done" /\ seen' = clock

\* Mutant: the result is assigned before the day is validated.
FastPathAssignsFirst ==
  /\ at = "fast"
  /\ clock.year \in HostYears
  /\ LET d == stamp.date
         y == inferYear(d.month, clock)
     IN  IF ~ stamp.usual THEN at' = "slow" /\ UNCHANGED <<answer, seen>>
         ELSE IF Fits(d.month, d.day, y) THEN Answered(ReadAs(y, d.month, d.day))
         ELSE at' = "slow" /\ answer' = ReadAs(y, d.month, d.day) /\ UNCHANGED seen
  /\ UNCHANGED <<clock, today, stamp>>

\* parseKlogTime, parseStampTime: a shape or a day it does not take is left to
\* the old path.
FastPath ==
  /\ at = "fast"
  /\ clock.year \in HostYears
  /\ LET d == stamp.date
         y == inferYear(d.month, clock)
     IN  IF stamp.usual /\ Fits(d.month, d.day, y)
           THEN Answered(ReadAs(y, d.month, d.day))
           ELSE at' = "slow" /\ UNCHANGED <<answer, seen>>
  /\ UNCHANGED <<clock, today, stamp>>

\* The old path, at the date now: a year in front, then time.Parse, which
\* refuses a day its month does not have.
Expanded(s, now) ==
  LET d == s.date
      y == IF s.kind = "klog" THEN expandKlogTime(d.month, now)
           ELSE expandStampTime(d.month, now)
  IN  IF d.day <= daysInMonth(d.month, y) THEN ReadAs(y, d.month, d.day) ELSE NoTime

SlowPath ==
  /\ at = "slow"
  /\ clock.year \in HostYears
  /\ Answered(Expanded(stamp, clock))
  /\ UNCHANGED <<clock, today, stamp>>

Next == Tick \/ Write \/ FastPath \/ SlowPath

Spec == Init /\ [][Next]_vars

-----------------------------------------------------------------------------
(* Properties *)

Stamps  == [date : Date, on : Int, kind : {"klog", "stamp"}, usual : BOOLEAN]
Answers == [found : BOOLEAN, year : Int, on : Int]

\* The types of the state; no answer is left behind by a path that gave up.
TypeOK ==
  /\ IsDate(clock) /\ IsDate(seen)
  /\ today \in Int
  /\ stamp \in Stamps /\ IsDate(stamp.date)
  /\ at \in {"none", "fast", "slow", "done"}
  /\ answer \in Answers
  /\ at # "done" => answer = NoTime

\* daysFromCivil counts days: each date of the calendar is one more than the
\* date before it, over leap days, centuries and the 400-year cycle alike.
CountsDays == today = daysFromCivil(clock.year, clock.month, clock.day)

MonthNo(t) == 12 * t.year + t.month

\* A stamp read before the end of the month after the one it was written in
\* (or written up to a month ahead of the reader's clock) is read as the very
\* day it was written, whichever path parses it, across New Year and on a
\* leap day.
RecentStampIsExact ==
  (at = "done" /\ MonthNo(seen) - MonthNo(stamp.date) \in -1..1)
    => answer.found /\ answer.on = stamp.on

\* However late a line is read, its stamp lands within ten months of the
\* reader's clock.
WithinTenMonths ==
  (at = "done" /\ answer.found) =>
    12 * answer.year + stamp.date.month - MonthNo(seen) \in -10..10

\* A leap day read in a common year is dropped, never moved to March 1.
LeapDayIsNotMoved ==
  (at = "done" /\ answer.found) =>
    stamp.date.day <= daysInMonth(stamp.date.month, answer.year)

\* The direct parse decides nothing the old path would not: at the date it was
\* asked, the old path answers the same.
FastChangesNothing == at = "done" => answer = Expanded(stamp, seen)
=============================================================================
