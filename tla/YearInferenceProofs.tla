------------------------- MODULE YearInferenceProofs ------------------------
(***************************************************************************)
(* Proofs about YearInference, for every range of years, every choice of   *)
(* days on which lines are written and every delay.                        *)
(*                                                                         *)
(* CountsDays is inductive once one day of daysFromCivil is known to       *)
(* follow another.  What the year inference promises then needs only that  *)
(* the count of the day a line was written is daysFromCivil of its date.   *)
(***************************************************************************)
EXTENDS YearInference, TLAPS

-----------------------------------------------------------------------------
(* Days and years *)

\* The era of a year is its quotient by 400, rounded down, before year 0 too.
LEMMA EraIsFloor ==
  ASSUME NEW y \in Int
  PROVE  /\ Era(y) \in Int
         /\ Era(y) * 400 <= y /\ y < Era(y) * 400 + 400
BY DEF Era, Quo

\* Counting one further, a quotient grows exactly at a multiple.
LEMMA NextQuotient ==
  ASSUME NEW a \in Nat
  PROVE  /\ (a + 1) \div 4 = a \div 4 + (IF (a + 1) % 4 = 0 THEN 1 ELSE 0)
         /\ (a + 1) \div 100 = a \div 100 + (IF (a + 1) % 100 = 0 THEN 1 ELSE 0)
<1>1. (a + 1) \div 4 = a \div 4 + (IF (a + 1) % 4 = 0 THEN 1 ELSE 0)
  OBVIOUS
<1>2. (a + 1) \div 100 = a \div 100 + (IF (a + 1) % 100 = 0 THEN 1 ELSE 0)
  OBVIOUS
<1>3. QED
  BY <1>1, <1>2

\* One era further, the quotient of a year is one more exactly at a multiple of
\* 400.
LEMMA NextEra ==
  ASSUME NEW y \in Int
  PROVE  Era(y + 1) = IF y - Era(y) * 400 = 399 THEN Era(y) + 1 ELSE Era(y)
<1>1. Era(y) \in Int /\ Era(y) * 400 <= y /\ y < Era(y) * 400 + 400
  BY EraIsFloor
<1>2. /\ Era(y + 1) \in Int /\ 400 * Era(y + 1) <= y + 1
      /\ y + 1 < 400 * Era(y + 1) + 400
  BY EraIsFloor
<1> QED
  BY <1>1, <1>2

\* The days before the r-th March year of era e.
DaysBefore(e, r) == e * 146097 + r * 365 + r \div 4 - r \div 100

\* YearDays, by the era of a year and its number in it.
LEMMA YearDaysIs ==
  ASSUME NEW y \in Int
  PROVE  YearDays(y) = DaysBefore(Era(y), y - Era(y) * 400)
<1> DEFINE r == y - Era(y) * 400
<1>1. r \in Nat
  <2>1. Era(y) \in Int /\ Era(y) * 400 <= y
    BY EraIsFloor
  <2> QED
    BY <2>1
<1>2. YearDays(y) = Era(y) * 146097 + r * 365 + Quo(r, 4) - Quo(r, 100)
  BY DEF YearDays
<1> HIDE DEF r
<1>3. Quo(r, 4) = r \div 4 /\ Quo(r, 100) = r \div 100
  BY <1>1 DEF Quo
<1>4. YearDays(y) = DaysBefore(Era(y), r)
  BY <1>2, <1>3, SMT DEF DaysBefore
<1> QED
  BY <1>4, SMT DEF r

\* A year that starts in March has 365 days, and one more when the February it
\* ends with is a leap one.
LEMMA YearLength ==
  ASSUME NEW y \in Int, NEW next \in Int, next = y + 1
  PROVE  YearDays(next) = YearDays(y) + (IF Leap(next) THEN 366 ELSE 365)
<1> DEFINE e == Era(y)
           r == y - e * 400
<1>1. e \in Int /\ r \in 0..399 /\ y = e * 400 + r
  <2>1. e \in Int /\ e * 400 <= y /\ y < e * 400 + 400
    BY EraIsFloor
  <2> HIDE DEF e
  <2> QED
    BY <2>1
<1>2. Era(next) = IF r = 399 THEN e + 1 ELSE e
  BY NextEra, SMT
<1>3. YearDays(y) = DaysBefore(e, r)
  BY YearDaysIs, SMT
<1>6. YearDays(next) = DaysBefore(Era(next), next - Era(next) * 400)
  BY YearDaysIs, SMT
<1> HIDE DEF e, r
<1>4. CASE r = 399
  <2>1. next - (e + 1) * 400 = 0
    BY <1>1, <1>4
  <2>2. YearDays(next) = DaysBefore(e + 1, 0)
    BY <1>2, <1>4, <1>6, <2>1, SMT
  <2>3. Leap(next)
    <3>1. next = 400 * (e + 1)
      BY <1>1, <1>4
    <3>2. next % 4 = 0 /\ next % 400 = 0
      BY <3>1, <1>1
    <3> QED
      BY <3>2 DEF Leap
  <2>4. DaysBefore(e + 1, 0) = DaysBefore(e, 399) + 366
    BY <1>1 DEF DaysBefore
  <2> QED
    BY <1>3, <1>4, <2>2, <2>3, <2>4
<1>5. CASE r # 399
  <2>1. /\ r + 1 \in 1..399 /\ r \in Nat
        /\ next - e * 400 = r + 1 /\ next = 400 * e + (r + 1)
    BY <1>1, <1>5
  <2>2. YearDays(next) = DaysBefore(e, r + 1)
    BY <1>2, <1>5, <1>6, <2>1, SMT
  <2>3. /\ next % 4 = (r + 1) % 4
        /\ next % 100 = (r + 1) % 100
        /\ next % 400 = r + 1
    <3>1. r + 1 \in Nat /\ e \in Int
      BY <1>1, <2>1
    <3>2. /\ next % 4 = (r + 1) % 4
          /\ next % 100 = (r + 1) % 100
          /\ next % 400 = (r + 1) % 400
      <4>1. next % 4 = (r + 1) % 4
        BY <2>1, <3>1, SMT
      <4>2. next % 100 = (r + 1) % 100
        BY <2>1, <3>1, SMT
      <4>3. next % 400 = (r + 1) % 400
        BY <2>1, <3>1, SMT
      <4> QED
        BY <4>1, <4>2, <4>3, SMT
    <3>3. (r + 1) % 400 = r + 1
      BY <2>1
    <3> QED
      BY <3>2, <3>3
  <2>4. Leap(next) <=> (r + 1) % 4 = 0 /\ (r + 1) % 100 # 0
    BY <2>1, <2>3 DEF Leap
  <2>5. (r + 1) % 100 = 0 => (r + 1) % 4 = 0
    BY <2>1
  <2>6. /\ (r + 1) \div 4 = r \div 4 + (IF (r + 1) % 4 = 0 THEN 1 ELSE 0)
        /\ (r + 1) \div 100 = r \div 100 + (IF (r + 1) % 100 = 0 THEN 1 ELSE 0)
    BY <2>1, NextQuotient
  <2>7. r \div 4 \in Int /\ r \div 100 \in Int
    BY <2>1
  <2>8. DaysBefore(e, r + 1) =
          DaysBefore(e, r) + 365 + (IF (r + 1) % 4 = 0 THEN 1 ELSE 0)
                                 - (IF (r + 1) % 100 = 0 THEN 1 ELSE 0)
    BY <1>1, <2>1, <2>6, <2>7 DEF DaysBefore
  <2>9. DaysBefore(e, r) \in Int
    BY <1>1, <2>1, <2>7 DEF DaysBefore
  <2> QED
    BY <1>3, <2>2, <2>4, <2>5, <2>8, <2>9
<1> QED
  BY <1>4, <1>5

-----------------------------------------------------------------------------
(* Days and months *)

\* The days of a March year before each month.
DaysBeforeMonth == <<306, 337, 0, 31, 61, 92, 122, 153, 184, 214, 245, 275>>

\* The affine expression that replaces the table of month lengths gives that
\* table.
LEMMA MonthTable ==
  ASSUME NEW mo \in 1..12
  PROVE  /\ Quo(153 * MarchMonth(mo) + 2, 5) = DaysBeforeMonth[mo]
         /\ DaysBeforeMonth[mo] \in Nat
<1>1. mo \in {1, 2, 3, 4, 5, 6, 7, 8, 9, 10, 11, 12}
  OBVIOUS
<1> QED
  BY <1>1, SMT DEF Quo, MarchMonth, DaysBeforeMonth

\* March 1 of year 0 is that many days before the epoch; a day is counted from 1.
Shift == 719469

\* A date's count, by its March year and its month.
LEMMA DayCount ==
  ASSUME NEW y \in Int, NEW mo \in 1..12, NEW d \in Int
  PROVE  /\ YearDays(MarchYear(y, mo)) \in Int
         /\ daysFromCivil(y, mo, d) =
              YearDays(MarchYear(y, mo)) + DaysBeforeMonth[mo] + d - Shift
         /\ daysFromCivil(y, mo, d) \in Int
<1> DEFINE m == MarchYear(y, mo)
<1>1. m \in Int
  BY DEF MarchYear
<1> HIDE DEF m
<1>2. YearDays(m) \in Int
  <2> DEFINE e == Era(m)
             r == m - e * 400
  <2>1. e \in Int /\ r \in Nat
    <3>1. e \in Int /\ e * 400 <= m
      BY <1>1, EraIsFloor
    <3> HIDE DEF e
    <3> QED
      BY <1>1, <3>1
  <2>2. YearDays(m) = DaysBefore(e, r)
    BY <1>1, YearDaysIs, SMT
  <2> HIDE DEF e, r
  <2>3. r \div 4 \in Int /\ r \div 100 \in Int
    BY <2>1
  <2> QED
    BY <2>1, <2>2, <2>3, SMT DEF DaysBefore
<1>3. daysFromCivil(y, mo, d) = YearDays(m) + DaysBeforeMonth[mo] + d - 1 - 719468
  BY MonthTable, SMT DEF daysFromCivil, m
<1>4. DaysBeforeMonth[mo] \in Nat
  BY MonthTable
<1>5. /\ YearDays(m) + DaysBeforeMonth[mo] + d - 1 - 719468
           = YearDays(m) + DaysBeforeMonth[mo] + d - 719469
      /\ YearDays(m) + DaysBeforeMonth[mo] + d - 719469 \in Int
  BY <1>2, <1>4, SMT
<1> QED
  BY <1>2, <1>3, <1>5, SMT DEF m, Shift

\* The count of a date; daysFromCivil takes its parts.
DayOf(t) == daysFromCivil(t.year, t.month, t.day)

\* February is the only month whose length depends on the year.
LEMMA MonthLength ==
  ASSUME NEW y \in Int, NEW mo \in 1..12
  PROVE  /\ daysInMonth(mo, y) \in 28..31
         /\ mo = 2 => daysInMonth(mo, y) = (IF Leap(y) THEN 29 ELSE 28)
         /\ mo = 12 => daysInMonth(mo, y) = 31
<1>1. mo \in {1, 2, 3, 4, 5, 6, 7, 8, 9, 10, 11, 12}
  OBVIOUS
<1> QED
  BY <1>1, SMT DEF daysInMonth, MonthLengths

\* Within a month, day after day.
LEMMA WithinMonth ==
  ASSUME NEW y \in Int, NEW mo \in 1..12, NEW d \in Int, NEW e \in Int, e = d + 1
  PROVE  daysFromCivil(y, mo, e) = daysFromCivil(y, mo, d) + 1
<1>1. /\ YearDays(MarchYear(y, mo)) \in Int
      /\ daysFromCivil(y, mo, d) = YearDays(MarchYear(y, mo)) + DaysBeforeMonth[mo] + d - Shift
      /\ daysFromCivil(y, mo, e) = YearDays(MarchYear(y, mo)) + DaysBeforeMonth[mo] + e - Shift
      /\ DaysBeforeMonth[mo] \in Nat
  BY DayCount, MonthTable
<1> QED
  BY <1>1, SMT DEF Shift

\* From the last day of a month to the first of the next, February included.
LEMMA MonthEnd ==
  ASSUME NEW y \in Int, NEW mo \in 1..11, NEW next \in 1..12, next = mo + 1,
         NEW d \in Int, d = daysInMonth(mo, y)
  PROVE  daysFromCivil(y, next, 1) = daysFromCivil(y, mo, d) + 1
<1>0. mo \in 1..12 /\ 1 \in Int
  OBVIOUS
<1>1. /\ YearDays(MarchYear(y, next)) \in Int
      /\ daysFromCivil(y, next, 1) =
           YearDays(MarchYear(y, next)) + DaysBeforeMonth[next] + 1 - Shift
      /\ DaysBeforeMonth[next] \in Nat
  BY <1>0, DayCount, MonthTable
<1>2. /\ YearDays(MarchYear(y, mo)) \in Int
      /\ daysFromCivil(y, mo, d) =
           YearDays(MarchYear(y, mo)) + DaysBeforeMonth[mo] + d - Shift
      /\ DaysBeforeMonth[mo] \in Nat
  BY <1>0, DayCount, MonthTable
<1>3. CASE mo = 2
  <2>1. MarchYear(y, next) = y
    BY <1>3 DEF MarchYear
  <2>2. PICK last \in Int : last = y - 1
    OBVIOUS
  <2>3. MarchYear(y, mo) = last /\ y = last + 1
    BY <1>3, <2>2 DEF MarchYear
  <2>4. YearDays(y) = YearDays(last) + (IF Leap(y) THEN 366 ELSE 365)
    BY <2>2, <2>3, YearLength
  <2>5. d = IF Leap(y) THEN 29 ELSE 28
    BY <1>0, <1>3, MonthLength
  <2>6. DaysBeforeMonth[next] = 0 /\ DaysBeforeMonth[mo] = 337
    BY <1>3 DEF DaysBeforeMonth
  <2> QED
    BY <1>1, <1>2, <2>1, <2>3, <2>4, <2>5, <2>6, SMT DEF Shift
<1>4. CASE mo # 2
  <2>1. MarchYear(y, mo) = MarchYear(y, next)
    BY <1>4 DEF MarchYear
  <2>2. DaysBeforeMonth[next] - DaysBeforeMonth[mo] = d
    <3>1. mo \in {1, 3, 4, 5, 6, 7, 8, 9, 10, 11}
      BY <1>4
    <3> QED
      BY <3>1, SMT DEF DaysBeforeMonth, daysInMonth, MonthLengths
  <2> QED
    BY <1>1, <1>2, <2>1, <2>2, SMT DEF Shift
<1> QED
  BY <1>3, <1>4

\* From New Year's Eve to New Year's Day.
LEMMA YearEnd ==
  ASSUME NEW y \in Int, NEW next \in Int, next = y + 1
  PROVE  daysFromCivil(next, 1, 1) = daysFromCivil(y, 12, 31) + 1
<1>0. 1 \in Int /\ 31 \in Int /\ 1 \in 1..12 /\ 12 \in 1..12
  OBVIOUS
<1>1. MarchYear(next, 1) = y /\ MarchYear(y, 12) = y
  BY DEF MarchYear
<1>2. /\ YearDays(y) \in Int
      /\ daysFromCivil(y, 12, 31) = YearDays(y) + DaysBeforeMonth[12] + 31 - Shift
  <2>1. /\ YearDays(MarchYear(y, 12)) \in Int
        /\ daysFromCivil(y, 12, 31) =
             YearDays(MarchYear(y, 12)) + DaysBeforeMonth[12] + 31 - Shift
    BY <1>0, DayCount, Zenon
  <2> QED
    BY <1>1, <2>1, Zenon
<1>3. daysFromCivil(next, 1, 1) = YearDays(y) + DaysBeforeMonth[1] + 1 - Shift
  <2>1. daysFromCivil(next, 1, 1) =
          YearDays(MarchYear(next, 1)) + DaysBeforeMonth[1] + 1 - Shift
    BY <1>0, DayCount, Zenon
  <2> QED
    BY <1>1, <2>1, Zenon
<1>4. DaysBeforeMonth[1] = 306 /\ DaysBeforeMonth[12] = 275
  BY DEF DaysBeforeMonth
<1> QED
  BY <1>2, <1>3, <1>4, SMT DEF Shift

\* The date after a date of the calendar is one, and its count is one more.
LEMMA NextDayFollows ==
  ASSUME NEW t, IsDate(t)
  PROVE  /\ IsDate(NextDay(t))
         /\ DayOf(NextDay(t)) = DayOf(t) + 1
<1>1. /\ t \in Date /\ t.year \in Int /\ t.month \in 1..12 /\ t.day \in 1..31
      /\ t.day <= daysInMonth(t.month, t.year)
      /\ t = [year |-> t.year, month |-> t.month, day |-> t.day]
  BY DEF IsDate, Date
<1> DEFINE y == t.year
           mo == t.month
           d == t.day
           D(yy, mm, dd) == [year |-> yy, month |-> mm, day |-> dd]
<1>2. daysInMonth(mo, y) \in 28..31
  BY <1>1, MonthLength
<1>3. CASE d < daysInMonth(mo, y)
  <2>1. NextDay(t) = D(y, mo, d + 1)
    BY <1>1, <1>3 DEF NextDay
  <2>2. IsDate(D(y, mo, d + 1))
    BY <1>1, <1>2, <1>3 DEF IsDate, Date
  <2>3. daysFromCivil(y, mo, d + 1) = daysFromCivil(y, mo, d) + 1
    <3>1. PICK e \in Int : e = d + 1
      BY <1>1
    <3>2. y \in Int /\ mo \in 1..12 /\ d \in Int
      BY <1>1
    <3> HIDE DEF y, mo, d
    <3>3. daysFromCivil(y, mo, e) = daysFromCivil(y, mo, d) + 1
      BY <3>1, <3>2, WithinMonth
    <3> QED
      BY <3>1, <3>3
  <2> QED
    BY <2>1, <2>2, <2>3 DEF DayOf
<1>4. CASE d = daysInMonth(mo, y) /\ mo < 12
  <2>1. NextDay(t) = D(y, mo + 1, 1)
    <3>1. ~ (t.day < daysInMonth(t.month, t.year)) /\ t.month < 12
      BY <1>2, <1>4
    <3>2. NextDay(t) = [t EXCEPT !.day = 1, !.month = @ + 1]
      BY <1>4, <3>1, Zenon DEF NextDay
    <3> QED
      BY <1>1, <3>2
  <2>2. IsDate(D(y, mo + 1, 1))
    <3>1. mo + 1 \in 1..12
      BY <1>1, <1>4
    <3>2. daysInMonth(mo + 1, y) \in 28..31
      BY <1>1, <3>1, MonthLength
    <3> QED
      BY <1>1, <3>1, <3>2 DEF IsDate, Date
  <2>3. daysFromCivil(y, mo + 1, 1) = daysFromCivil(y, mo, d) + 1
    <3>1. PICK next \in 1..12 : next = mo + 1
      BY <1>1, <1>4
    <3>2. y \in Int /\ mo \in 1..11 /\ d \in Int /\ d = daysInMonth(mo, y)
      BY <1>1, <1>4
    <3> HIDE DEF y, mo, d
    <3>3. daysFromCivil(y, next, 1) = daysFromCivil(y, mo, d) + 1
      BY <3>1, <3>2, MonthEnd
    <3> QED
      BY <3>1, <3>3
  <2> QED
    BY <2>1, <2>2, <2>3 DEF DayOf
<1>5. CASE d = daysInMonth(mo, y) /\ mo = 12
  <2>1. NextDay(t) = D(y + 1, 1, 1)
    BY <1>1, <1>2, <1>5 DEF NextDay
  <2>2. IsDate(D(y + 1, 1, 1))
    BY <1>1 DEF IsDate, Date, daysInMonth, MonthLengths
  <2>3. daysFromCivil(y + 1, 1, 1) = daysFromCivil(y, 12, 31) + 1
    <3>1. PICK next \in Int : next = y + 1
      BY <1>1
    <3>2. y \in Int
      BY <1>1
    <3> HIDE DEF y
    <3>3. daysFromCivil(next, 1, 1) = daysFromCivil(y, 12, 31) + 1
      BY <3>1, <3>2, YearEnd
    <3> QED
      BY <3>1, <3>3
  <2>4. d = 31
    BY <1>1, <1>5, MonthLength
  <2> QED
    BY <1>5, <2>1, <2>2, <2>3, <2>4 DEF DayOf
<1> QED
  BY <1>1, <1>2, <1>3, <1>4, <1>5

-----------------------------------------------------------------------------
(* The invariant *)

\* The inductive invariant.  The count of the day a line was written is the
\* count of its date, and an answer is what the old path makes of the stamp at
\* the date the reader had.
IInv ==
  /\ TypeOK
  /\ CountsDays
  /\ at # "none" => stamp.on = DayOf(stamp.date)
  /\ FastChangesNothing

\* What either path answers with is an answer.
LEMMA ReadAsIsAnswer ==
  ASSUME NEW y \in Int, NEW mo \in 1..12, NEW d \in Int
  PROVE  ReadAs(y, mo, d) \in Answers
BY DayCount DEF ReadAs, Answers

\* The old path answers with a day or with none.
LEMMA ExpandedIsAnswer ==
  ASSUME NEW s \in Stamps, NEW now, IsDate(now)
  PROVE  Expanded(s, now) \in Answers
<1> DEFINE mo == s.date.month
           y == IF s.kind = "klog" THEN expandKlogTime(mo, now) ELSE expandStampTime(mo, now)
<1>1. y \in Int
  BY DEF expandKlogTime, expandStampTime, IsDate, Date
<1>2. mo \in 1..12 /\ s.date.day \in Int
  BY DEF Stamps, Date
<1>3. ReadAs(y, mo, s.date.day) \in Answers
  BY <1>1, <1>2, ReadAsIsAnswer
<1>4. NoTime \in Answers
  BY DEF NoTime, Answers
<1> QED
  BY <1>3, <1>4, Zenon DEF Expanded

\* The year of the direct parse is the year of either copy.
LEMMA SameYear ==
  ASSUME NEW mo, NEW now
  PROVE  /\ inferYear(mo, now) = expandKlogTime(mo, now)
         /\ inferYear(mo, now) = expandStampTime(mo, now)
<1>1. ~ (now.month = 1 /\ now.month = 12)
  OBVIOUS
<1> QED
  BY <1>1 DEF inferYear, expandKlogTime, expandStampTime

\* Init establishes the inductive invariant.
LEMMA InitIInv ==
  ASSUME Init
  PROVE  IInv
<1>1. PICK y \in Years : clock = [year |-> y, month |-> 1, day |-> 1]
  BY DEF Init
<1>2. y \in Int
  BY YearAssumption
<1>3. IsDate(clock)
  BY <1>1, <1>2 DEF IsDate, Date, daysInMonth, MonthLengths
<1>4. today = daysFromCivil(y, 1, 1) /\ today \in Int
  BY <1>1, <1>2, DayCount DEF Init
<1>5. NoStamp \in Stamps /\ IsDate(NoStamp.date)
  BY DEF NoStamp, Stamps, IsDate, Date, daysInMonth, MonthLengths
<1>6. NoTime \in Answers
  BY DEF NoTime, Answers
<1> QED
  BY <1>1, <1>3, <1>4, <1>5, <1>6 DEF Init, IInv, TypeOK, CountsDays, FastChangesNothing

\* A day passes: both counts move by one.
LEMMA TickIInv ==
  ASSUME IInv, Tick
  PROVE  IInv'
<1>1. /\ IsDate(clock) /\ today \in Int /\ today = DayOf(clock)
      /\ clock' = NextDay(clock) /\ today' = today + 1
      /\ UNCHANGED <<stamp, at, answer, seen>> /\ at # "done"
  BY DEF IInv, TypeOK, CountsDays, Tick, DayOf
<1>2. IsDate(clock') /\ DayOf(clock') = DayOf(clock) + 1
  BY <1>1, NextDayFollows
<1>3. today' \in Int /\ today' = DayOf(clock')
  BY <1>1, <1>2
<1> QED
  BY <1>1, <1>2, <1>3 DEF IInv, TypeOK, CountsDays, FastChangesNothing, DayOf

\* A line is written on the reader's date or on a neighbour of it, whose count
\* differs by one.
LEMMA WriteIInv ==
  ASSUME IInv, Write
  PROVE  IInv'
<1>1. PICK w \in [year : clock.year - 1 .. clock.year + 1, month : 1..12, day : 1..31],
           skew \in -1..1, kind \in {"klog", "stamp"}, usual \in BOOLEAN :
        /\ IsDate(w)
        /\ CASE skew = 0  -> w = clock
             [] skew = 1  -> w = NextDay(clock)
             [] skew = -1 -> NextDay(w) = clock
        /\ stamp' = [date |-> w, on |-> today + skew, kind |-> kind, usual |-> usual]
  BY DEF Write
<1>2. IsDate(clock) /\ today \in Int /\ today = DayOf(clock)
  BY DEF IInv, TypeOK, CountsDays, DayOf
<1>3. today + skew = DayOf(w)
  <2>1. CASE skew = 0
    BY <1>1, <1>2, <2>1
  <2>2. CASE skew = 1
    BY <1>1, <1>2, <2>2, NextDayFollows
  <2>3. CASE skew = -1
    <3>1. DayOf(clock) = DayOf(w) + 1
      BY <1>1, <2>3, NextDayFollows
    <3>2. DayOf(w) \in Int
      BY <1>1, DayCount DEF DayOf, IsDate, Date
    <3> QED
      BY <1>2, <2>3, <3>1, <3>2
  <2> QED
    BY <2>1, <2>2, <2>3
<1>4. stamp' \in Stamps /\ stamp'.date = w /\ stamp'.on = DayOf(w)
  BY <1>1, <1>2, <1>3 DEF Stamps, IsDate
<1>5. /\ UNCHANGED <<clock, today, answer, seen>> /\ at' = "fast" /\ at = "none"
  BY DEF Write
<1> QED
  BY <1>1, <1>4, <1>5 DEF IInv, TypeOK, CountsDays, FastChangesNothing

\* The direct parse answers with the year both copies infer, or not at all.
LEMMA FastIInv ==
  ASSUME IInv, FastPath
  PROVE  IInv'
<1> DEFINE d == stamp.date
           y == inferYear(d.month, clock)
<1>1. /\ IsDate(clock) /\ stamp \in Stamps /\ IsDate(stamp.date)
      /\ at = "fast" /\ answer = NoTime /\ UNCHANGED <<clock, today, stamp>>
  BY DEF IInv, TypeOK, FastPath
<1>2. CASE stamp.usual /\ Fits(d.month, d.day, y)
  <2>1. /\ answer' = ReadAs(y, d.month, d.day)
        /\ at' = "done" /\ seen' = clock
    BY <1>2 DEF FastPath, Answered
  <2>2. answer' = Expanded(stamp, clock)
    BY <1>2, <2>1, SameYear, Zenon DEF Expanded, Fits
  <2>3. Expanded(stamp, clock) \in Answers
    BY <1>1, ExpandedIsAnswer
  <2> QED
    BY <1>1, <2>1, <2>2, <2>3 DEF IInv, TypeOK, CountsDays, FastChangesNothing
<1>3. CASE ~ (stamp.usual /\ Fits(d.month, d.day, y))
  <2>1. at' = "slow" /\ UNCHANGED <<answer, seen>>
    BY <1>3 DEF FastPath
  <2> QED
    BY <1>1, <2>1 DEF IInv, TypeOK, CountsDays, FastChangesNothing
<1> QED
  BY <1>2, <1>3

\* The old path answers with its own definition.
LEMMA SlowIInv ==
  ASSUME IInv, SlowPath
  PROVE  IInv'
<1>1. /\ IsDate(clock) /\ stamp \in Stamps /\ IsDate(stamp.date) /\ at = "slow"
      /\ answer' = Expanded(stamp, clock) /\ at' = "done" /\ seen' = clock
      /\ UNCHANGED <<clock, today, stamp>>
  BY DEF IInv, TypeOK, SlowPath, Answered
<1>2. answer' \in Answers
  BY <1>1, ExpandedIsAnswer
<1> QED
  BY <1>1, <1>2 DEF IInv, TypeOK, CountsDays, FastChangesNothing

\* IInv holds in every reachable state.
LEMMA Invariance == Spec => []IInv
<1>1. Init => IInv
  BY InitIInv
<1>2. IInv /\ [Next]_vars => IInv'
  <2> SUFFICES ASSUME IInv, [Next]_vars PROVE IInv'
    OBVIOUS
  <2>1. CASE Tick
    BY <2>1, TickIInv
  <2>2. CASE Write
    BY <2>2, WriteIInv
  <2>3. CASE FastPath
    BY <2>3, FastIInv
  <2>4. CASE SlowPath
    BY <2>4, SlowIInv
  <2>5. CASE UNCHANGED vars
    BY <2>5 DEF vars, IInv, TypeOK, CountsDays, FastChangesNothing
  <2> QED
    BY <2>1, <2>2, <2>3, <2>4, <2>5 DEF Next
<1> QED
  BY <1>1, <1>2, PTL DEF Spec

-----------------------------------------------------------------------------
(* Months and years *)

\* The year both copies give a month, from the year and month now.
YearAt(mo, y, now) ==
  IF now = 1 /\ mo = 12 THEN y - 1 ELSE IF now = 12 /\ mo = 1 THEN y + 1 ELSE y

\* A month at most one from now is given its own year.
LEMMA NearestYear ==
  ASSUME NEW y \in Int, NEW now \in 1..12, NEW own \in Int, NEW mo \in 1..12,
         12 * y + now - (12 * own + mo) \in -1..1
  PROVE  YearAt(mo, y, now) = own
BY SMT DEF YearAt

\* Any month is put at most ten months from now.
LEMMA MonthsOff ==
  ASSUME NEW y \in Int, NEW now \in 1..12, NEW mo \in 1..12
  PROVE  12 * YearAt(mo, y, now) + mo - (12 * y + now) \in -10..10
BY SMT DEF YearAt

-----------------------------------------------------------------------------
(* The theorems *)

\* The types of the state, and no answer left behind by a path that gave up.
THEOREM Typed == Spec => []TypeOK
<1>1. IInv => TypeOK
  BY DEF IInv
<1> QED
  BY <1>1, Invariance, PTL

\* The shift-to-March arithmetic of daysFromCivil counts the days of the
\* Gregorian calendar one by one, from any year, before the epoch too.
THEOREM CalendarCounts == Spec => []CountsDays
<1>1. IInv => CountsDays
  BY DEF IInv
<1> QED
  BY <1>1, Invariance, PTL

\* A direct parse answers what the path it replaces would have answered.
THEOREM FastPathIsExact == Spec => []FastChangesNothing
<1>1. IInv => FastChangesNothing
  BY DEF IInv
<1> QED
  BY <1>1, Invariance, PTL

\* A stamp read within a month of being written is read as the day it was
\* written, in any year and whatever the delay of other lines.
THEOREM RecentIsExact == Spec => []RecentStampIsExact
<1>1. IInv => RecentStampIsExact
  <2> SUFFICES ASSUME IInv, at = "done", MonthNo(seen) - MonthNo(stamp.date) \in -1..1
               PROVE  answer.found /\ answer.on = stamp.on
    BY DEF RecentStampIsExact
  <2> DEFINE d == stamp.date
  <2>1. /\ IsDate(seen) /\ IsDate(d) /\ stamp.on = DayOf(d)
        /\ answer = Expanded(stamp, seen)
    BY DEF IInv, TypeOK, FastChangesNothing
  <2>2. /\ seen.year \in Int /\ seen.month \in 1..12
        /\ d.year \in Int /\ d.month \in 1..12 /\ d.day <= daysInMonth(d.month, d.year)
    BY <2>1 DEF IsDate, Date
  <2>3. 12 * seen.year + seen.month - (12 * d.year + d.month) \in -1..1
    <3>1. MonthNo(seen) - MonthNo(d) \in -1..1
      OBVIOUS
    <3>2. /\ MonthNo(seen) = 12 * seen.year + seen.month
          /\ MonthNo(d) = 12 * d.year + d.month
      BY DEF MonthNo
    <3> HIDE DEF d
    <3> QED
      BY <2>2, <3>1, <3>2, SMT
  <2>4. expandKlogTime(d.month, seen) = d.year /\ expandStampTime(d.month, seen) = d.year
    <3>1. YearAt(d.month, seen.year, seen.month) = d.year
      BY <2>2, <2>3, NearestYear, Zenon
    <3> QED
      BY <3>1, Zenon DEF YearAt, expandKlogTime, expandStampTime
  <2>5. answer = ReadAs(d.year, d.month, d.day)
    BY <2>1, <2>2, <2>4, Zenon DEF Expanded
  <2> QED
    BY <2>1, <2>5 DEF ReadAs, DayOf
<1> QED
  BY <1>1, Invariance, PTL

\* What an answer says, from the old path's definition.
LEMMA AnswerIs ==
  ASSUME IInv, at = "done", answer.found
  PROVE  \E y \in Int :
           /\ y \in {expandKlogTime(stamp.date.month, seen), expandStampTime(stamp.date.month, seen)}
           /\ stamp.date.day <= daysInMonth(stamp.date.month, y)
           /\ answer.year = y
<1> DEFINE d == stamp.date
           y == IF stamp.kind = "klog" THEN expandKlogTime(d.month, seen)
                ELSE expandStampTime(d.month, seen)
<1>1. IsDate(seen) /\ answer = Expanded(stamp, seen)
  BY DEF IInv, TypeOK, FastChangesNothing
<1>2. y \in Int
  BY <1>1 DEF expandKlogTime, expandStampTime, IsDate, Date
<1>3. /\ d.day <= daysInMonth(d.month, y)
      /\ answer = ReadAs(y, d.month, d.day)
  <2>1. answer = IF d.day <= daysInMonth(d.month, y) THEN ReadAs(y, d.month, d.day) ELSE NoTime
    BY <1>1, Zenon DEF Expanded
  <2>2. answer # NoTime
    BY DEF NoTime
  <2> QED
    BY <2>1, <2>2
<1>4. answer.year = y
  BY <1>3 DEF ReadAs
<1> QED
  BY <1>2, <1>3, <1>4

\* However late a line is read, the year given to it puts it within ten months
\* of the reader's clock.
THEOREM NeverFarOff == Spec => []WithinTenMonths
<1>1. IInv => WithinTenMonths
  <2> SUFFICES ASSUME IInv, at = "done", answer.found
               PROVE  12 * answer.year + stamp.date.month - MonthNo(seen) \in -10..10
    BY DEF WithinTenMonths
  <2>1. PICK y \in Int :
          /\ y \in {expandKlogTime(stamp.date.month, seen), expandStampTime(stamp.date.month, seen)}
          /\ answer.year = y
    BY AnswerIs
  <2>2. /\ seen.year \in Int /\ seen.month \in 1..12 /\ stamp.date.month \in 1..12
    BY DEF IInv, TypeOK, IsDate, Date
  <2>3. answer.year = YearAt(stamp.date.month, seen.year, seen.month)
    BY <2>1, Zenon DEF YearAt, expandKlogTime, expandStampTime
  <2>4. 12 * YearAt(stamp.date.month, seen.year, seen.month) + stamp.date.month
          - (12 * seen.year + seen.month) \in -10..10
    BY <2>2, MonthsOff, Zenon
  <2> QED
    BY <2>3, <2>4, Zenon DEF MonthNo
<1> QED
  BY <1>1, Invariance, PTL

\* A day its inferred year does not have is dropped, not carried into March.
THEOREM LeapDayStays == Spec => []LeapDayIsNotMoved
<1>1. IInv => LeapDayIsNotMoved
  BY AnswerIs DEF LeapDayIsNotMoved
<1> QED
  BY <1>1, Invariance, PTL
=============================================================================
