----------------------------- MODULE TimeLayouts -----------------------------
(***************************************************************************)
(* The direct timestamp parsers of timeparse.go and the loop over          *)
(* time.Parse they stand in front of.  A parser may decline, and then the  *)
(* loop decides; a value it takes it must read as the loop would, down to  *)
(* the layouts' habits: a fraction nobody asked for, offsets of 24 hours,  *)
(* a zone named UTC whose offset is not looked at.                         *)
(*                                                                         *)
(* A value is the fields of its date and clock, with their separators, and *)
(* what follows byte by byte: the layouts of the table differ in how they  *)
(* read that rest.                                                         *)
(***************************************************************************)
EXTENDS Calendar, SequencesExt

-----------------------------------------------------------------------------
(* Numbers in text.  A position is counted from 1.                         *)

Digits  == {ToString(n) : n \in 0..9}
DigitOf == [c \in Digits |-> CHOOSE n \in 0..9 : ToString(n) = c]

\* The number spelled from i to j, as far as there are digits.
Decimal(s, i, j) ==
  FoldLeft(LAMBDA n, k : n * 10 + (IF k \in DOMAIN s /\ s[k] \in Digits THEN DigitOf[s[k]] ELSE 0),
           0, [k \in 1..(j - i + 1) |-> i + k - 1])

In(s, i, set)     == i \in DOMAIN s /\ s[i] \in set
RunEnd(s, i, set) == CHOOSE j \in i..(i + Len(s)) : ~ In(s, j, set) /\ \A k \in i..(j - 1) : In(s, k, set)
At(s, i, text)    == i + Len(text) - 1 <= Len(s) /\ SubSeq(s, i, i + Len(text) - 1) = text
Pow10(n)          == 10 ^ n

digits2(s, i) ==
  [ok |-> In(s, i, Digits) /\ In(s, i + 1, Digits), end |-> i + 2,
   n |-> Decimal(s, i, i + 1)]

\* All the digits are read, the first nine count.
fracSecond9(s, i) ==
  LET j == RunEnd(s, i + 1, Digits)
      kept == IF j - i - 1 < 9 THEN j - i - 1 ELSE 9
  IN  IF In(s, i, {".", ","}) /\ In(s, i + 1, Digits)
        THEN [ok |-> TRUE, ns |-> Decimal(s, i + 1, i + kept) * Pow10(9 - kept), end |-> j]
        ELSE [ok |-> TRUE, ns |-> 0, end |-> i]

fracExactN(s, i, n) ==
  [ok |-> In(s, i, {".", ","}) /\ \A k \in (i + 1)..(i + n) : In(s, k, Digits),
   ns |-> Decimal(s, i + 1, i + n) * Pow10(9 - n),
   end |-> i + n + 1]

Signed(s, i, n) == IF In(s, i, {"-"}) THEN - n ELSE n

\* Hours and minutes that are an offset if the marks around them are right.
Offset(marked, sign, hh, mm) ==
  [ok |-> marked /\ hh.ok /\ mm.ok /\ hh.n <= 24 /\ mm.n <= 60,
   offset |-> sign * (hh.n * 60 + mm.n) * 60, end |-> mm.end]

zoneColon(s, i) ==
  Offset(In(s, i, {"+", "-"}) /\ In(s, i + 3, {":"}), Signed(s, i, 1),
         digits2(s, i + 1), digits2(s, i + 4))

-----------------------------------------------------------------------------
(* The direct parsers *)

clockValid(c) == c.hour < 24 /\ c.minute < 60 /\ c.second < 60
DateValid(c)  == c.month \in 1..12 /\ (c.month \in 1..12 => c.day \in 1..daysInMonth(c.month, c.year))

utcStamp(c, ns, offset) ==
  [sec |-> daysFromCivil(c.year, c.month, c.day) * 86400
             + c.hour * 3600 + c.minute * 60 + c.second - offset,
   ns |-> ns]

Unclaimed == [ok |-> FALSE]
Claimed(c, ns, offset) == [ok |-> TRUE, at |-> utcStamp(c, ns, offset)]

parseStamp19(c, date) == c.date = date /\ c.sep = " " /\ DateValid(c) /\ clockValid(c)

\* What a parser claims: a stamp whose date has that separator, and a rest of a
\* fraction f and an offset that ends where the value does.
ClaimIf(fits, c, date, ns, offset) ==
  IF fits /\ parseStamp19(c, date) THEN Claimed(c, ns, offset) ELSE Unclaimed
AtEnd(f, s) == f.ok /\ f.end = Len(s) + 1
WithFraction(c, date, s, f) == ClaimIf(AtEnd(f, s), c, date, f.ns, 0)

\* Mutant: what follows the fraction is not looked at.
SlashAnyRest(c, s) ==
  LET f == fracSecond9(s, 1) IN ClaimIf(TRUE, c, "/", f.ns, 0)
parseYmdSlashTime(c, s) == WithFraction(c, "/", s, fracSecond9(s, 1))

parseYmdSlash6Time(c, s) == WithFraction(c, "/", s, fracExactN(s, 1, 6))

\* A fraction of three digits, or none; its end is where it ends.
NoFraction == [ok |-> TRUE, ns |-> 0, end |-> 1]
ThreeOrNone(s) == IF In(s, 1, {".", ","}) THEN fracExactN(s, 1, 3) ELSE NoFraction

parseMsSpaceTime(c, s) == WithFraction(c, "-", s, ThreeOrNone(s))

WithZone(c, s, ns, z) == ClaimIf(AtEnd(z, s), c, "-", ns, z.offset)
SpacedOffset(c, s, f) ==
  IF f.ok /\ In(s, f.end, {" "}) THEN WithZone(c, s, f.ns, zoneColon(s, f.end + 1)) ELSE Unclaimed
parseMsSpaceTSTime(c, s) == SpacedOffset(c, s, ThreeOrNone(s))

ZOrOffset(s, i) ==
  IF In(s, i, {"Z"}) THEN [ok |-> TRUE, offset |-> 0, end |-> i + 1] ELSE zoneColon(s, i)
FractionAndZone(c, s, f) == WithZone(c, s, f.ns, ZOrOffset(s, f.end))
parseRfc3339SpaceZTime(c, s) == FractionAndZone(c, s, fracSecond9(s, 1))

parsePlainDateTime(c, s) == WithFraction(c, "-", s, NoFraction)

\* klog's stamp, its year supplied: YearInference says by whom.
parseKlogTime(c, s) == WithFraction(c, "MMDD", s, IF s = << >> THEN NoFraction ELSE fracExactN(s, 1, 6))

UpperCase == {"A", "C", "E", "G", "M", "S", "T", "U", "W", "I"}
Closing   == {"}", "]", ",", ")", "quote"}

Trimmed(s) == SubSeq(s, 1, Max({i \in DOMAIN s : s[i] \notin Closing} \cup {0}))

\* Zone names whose reading by time.Parse is certain.
ZoneNameCertain(zone) ==
  /\ Len(zone) \in 3..5 /\ \A j \in DOMAIN zone : zone[j] \in UpperCase
  /\ Len(zone) > 3 =>
       Last(zone) = "T" /\ ~ At(zone, 1, <<"G", "M", "T">>) /\ ~ At(zone, 1, <<"U", "T", "C">>)

\* From the space behind the fraction on, at i.
GoZone(c, s, ns, i, z, zone) ==
  IF In(s, i, {" "}) /\ z.ok /\ In(s, i + 6, {" "}) /\ ZoneNameCertain(zone)
    THEN ClaimIf(TRUE, c, "-", ns, IF zone = <<"U", "T", "C">> THEN 0 ELSE z.offset)
    ELSE Unclaimed
GoOffset(s, i) ==
  Offset(In(s, i, {"+", "-"}), Signed(s, i, 1), digits2(s, i + 1), digits2(s, i + 3))
GoFraction(c, s, f) ==
  GoZone(c, s, f.ns, f.end, GoOffset(s, f.end + 1), SubSeq(s, f.end + 7, Len(s)))
GoTrimmed(c, s) == GoFraction(c, s, fracSecond9(s, 1))

parseGoStringTime(c, val) == GoTrimmed(c, Trimmed(val))

-----------------------------------------------------------------------------
(* The layouts.  frac is the digits a fraction must have, AnyLength if it may  *)
(* be missing or of any length, Unnamed if the layout names none; a zone is *)
(* a token, a literal name, or absent.                                     *)

AnyLength == 9
Unnamed   == 0
Layout(date, sep, frac, zone) == [date |-> date, sep |-> sep, frac |-> frac, zone |-> zone]

NumberZones  == {"Z07:00", " -07:00", " -0700", " -0700 MST"}
LiteralZones == {" UTC ", " GMT "}

\* Layout lists of the table: all that have a direct parser, and of the rest
\* those that are needed for the zone answer.  Left out are Apache's (with the
\* year last), Redis's ("02 Jan 2006 ..."), "02/01/2006 ..." and "2006 Jan _2
\* ...", which go to time.Parse alone and carry no zone.
Lists ==
  [ymdSlash   |-> <<Layout("/", " ", AnyLength, "")>>,
   ymdSlash6  |-> <<Layout("/", " ", 6, "")>>,
   msSpace    |-> <<Layout("-", " ", 3, ""), Layout("-", " ", Unnamed, "")>>,
   msSpaceTS  |-> <<Layout("-", " ", 3, " -07:00"), Layout("-", " ", Unnamed, " -07:00")>>,
   rfc3339    |-> <<Layout("-", "T", AnyLength, "Z07:00")>>,
   rfc3339Space |-> <<Layout("-", " ", AnyLength, "Z07:00")>>,
   plain      |-> <<Layout("-", " ", Unnamed, "")>>,
   klog       |-> <<Layout("MMDD", " ", 6, ""), Layout("MMDD", " ", Unnamed, "")>>,
   nginx      |-> <<Layout("/Jan/", ":", Unnamed, " -0700"), Layout("/Jan/", " ", Unnamed, "")>>,
   date1      |-> <<Layout("Mon", " ", Unnamed, " UTC "), Layout("Mon", " ", Unnamed, " GMT ")>>,
   goString   |-> <<Layout("-", " ", AnyLength, " -0700 MST")>>]

fastLayoutTime(list, c, s) ==
  CASE list = "ymdSlash"     -> parseYmdSlashTime(c, s)
    [] list = "ymdSlash6"    -> parseYmdSlash6Time(c, s)
    [] list = "msSpace"      -> parseMsSpaceTime(c, s)
    [] list = "msSpaceTS"    -> parseMsSpaceTSTime(c, s)
    [] list = "rfc3339Space" -> parseRfc3339SpaceZTime(c, s)
    [] list = "plain"        -> parsePlainDateTime(c, s)
    [] list = "klog"         -> parseKlogTime(c, s)
    [] OTHER                 -> Unclaimed

\* Mutant: only RFC 3339's own token counts as a zone.
HasZToken(layout) == layout.zone = "Z07:00"

layoutHasZone(layout) == layout.zone \in NumberZones \cup LiteralZones
allLayoutsHaveZone(ts) == ts # << >> /\ \A i \in DOMAIN ts : layoutHasZone(ts[i])

-----------------------------------------------------------------------------
(* time.Parse, from the seconds on (external) *)

Refused == [ok |-> FALSE]

\* Fraction: a layout that names none takes any; an exact one may carry a sign.
TakeFraction(frac, s) ==
  LET j     == RunEnd(s, 2, Digits)
      last  == IF j - 1 < 10 THEN j - 1 ELSE 10
      first == IF In(s, 2, {"+", "-"}) THEN 3 ELSE 2
      n     == Decimal(s, first, frac + 1)
  IN  IF frac \in {AnyLength, Unnamed}
        THEN IF In(s, 1, {".", ","}) /\ In(s, 2, Digits)
               THEN [ok |-> TRUE, end |-> j, ns |-> Decimal(s, 2, last) * Pow10(10 - last)]
               ELSE [ok |-> TRUE, end |-> 1, ns |-> 0]
        ELSE IF /\ In(s, 1, {".", ","}) /\ \A k \in first..(frac + 1) : In(s, k, Digits)
                /\ In(s, 2, {"-"}) => n = 0
               THEN [ok |-> TRUE, end |-> frac + 2, ns |-> n * Pow10(9 - frac)]
               ELSE Refused

\* One space of a layout stands for any number of them.
AfterSpaces(s, i) == RunEnd(s, i, {" "})
SpaceFits(s, i)   == i > Len(s) \/ s[i] = " "

TakeNumberZone(s, i, colon) ==
  Offset(In(s, i, {"+", "-"}) /\ (colon => In(s, i + 3, {":"})), Signed(s, i, 1),
         digits2(s, i + 1), digits2(s, IF colon THEN i + 4 ELSE i + 3))

\* The letters of a zone name at i that parseTimeZone takes; 0 for none.
NameLength(s, i) ==
  LET n == RunEnd(s, i, UpperCase) - i
  IN  CASE At(s, i, <<"G", "M", "T">>) -> 3
        [] n = 3 -> 3
        [] n = 4 /\ (s[i + 3] = "T" \/ At(s, i, <<"W", "I", "T", "A">>)) -> 4
        [] n = 5 /\ s[i + 4] = "T" -> 5
        [] OTHER -> 0

UTCAt(end) == [ok |-> TRUE, end |-> end, offset |-> 0]

\* The name behind an offset z; a zone named UTC has no other.
NamedAt(s, i, z) ==
  IF At(s, i, <<"U", "T", "C">>) THEN UTCAt(i + 3)
  ELSE [ok |-> NameLength(s, i) # 0, end |-> i + NameLength(s, i), offset |-> z.offset]
WithName(s, z) ==
  IF ~ z.ok THEN Refused
  ELSE IF ~ SpaceFits(s, z.end) THEN Refused
  ELSE NamedAt(s, AfterSpaces(s, z.end), z)

LiteralAt(s, k, name) ==
  IF At(s, k, name) /\ In(s, k + 3, {" "}) THEN UTCAt(AfterSpaces(s, k + 3)) ELSE Refused

\* A zone behind a space, from k on.
SpacedZone(zone, s, k) ==
  CASE zone = " UTC " -> LiteralAt(s, k, <<"U", "T", "C">>)
    [] zone = " GMT " -> LiteralAt(s, k, <<"G", "M", "T">>)
    [] zone = " -0700 MST" -> WithName(s, TakeNumberZone(s, k, FALSE))
    [] OTHER -> TakeNumberZone(s, k, zone = " -07:00")

TakeZone(zone, s, i) ==
  CASE zone = "" -> UTCAt(i)
    [] zone = "Z07:00" -> IF In(s, i, {"Z"}) THEN UTCAt(i + 1) ELSE TakeNumberZone(s, i, TRUE)
    [] OTHER -> IF SpaceFits(s, i) THEN SpacedZone(zone, s, AfterSpaces(s, i)) ELSE Refused

\* The stamp of a value whose fraction and zone are read, to its end.
Ending(c, s, ns, z) ==
  IF ~ z.ok THEN Refused
  ELSE IF z.end # Len(s) + 1 THEN Refused
  ELSE [ok |-> TRUE, at |-> utcStamp(c, ns, z.offset)]
FromFraction(layout, c, s, f) ==
  IF ~ f.ok THEN Refused ELSE Ending(c, s, f.ns, TakeZone(layout.zone, s, f.end))

timeParse(layout, c, s) ==
  IF c.date = layout.date /\ c.sep = layout.sep /\ DateValid(c) /\ clockValid(c)
    THEN FromFraction(layout, c, s, TakeFraction(layout.frac, s)) ELSE Refused

-----------------------------------------------------------------------------
(* The loop *)

NoTime == [ok |-> FALSE]
Time(at, zoned) == [ok |-> TRUE, at |-> at, zoned |-> zoned]

\* The first layout that parses decides, and says whether a zone was read.
FirstOk(ts, parsed) ==
  LET oks == {i \in DOMAIN ts : parsed[i].ok}
  IN  IF oks = {} THEN NoTime ELSE Time(parsed[Min(oks)].at, layoutHasZone(ts[Min(oks)]))
FirstThatParses(ts, c, s) == FirstOk(ts, [i \in DOMAIN ts |-> timeParse(ts[i], c, s)])

\* A layout whose byte at index ten is a T where the value's is none, or the
\* other way round, is not tried.
Skipped(layout, c) == (layout.sep = "T") # (c.sep = "T")

FastOrLoop(ts, fast, c, s) ==
  IF fast.ok THEN Time(fast.at, allLayoutsHaveZone(ts))
  ELSE FirstThatParses(SelectSeq(ts, LAMBDA l : ~ Skipped(l, c)), c, s)
parseLayoutTime(list, c, s) == FastOrLoop(Lists[list], fastLayoutTime(list, c, s), c, s)

-----------------------------------------------------------------------------
(* Properties *)

\* Neither the direct parser nor the skipped layouts change what the loop over
\* all layouts would have answered, the instant and whether it had a zone.
FastChangesOnlySpeed(core, rest) ==
  \A list \in DOMAIN Lists : parseLayoutTime(list, core, rest) = FirstThatParses(Lists[list], core, rest)

\* The parser in front of logfmt.ParseTime reads what time.Parse reads from the
\* value without its closing delimiters.
GoStringAgrees(core, rest) ==
  LET fast == parseGoStringTime(core, rest)
  IN  fast.ok => fast = timeParse(Lists["goString"][1], core, Trimmed(rest))

\* A time is reported as zoned exactly if its text states an offset or names a
\* zone whose offset is zero everywhere.
StatesZone(s) ==
  LET n == Len(s)
  IN  \/ In(s, n, {"Z"})
      \/ \E i \in DOMAIN s : s[i] \in {"+", "-"} /\ ~ In(s, i - 1, {".", ","})
      \/ \E i \in DOMAIN s : At(s, i, <<"U", "T", "C">>) \/ At(s, i, <<"G", "M", "T">>)
ZonedMeansStated(core, rest) ==
  \A list \in DOMAIN Lists :
    LET t == parseLayoutTime(list, core, rest)
    IN  t.ok => (t.zoned <=> StatesZone(rest))

\* What the layout itself would write, a fraction of its own length and an
\* offset of the usual range, is not left to the loop.
Fraction(n) == {[i \in 1..(n + 1) |-> IF i = 1 THEN "." ELSE d] : d \in Digits}
Usual(list) ==
  CASE list = "ymdSlash"     -> {<< >>} \cup UNION {Fraction(n) : n \in 1..9}
    [] list = "ymdSlash6"    -> Fraction(6)
    [] list = "msSpace"      -> {<< >>} \cup Fraction(3)
    [] list = "msSpaceTS"    -> {f \o <<" ", "+", "0", "2", ":", "3", "0">> : f \in {<< >>} \cup Fraction(3)}
    [] list = "rfc3339Space" -> {f \o <<"Z">> : f \in {<< >>} \cup UNION {Fraction(n) : n \in 1..9}}
    [] list = "plain"        -> {<< >>}
    [] list = "klog"         -> {<< >>} \cup Fraction(6)
    [] OTHER                 -> {}
UsualShapeIsFast(core, rest) ==
  \A list \in DOMAIN Lists :
    /\ rest \in Usual(list)
    /\ FirstThatParses(Lists[list], core, rest).ok
    => fastLayoutTime(list, core, rest).ok
=============================================================================
