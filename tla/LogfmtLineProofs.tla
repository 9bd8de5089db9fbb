-------------------------- MODULE LogfmtLineProofs --------------------------
(***************************************************************************)
(* Lemmas about least positions; about the severity tables, for every text *)
(* and every number; and about logfmt lines of any length: what their      *)
(* pairs carry, and what the whole line says, is of the types of the       *)
(* Result's fields.                                                        *)
(***************************************************************************)
EXTENDS LogfmtLine, WellFoundedInduction, TLAPS

(* Least positions *)

\* A non-empty set of naturals has a least member, and Min is that member.
LEMMA MinIsLeast ==
  ASSUME NEW S \in SUBSET Nat, S # {}
  PROVE  /\ Min(S) \in S
         /\ \A y \in S : Min(S) <= y
<1> DEFINE R == OpToRel(<, Nat)
<1>1. IsWellFoundedOn(R, Nat)
  BY NatLessThanWellFounded
<1>2. \E x \in S : \A y \in S : ~ (<<y, x>> \in R)
  <2> HIDE DEF R
  <2> QED BY <1>1, WFMin
<1>3. \A x, y \in Nat : x < y => <<x, y>> \in R
  BY Zenon DEF R, OpToRel
<1>4. \E x \in S : \A y \in S : x <= y
  <2> HIDE DEF R
  <2>1. PICK x \in S : \A y \in S : ~ (<<y, x>> \in R)
    BY <1>2
  <2>2. ASSUME NEW y \in S PROVE x <= y
    <3>1. x \in Nat /\ y \in Nat
      OBVIOUS
    <3>2. ~ (y < x)
      BY <2>1, <1>3, <3>1
    <3>3. QED
      BY <3>1, <3>2
  <2>3. QED
    BY <2>2
<1>5. QED
  BY <1>4 DEF Min

\* Whatever is a least member of a set of naturals is its Min.
LEMMA LeastIsMin ==
  ASSUME NEW S \in SUBSET Nat, NEW x \in S, \A y \in S : x <= y
  PROVE  Min(S) = x
<1>1. Min(S) \in S /\ Min(S) <= x
  BY MinIsLeast
<1>2. x <= Min(S)
  BY <1>1
<1>3. x \in Nat /\ Min(S) \in Nat
  BY <1>1
<1>4. QED
  BY <1>1, <1>2, <1>3

-----------------------------------------------------------------------------
(* Severity tables *)

\* The first numbers of the levels and the finer grades, read back.
LEMMA NumbersReadBack ==
  /\ SeverityFromNumber(0) = NoText
  /\ SeverityFromNumber(1) = "trace"
  /\ SeverityFromNumber(5) = "debug"
  /\ SeverityFromNumber(9) = "info" /\ SeverityFromNumber(10) = "info"
  /\ SeverityFromNumber(13) = "warn" /\ SeverityFromNumber(16) = "warn"
  /\ SeverityFromNumber(17) = "error"
  /\ SeverityFromNumber(21) = "fatal" /\ SeverityFromNumber(22) = "fatal"
  /\ SeverityFromNumber(23) = "fatal"
BY DEF SeverityFromNumber

\* What a row of the table is.
LEMMA RowFacts ==
  ASSUME NEW r \in SeverityRows
  PROVE  /\ r.text \in Levels
         /\ r.no \in SeverityNumbers
         /\ SeverityFromNumber(r.no) = r.text
<1>1. \/ r.text = "trace" /\ r.no = 1
      \/ r.text = "debug" /\ r.no = 5
      \/ r.text = "info"  /\ r.no \in {9, 10}
      \/ r.text = "warn"  /\ r.no = 13
      \/ r.text = "error" /\ r.no = 17
      \/ r.text = "fatal" /\ r.no \in {21, 22, 23}
  BY DEF SeverityRows
<1>2. QED
  BY <1>1, NumbersReadBack DEF Levels, SeverityNumbers

\* severityLUT maps every spelling to the text and number of a row.
LEMMA LUTFacts ==
  ASSUME NEW s, Named(s)
  PROVE  \E r \in SeverityRows : severityLUT[s] = [text |-> r.text, no |-> r.no]
<1>1. s \in UNION {r.forms : r \in SeverityRows}
  BY DEF Named, severityLUT
<1>2. PICK q \in SeverityRows : s \in q.forms
  BY <1>1
<1> DEFINE c == CHOOSE r \in SeverityRows : s \in r.forms
<1>3. c \in SeverityRows
  BY <1>2
<1>4. severityLUT[s] = [text |-> c.text, no |-> c.no]
  BY <1>1 DEF severityLUT
<1>5. QED
  BY <1>3, <1>4

\* SeverityFromText returns one of the canonical levels with a number of that
\* level, or nothing at all; SeverityFromNumber is its inverse (severity.go's
\* own words for the two functions).
LEMMA SeverityRoundTrip ==
  ASSUME NEW s
  PROVE  LET g == SeverityFromText(s) IN
           /\ g \in [text : Levels \cup {NoText}, no : 0..24]
           /\ SeverityFromNumber(g.no) = g.text
           /\ g.text = NoText <=> g = NoSeverity
<1> DEFINE f == Fold(s)
           t == IF f \in DOMAIN WithoutDigits THEN WithoutDigits[f] ELSE f
           g == SeverityFromText(s)
<1>0. NoText \notin Levels
  BY DEF NoText, Levels
<1>1. CASE \E x : Named(x) /\ g = severityLUT[x]
  <2>1. PICK r \in SeverityRows : g = [text |-> r.text, no |-> r.no]
    BY <1>1, LUTFacts
  <2>2. QED
    BY <2>1, <1>0, RowFacts DEF NoSeverity, SeverityNumbers
<1>2. CASE g = NoSeverity
  <2>1. g.text = NoText /\ g.no = 0 /\ g \in [text : Levels \cup {NoText}, no : 0..24]
    BY <1>2 DEF NoSeverity
  <2>2. QED
    BY <1>2, <2>1, NumbersReadBack
<1>3. g = NoSeverity \/ \E x : Named(x) /\ g = severityLUT[x]
  BY DEF SeverityFromText
<1>4. QED
  BY <1>1, <1>2, <1>3

\* Whatever the code and its kind, grading a status yields a level or nothing,
\* and nothing exactly for a code outside 0..599.
LEMMA StatusGrade ==
  ASSUME NEW code \in Int, NEW kind
  PROVE  /\ HTTPStatusSeverity(code, kind) \in Levels \cup {NoText}
         /\ code \in 0..599 => HTTPStatusSeverity(code, kind) \in Levels
BY DEF HTTPStatusSeverity, Levels, NoText

\* A failing status is an error or a warning.
LEMMA FailingGrade ==
  ASSUME NEW code \in Int, 400 <= code, code <= 599, NEW kind
  PROVE  HTTPStatusSeverity(code, kind) \in {"error", "warn"}
<1>1. code \in 0..599 /\ code # 0 /\ ~ (code \in 100..399)
  <2>1. code \in 0..599
    OBVIOUS
  <2>2. code # 0
    OBVIOUS
  <2>3. ~ (code \in 100..399)
    OBVIOUS
  <2>4. QED
    BY <2>1, <2>2, <2>3
<1>2. CASE kind = "Failure" /\ code \in 400..499
  BY <1>1, <1>2 DEF HTTPStatusSeverity
<1>3. CASE ~ (kind = "Failure" /\ code \in 400..499)
  BY <1>1, <1>3 DEF HTTPStatusSeverity
<1>4. QED
  BY <1>2, <1>3

\* A syslog priority is graded to a level with a number of that level.
LEMMA SyslogGrade ==
  ASSUME NEW level
  PROVE  SyslogSeverity(level) \in [text : Levels \cup {NoText}, no : 0..24]
BY DEF SyslogSeverity, Graded, NoSeverity, Levels, NoText

\* A pino number is graded to a level or to nothing.
LEMMA PinoGrade ==
  ASSUME NEW n
  PROVE  PinoSeverity(n) \in Levels \cup {NoText}
BY DEF PinoSeverity, Levels, NoText

\* A SeverityNumber names a level or nothing.
LEMMA NumberGrade ==
  ASSUME NEW n
  PROVE  SeverityFromNumber(n) \in Levels \cup {NoText}
BY DEF SeverityFromNumber, Levels, NoText

\* Each of the six levels is a spelling of itself, and stands for the first of
\* its numbers.
LEMMA LevelSpelled ==
  ASSUME NEW s \in Levels
  PROVE  /\ SeverityFromText(s).text = s
         /\ SeverityFromText(s) = Graded(s, LevelNo[s])
<1>1. Fold(s) = s
  BY DEF Fold, Folded, Levels
<1>2. \E row \in SeverityRows : s \in row.forms
  BY DEF SeverityRows, Levels
<1>3. ASSUME NEW row \in SeverityRows, s \in row.forms
      PROVE  row.text = s /\ row.no = LevelNo[s]
  BY <1>3 DEF SeverityRows, Levels, LevelNo
<1>4. Named(s)
  BY <1>2 DEF Named, severityLUT
<1> DEFINE row == CHOOSE r \in SeverityRows : s \in r.forms
<1>5. row \in SeverityRows /\ s \in row.forms
  BY <1>2
<1>6. severityLUT[s] = [text |-> row.text, no |-> row.no]
  BY <1>2 DEF severityLUT
<1> HIDE DEF row
<1>7. row.text = s /\ row.no = LevelNo[s]
  BY <1>3, <1>5
<1>8. SeverityFromText(s) = severityLUT[s]
  BY <1>1, <1>4 DEF SeverityFromText
<1>9. QED
  BY <1>6, <1>7, <1>8 DEF Graded

\* The empty text is no spelling.
LEMMA NoTextUnread == SeverityFromText(NoText) = NoSeverity
<1>1. Fold(NoText) = NoText /\ NoText \notin DOMAIN WithoutDigits
  BY DEF Fold, Folded, NoText, WithoutDigits
<1>2. ~ Named(NoText)
  <2>1. ASSUME NEW row \in SeverityRows PROVE "" \notin row.forms
    <3> DEFINE Trace == {"trac", "trace", "trc", "trce", "verbose", "vrb", "finer", "finest"}
               Debug == {"d", "debu", "debug", "dbg", "dbug", "fine"}
               Info == {"i", "inf", "info", "infrmation", "infrmational", "information",
                     "informational", "normal", "log"}
               Info2 == {"notice", "ntc"}
               Warn == {"w", "wrn", "warn", "wrning", "warning"}
               Error == {"e", "err", "error", "severe", "fail"}
               Fatal == {"fatal", "f", "ftl", "crit", "critical", "panic", "pnc"}
               Fatal2 == {"alert"}
               Fatal3 == {"emerg", "emergency"}
    <3>1. row.forms \in {Trace, Debug, Info, Info2, Warn, Error, Fatal, Fatal2, Fatal3}
      BY DEF SeverityRows
    <3>2. /\ "" \notin Trace /\ "" \notin Debug /\ "" \notin Info /\ "" \notin Info2 /\ "" \notin Warn
          /\ "" \notin Error /\ "" \notin Fatal /\ "" \notin Fatal2 /\ "" \notin Fatal3
      OBVIOUS
    <3> HIDE DEF Trace, Debug, Info, Info2, Warn, Error, Fatal, Fatal2, Fatal3
    <3>3. QED
      BY <3>1, <3>2
  <2>2. QED
    BY <2>1 DEF Named, severityLUT, NoText
<1>3. QED
  BY <1>1, <1>2 DEF SeverityFromText

\* A level with a number: the two name one severity, and normalizing the text
\* again does not change it.
Paired(g) ==
  /\ g \in [text : Levels \cup {NoText}, no : 0..24]
  /\ SeverityFromNumber(g.no) = g.text
  /\ SeverityFromText(g.text).text = g.text

\* A level alone: nothing, or a text the registry knows, with a number that
\* reads back as that very text.
Registered(t) ==
  \/ t = NoText
  \/ /\ t \in Levels
     /\ SeverityFromText(t) = Graded(t, LevelNo[t])
     /\ SeverityFromNumber(LevelNo[t]) = t

\* Such a text and its number are a pair.
LEMMA LevelsRegistered == \A t \in Levels \cup {NoText} : Registered(t)
<1>1. ASSUME NEW t \in Levels PROVE SeverityFromNumber(LevelNo[t]) = t
  BY NumbersReadBack DEF Levels, LevelNo
<1>2. QED
  BY <1>1, LevelSpelled DEF Registered

\* Whatever is mapped to a severity, by text, OpenTelemetry number, syslog
\* priority, HTTP status, pino number or redis mark, is mapped to a level of the
\* one registry, with a number of that level: no two of severity.go's tables
\* disagree, and normalizing what one of them answered is the identity on its
\* text.  Each table answers nothing exactly for the numbers it does not know,
\* and no failing HTTP status is graded to info.
THEOREM MappingsAgree ==
  ASSUME NEW s, NEW n \in Int, NEW kind, NEW mark
  PROVE  /\ Paired(SeverityFromText(s)) /\ Paired(SyslogSeverity(n))
         /\ Registered(SeverityFromNumber(n)) /\ Registered(HTTPStatusSeverity(n, kind))
         /\ Registered(PinoSeverity(n)) /\ Registered(RedisSeverity(mark))
         /\ SeverityFromNumber(n) # NoText <=> n \in SeverityNumbers
         /\ SyslogSeverity(n) # NoSeverity <=> n \in 0..7
         /\ HTTPStatusSeverity(n, kind) # NoText <=> n \in 0..599
         /\ n \in 400..599 => HTTPStatusSeverity(n, kind) # "info"
<1>1. \A t \in Levels \cup {NoText} : SeverityFromText(t).text = t
  BY LevelSpelled, NoTextUnread DEF NoSeverity
<1>2. Paired(SeverityFromText(s))
  BY <1>1, SeverityRoundTrip DEF Paired
<1>3. Paired(SyslogSeverity(n))
  <2>1. SyslogSeverity(n) \in [text : Levels \cup {NoText}, no : 0..24]
    BY SyslogGrade
  <2>2. SeverityFromNumber(SyslogSeverity(n).no) = SyslogSeverity(n).text
    BY NumbersReadBack DEF SyslogSeverity, Graded, NoSeverity
  <2>3. QED
    BY <1>1, <2>1, <2>2 DEF Paired
<1>4. /\ Registered(SeverityFromNumber(n)) /\ Registered(HTTPStatusSeverity(n, kind))
      /\ Registered(PinoSeverity(n)) /\ Registered(RedisSeverity(mark))
  <2>1. RedisSeverity(mark) \in Levels \cup {NoText}
    BY DEF RedisSeverity, Levels, NoText
  <2>2. QED
    BY <2>1, NumberGrade, StatusGrade, PinoGrade, LevelsRegistered
<1>5. SeverityFromNumber(n) # NoText <=> n \in SeverityNumbers
  BY DEF SeverityFromNumber, SeverityNumbers, NoText
<1>6. SyslogSeverity(n) # NoSeverity <=> n \in 0..7
  <2>1. n \in 0..7 => SyslogSeverity(n).text \in Levels
    <3>1. n \in 0..7 => n \in {0, 1, 2, 3, 4, 5, 6, 7}
      OBVIOUS
    <3>2. ASSUME n \in {0, 1, 2, 3, 4, 5, 6, 7}
          PROVE  \E no : SyslogSeverity(n) \in {Graded(t, no) : t \in Levels}
      BY <3>2 DEF SyslogSeverity, Levels
    <3>3. QED
      BY <3>1, <3>2 DEF Graded
  <2>2. n \notin 0..7 => SyslogSeverity(n) = NoSeverity
    BY DEF SyslogSeverity
  <2>3. NoSeverity.text \notin Levels
    BY DEF NoSeverity, NoText, Levels
  <2>4. QED
    BY <2>1, <2>2, <2>3
<1>7. HTTPStatusSeverity(n, kind) # NoText <=> n \in 0..599
  BY DEF HTTPStatusSeverity, NoText
<1>8. n \in 400..599 => HTTPStatusSeverity(n, kind) # "info"
  BY FailingGrade
<1>9. QED
  BY <1>2, <1>3, <1>4, <1>5, <1>6, <1>7, <1>8

-----------------------------------------------------------------------------
(* Logfmt lines *)

\* What a pair of each key carries.
LEMMA PairTyped ==
  ASSUME NEW p \in Pair
  PROVE  /\ p.key = "ts" => p.time \in Times \cup {NoTime}
         /\ p.key = "level" => p.level \in LevelTexts
         /\ p.key \in {"msg", "logger"} => p.text \in Messages
         /\ p.key = "trace" => p.trace \in TraceText
         /\ p.key = "span" => p.span \in SpanText
         /\ p.key = "traceparent" => p.tp \in Traceparent
         /\ p.key \in {"ts", "level", "msg", "logger", "trace", "span", "traceparent", "other"}
BY DEF Pair

\* An identifier that passed its validator is not the empty text, and a
\* traceparent supplies both identifiers or neither.
LEMMA IDsTyped ==
  /\ \A s \in TraceText : s.id \in TraceIDs /\ s.id # NoID
  /\ \A s \in SpanText : s.id \in SpanIDs /\ s.id # NoID
BY IdentifierAssumption DEF TraceText, SpanText, IDText

\* parseTraceparent returns two identifiers or none.
LEMMA ParentTyped ==
  ASSUME NEW v \in Traceparent
  PROVE  /\ ParseTraceparent(v).trace \in TraceIDs \cup {NoID}
         /\ ParseTraceparent(v).span \in SpanIDs \cup {NoID}
         /\ ParseTraceparent(v) \in
              [trace : TraceIDs \cup {NoID}, span : SpanIDs \cup {NoID}]
         /\ ParseTraceparent(v).trace = NoID => ParseTraceparent(v) = NoIDs
<1>1. v.trace \in TraceText /\ v.span \in SpanText
  BY DEF Traceparent
<1>2. QED
  BY <1>1, IDsTyped DEF ParseTraceparent, NoIDs


-----------------------------------------------------------------------------
(* The whole line *)

\* The first pair that satisfies a predicate is a pair that satisfies it: one
\* statement for each signal.
LEMMA FirstTyped ==
  ASSUME NEW pairs \in Seq(Pair)
  PROVE  /\ Some(pairs, HasTime) =>
              First(pairs, HasTime) \in Pair /\ HasTime(First(pairs, HasTime))
         /\ Some(pairs, HasLevel) =>
              First(pairs, HasLevel) \in Pair /\ HasLevel(First(pairs, HasLevel))
         /\ Some(pairs, HasRawLevel) =>
              First(pairs, HasRawLevel) \in Pair /\ HasRawLevel(First(pairs, HasRawLevel))
         /\ Some(pairs, HasMsg) =>
              First(pairs, HasMsg) \in Pair /\ HasMsg(First(pairs, HasMsg))
         /\ Some(pairs, HasLogger) =>
              First(pairs, HasLogger) \in Pair /\ HasLogger(First(pairs, HasLogger))
         /\ Some(pairs, HasTrace) =>
              First(pairs, HasTrace) \in Pair /\ HasTrace(First(pairs, HasTrace))
         /\ Some(pairs, HasSpan) =>
              First(pairs, HasSpan) \in Pair /\ HasSpan(First(pairs, HasSpan))
         /\ Some(pairs, HasParent) =>
              First(pairs, HasParent) \in Pair /\ HasParent(First(pairs, HasParent))
<1>1. \A i \in DOMAIN pairs : i \in Nat /\ pairs[i] \in Pair
  OBVIOUS
<1>2. ASSUME NEW H, H \subseteq DOMAIN pairs, H # {} PROVE Min(H) \in H
  <2>1. H \in SUBSET Nat
    BY <1>1, <1>2
  <2>2. QED
    BY <1>2, <2>1, MinIsLeast
<1>3. QED
  BY <1>1, <1>2 DEF Some, First, Hits

\* Outcome is typed.
LEMMA OutcomeTyped ==
  ASSUME NEW pairs \in Seq(Pair)
  PROVE  LET o == Outcome(pairs) IN
           /\ o.time \in Times \cup {NoTime}
           /\ o.level.text \in {NoText} \cup Levels \cup LevelTexts
           /\ o.level.no \in 0..24
           /\ o.msg \in {NoText} \cup Messages /\ o.logger \in {NoText} \cup Messages
           /\ o.trace \in TraceIDs \cup {NoID} /\ o.span \in SpanIDs \cup {NoID}
           /\ o.claimed \in BOOLEAN
<1>1. LineTime(pairs) \in Times \cup {NoTime}
  BY FirstTyped, PairTyped DEF LineTime, HasTime
<1>2. /\ LineLevel(pairs).text \in {NoText} \cup Levels \cup LevelTexts
      /\ LineLevel(pairs).no \in 0..24
  <2>1. CASE Some(pairs, HasLevel)
    BY <2>1, SeverityRoundTrip DEF LineLevel
  <2>2. CASE ~ Some(pairs, HasLevel) /\ Some(pairs, HasRawLevel)
    <3>1. First(pairs, HasRawLevel).level \in LevelTexts
      BY <2>2, FirstTyped, PairTyped DEF HasRawLevel
    <3>2. QED
      BY <2>2, <3>1 DEF LineLevel, Graded
  <2>3. CASE ~ Some(pairs, HasLevel) /\ ~ Some(pairs, HasRawLevel)
    BY <2>3 DEF LineLevel, NoSeverity
  <2>4. QED
    BY <2>1, <2>2, <2>3
<1>3. LineMessage(pairs) \in {NoText} \cup Messages
  BY FirstTyped, PairTyped DEF LineMessage, HasMsg
<1>4. LineLogger(pairs) \in {NoText} \cup Messages
  BY FirstTyped, PairTyped DEF LineLogger, HasLogger
<1>5. LineParent(pairs).trace \in TraceIDs \cup {NoID} /\ LineParent(pairs).span \in SpanIDs \cup {NoID}
  BY FirstTyped, PairTyped, ParentTyped DEF LineParent, HasParent, NoIDs
<1>6. LineTrace(pairs) \in TraceIDs \cup {NoID}
  BY <1>5, FirstTyped, PairTyped, IDsTyped DEF LineTrace, HasTrace, Undashed
<1>7. LineSpan(pairs) \in SpanIDs \cup {NoID}
  BY <1>5, FirstTyped, PairTyped, IDsTyped DEF LineSpan, HasSpan
<1>8. Claims(LineTime(pairs), LineLevel(pairs), LineTrace(pairs)) \in BOOLEAN
  BY DEF Claims
<1>9. CASE HasEquals(pairs)
  <2>1. Outcome(pairs) =
          [time |-> LineTime(pairs), level |-> LineLevel(pairs), msg |-> LineMessage(pairs),
           logger |-> LineLogger(pairs), trace |-> LineTrace(pairs), span |-> LineSpan(pairs),
           claimed |-> Claims(LineTime(pairs), LineLevel(pairs), LineTrace(pairs))]
    BY <1>9 DEF Outcome
  <2>2. QED
    BY <1>1, <1>2, <1>3, <1>4, <1>6, <1>7, <1>8, <2>1
<1>10. CASE ~ HasEquals(pairs)
  <2>1. Outcome(pairs) = NothingRead
    BY <1>10 DEF Outcome
  <2>2. QED
    BY <2>1 DEF NothingRead, NoSeverity
<1>11. QED
  BY <1>9, <1>10
=============================================================================
