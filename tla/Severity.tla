------------------------------ MODULE Severity ------------------------------
(***************************************************************************)
(* The severity vocabulary of the enrich library (severity.go): the        *)
(* spelling table, the two conversions between level text and              *)
(* OpenTelemetry SeverityNumber, and the graders that turn a status code,  *)
(* a syslog priority or a producer's own mark into a level.                *)
(*                                                                         *)
(* A level text is a string.  What the code does to the bytes of one (case *)
(* folding, cutting a numeric suffix) is given by two finite tables that   *)
(* list the texts the models feed in.                                      *)
(***************************************************************************)
EXTENDS Integers

NoText == ""          \* Go's zero string: no severity, no message, no ID

Levels == {"trace", "debug", "info", "warn", "error", "fatal"}

\* First SeverityNumber of each level; a level owns the four from there.
LevelNo == [trace |-> 1, debug |-> 5, info |-> 9,
            warn |-> 13, error |-> 17, fatal |-> 21]

Warn4LevelNo == 16

SeverityNumbers == 1..24

\* The add(...) calls that fill severityLUT: one row per canonical level and
\* grade, with the lowercase spellings that mean it.
SeverityRows ==
  { [text |-> "trace", no |-> 1, forms |-> {"trac", "trace", "trc", "trce", "verbose",
                                            "vrb", "finer", "finest"}],
    [text |-> "debug", no |-> 5, forms |-> {"d", "debu", "debug", "dbg", "dbug", "fine"}],
    [text |-> "info",  no |-> 9, forms |-> {"i", "inf", "info", "infrmation", "infrmational",
                                            "information", "informational", "normal", "log"}],
    [text |-> "info",  no |-> 10, forms |-> {"notice", "ntc"}],
    [text |-> "warn",  no |-> 13, forms |-> {"w", "wrn", "warn", "wrning", "warning"}],
    [text |-> "error", no |-> 17, forms |-> {"e", "err", "error", "severe", "fail"}],
    [text |-> "fatal", no |-> 21, forms |-> {"fatal", "f", "ftl", "crit", "critical",
                                             "panic", "pnc"}],
    [text |-> "fatal", no |-> 22, forms |-> {"alert"}],
    [text |-> "fatal", no |-> 23, forms |-> {"emerg", "emergency"}] }

\* lookupSeverity folds ASCII case before probing; these are the cased
\* spellings the models use.
Folded == [WRN |-> "wrn", Error |-> "error", INFO |-> "info", Notice |-> "notice",
           D |-> "d", F |-> "f", I |-> "i", D2 |-> "d2", CRIT |-> "crit"]

\* Texts that end in digits, with the digits cut (strings.TrimRight).
WithoutDigits == [d2 |-> "d", trace2 |-> "trace", info2 |-> "info"]

Fold(s) == IF s \in DOMAIN Folded THEN Folded[s] ELSE s

\* The table itself, keyed by spelling.
severityLUT ==
  [s \in UNION {r.forms : r \in SeverityRows} |->
     LET r == CHOOSE r \in SeverityRows : s \in r.forms
     IN  [text |-> r.text, no |-> r.no]]

Named(s) == s \in DOMAIN severityLUT

NoSeverity == [text |-> NoText, no |-> 0]
Graded(text, no) == [text |-> text, no |-> no]

\* A numeric suffix is accepted on the trace and debug spellings only.
SeverityFromText(input) ==
  LET s == Fold(input)
      t == IF s \in DOMAIN WithoutDigits THEN WithoutDigits[s] ELSE s
  IN  IF Named(s) THEN severityLUT[s]
      ELSE IF Named(t) /\ severityLUT[t].text \in {"trace", "debug"} THEN severityLUT[t]
      ELSE NoSeverity

SeverityFromNumber(n) ==
  CASE n \in 1..4   -> "trace"
    [] n \in 5..8   -> "debug"
    [] n \in 9..12  -> "info"
    [] n \in 13..16 -> "warn"
    [] n \in 17..20 -> "error"
    [] n \in 21..24 -> "fatal"
    [] OTHER        -> NoText

-----------------------------------------------------------------------------
(* HTTP status codes *)

StatusKinds == {"Observed", "Failure"}

HTTPStatusSeverity(code, kind) ==
  CASE code \notin 0..599                      -> NoText
    [] code = 0                                -> "error"
    [] kind = "Failure" /\ code \in 400..499   -> "error"
    [] code \in 100..399                       -> "info"
    [] OTHER                                   -> "warn"

\* setHTTPResponseCode: a code outside 0..599 is ignored; one from 100 is
\* recorded whatever becomes of the level; the level is the code's, if it has
\* one, unless an observed code meets a level other than info.

IsStatus(code) == code \in 0..599

\* Mutant: everything the early return lets through is recorded.
AnyRecorded(code) == TRUE
Recorded(code) == code >= 100

\* Mutant: an info line is no longer upgraded by the code it reports.
GradesUnlevelled(severity, kind) == kind = "Failure" \/ severity = NoText
Grades(severity, kind) == kind = "Failure" \/ severity \in {NoText, "info"}

\* res is any record with the fields Severity and HTTPStatusCode.
SetHTTPResponseCode(res, code, kind) ==
  IF ~ IsStatus(code) THEN res
  ELSE [res EXCEPT
          !.HTTPStatusCode = IF Recorded(code) THEN code ELSE @,
          !.Severity = IF Grades(@, kind) /\ HTTPStatusSeverity(code, kind) # NoText
                         THEN HTTPStatusSeverity(code, kind) ELSE @]

-----------------------------------------------------------------------------
(* Syslog priorities and the marks of single producers *)

SyslogSeverity(level) ==
  CASE level = 0 -> Graded("fatal", 23)
    [] level = 1 -> Graded("fatal", 22)
    [] level = 2 -> Graded("fatal", 21)
    [] level = 3 -> Graded("error", 17)
    [] level = 4 -> Graded("warn", 13)
    [] level = 5 -> Graded("info", 10)
    [] level = 6 -> Graded("info", 9)
    [] level = 7 -> Graded("debug", 5)
    [] OTHER     -> NoSeverity

\* n is the one- or two-digit number after the first "level": of the raw line.
PinoSeverity(n) ==
  CASE n \div 10 = 1 -> "trace"
    [] n \div 10 = 2 -> "debug"
    [] n \div 10 = 3 -> "info"
    [] n \div 10 = 4 -> "warn"
    [] n \div 10 = 5 -> "error"
    [] n \div 10 = 6 -> "fatal"
    [] OTHER         -> NoText

RedisSeverity(mark) ==
  CASE mark \in {".", "-"} -> "debug"
    [] mark = "*"          -> "info"
    [] mark = "#"          -> "warn"
    [] OTHER               -> NoText

\* The logger/message pairs a producer writes at error level for a condition
\* nobody has to act on.  Both halves must match whole.
BenignPairs ==
  { <<"plugins.store", "Failed to get plugin">>,
    <<"secrets.kvstore", "error getting secret value">>,
    <<"grafana-apiserver", "[SHOULD NOT HAPPEN] failed to update managedFields">> }

BenignError(logger, msg) == <<logger, msg>> \in BenignPairs
BenignMessage(msg) == \E pair \in BenignPairs : pair[2] = msg
=============================================================================
