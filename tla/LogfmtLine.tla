----------------------------- MODULE LogfmtLine -----------------------------
(***************************************************************************)
(* What a logfmt line says, stated over the whole line at once: the        *)
(* promise enrichFromLogFmt's documentation makes, with no scan, no        *)
(* callback and no early exit.                                             *)
(*                                                                         *)
(*   - the first parseable timestamp wins, as does the first valid trace   *)
(*     or span ID and the first non-empty message and logger;              *)
(*   - the first level that normalizes wins over any that does not; only   *)
(*     when none does is the first non-empty text kept;                    *)
(*   - explicit IDs win over a traceparent, which fills the side they      *)
(*     leave empty.                                                        *)
(*                                                                         *)
(* A line is the sequence of key/value pairs the logfmt reader (an         *)
(* external library) hands to the callback.  The key spellings of one      *)
(* switch case are one key here; "other" is every key the length gate      *)
(* rejects.  A "ts" value is what the two timestamp parsers make of it.    *)
(* A bare pair has no '=' of its own.                                      *)
(***************************************************************************)
EXTENDS Severity, Identifiers, Sequences, FiniteSetsExt

CONSTANTS
  Times,             \* the instants a timestamp can parse to
  LevelTexts,        \* the values a level key can carry
  Messages           \* the values a message or logger key can carry

NoTime == ""

ASSUME LogfmtAssumption == NoTime \notin Times

Pair ==
       [key : {"ts"}, time : Times \cup {NoTime}, bare : BOOLEAN]
  \cup [key : {"level"}, level : LevelTexts, bare : BOOLEAN]
  \cup [key : {"msg", "logger"}, text : Messages, bare : BOOLEAN]
  \cup [key : {"trace"}, trace : TraceText, bare : BOOLEAN]
  \cup [key : {"span"}, span : SpanText, bare : BOOLEAN]
  \cup [key : {"traceparent"}, tp : Traceparent, bare : BOOLEAN]
  \cup [key : {"other"}, bare : BOOLEAN]

-----------------------------------------------------------------------------
(* What one pair can contribute *)

HasTime(p)    == p.key = "ts" /\ p.time # NoTime
HasLevel(p)   == p.key = "level" /\ SeverityFromText(p.level) # NoSeverity
HasRawLevel(p) == p.key = "level" /\ p.level # NoText
HasMsg(p)     == p.key = "msg" /\ p.text # NoText
HasLogger(p)  == p.key = "logger" /\ p.text # NoText
HasTrace(p)   == p.key = "trace" /\ ValidTraceID(p.trace)
HasSpan(p)    == p.key = "span" /\ ValidSpanID(p.span)
HasParent(p)  == p.key = "traceparent" /\ ParseTraceparent(p.tp) # NoIDs

\* The positions of the pairs that satisfy Q, and the first such pair.
Hits(line, Q(_)) == {i \in DOMAIN line : Q(line[i])}
Some(line, Q(_)) == Hits(line, Q) # {}
First(line, Q(_)) == line[Min(Hits(line, Q))]

-----------------------------------------------------------------------------
(* What the whole line says *)

\* A line without a single '=' is not looked at.
HasEquals(line) == \E i \in DOMAIN line : ~ line[i].bare

LineTime(line) ==
  IF Some(line, HasTime) THEN First(line, HasTime).time ELSE NoTime

LineLevel(line) ==
  IF Some(line, HasLevel) THEN SeverityFromText(First(line, HasLevel).level)
  ELSE IF Some(line, HasRawLevel) THEN Graded(First(line, HasRawLevel).level, 0)
  ELSE NoSeverity

LineMessage(line) ==
  IF Some(line, HasMsg) THEN First(line, HasMsg).text ELSE NoText

LineLogger(line) ==
  IF Some(line, HasLogger) THEN First(line, HasLogger).text ELSE NoText

LineParent(line) ==
  IF Some(line, HasParent) THEN ParseTraceparent(First(line, HasParent).tp) ELSE NoIDs

LineTrace(line) ==
  IF Some(line, HasTrace) THEN Undashed(First(line, HasTrace).trace)
  ELSE LineParent(line).trace

LineSpan(line) ==
  IF Some(line, HasSpan) THEN First(line, HasSpan).span.id ELSE LineParent(line).span

\* A line is claimed by a timestamp, a level, known or not, or a trace ID.

\* Mutant: a trace ID alone no longer claims the line.
ClaimsWithoutTrace(time, level, trace) == time # NoTime \/ level.text # NoText
Claims(time, level, trace) == time # NoTime \/ level.text # NoText \/ trace # NoID

\* The fields enrichFromLogFmt writes, and whether it claims the line.
NothingRead ==
  [time |-> NoTime, level |-> NoSeverity, msg |-> NoText, logger |-> NoText,
   trace |-> NoID, span |-> NoID, claimed |-> FALSE]

Outcome(line) ==
  IF ~ HasEquals(line) THEN NothingRead
  ELSE [time    |-> LineTime(line),
        level   |-> LineLevel(line),
        msg     |-> LineMessage(line),
        logger  |-> LineLogger(line),
        trace   |-> LineTrace(line),
        span    |-> LineSpan(line),
        claimed |-> Claims(LineTime(line), LineLevel(line), LineTrace(line))]
=============================================================================
