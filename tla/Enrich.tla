------------------------------- MODULE Enrich -------------------------------
(***************************************************************************)
(* fillResult: how one line becomes a Result.                              *)
(*                                                                         *)
(* A JSON line goes through applyJSON's steps, each of which may overwrite *)
(* what an earlier one set; any other line goes through the logfmt scan,   *)
(* the pattern table and the traceparent scan.  Both end in the same       *)
(* normalization.  A JSON line can embed another line (Docker's "log",     *)
(* Azure's properties.log): fillResult then calls itself, and the caller   *)
(* lifts the inner Result into its own before it goes on.                  *)
(*                                                                         *)
(* The calls in progress are a stack of frames.  A step is one function of *)
(* the code, run by the frame on top.                                      *)
(***************************************************************************)
EXTENDS Records

CONSTANTS
  MaxDepth,        \* bound: how deep lines embed lines
  LinesAt          \* [1..MaxDepth -> lines that can occur at that depth]

Embeds(l) == l.kind = "json" /\ (l.f.log \/ l.f.propertiesLog)

ASSUME DepthAssumption == MaxDepth \in Nat \ {0}

ASSUME LinesAssumption ==
  /\ DOMAIN LinesAt = 1..MaxDepth
  /\ \A d \in 1..MaxDepth : \A l \in LinesAt[d] : l \in Line /\ (d = MaxDepth => ~ Embeds(l))

\* A message of the benign list has no '=' in it, and no table entry matches
\* one: a line that is nothing but such a message says nothing else.
ASSUME BenignLinesAssumption ==
  \A d \in 1..MaxDepth : \A l \in LinesAt[d] :
    (l.kind = "text" /\ BenignMessage(l.body)) => ~ HasEquals(l.pairs) /\ ~ l.entry.matched

VARIABLES
  frames,          \* the fillResult calls in progress, the outermost first
  returned         \* what a finished inner call hands to its caller

vars == <<frames, returned>>

\* One call.  at is where it is; res is its *Result; code is the properties
\* status code applyProperties returned; lifted is history: what was merged
\* into this call's Result, in order.
Frame(l) == [line |-> l, at |-> "decode", res |-> ZeroResult, code |-> Absent,
             lifted |-> <<>>]

NoReturn == [some |-> FALSE, res |-> ZeroResult, body |-> NoText]

Init ==
  /\ \E l \in LinesAt[1] : frames = <<Frame(l)>>
  /\ returned = NoReturn

Top == frames[Len(frames)]
F   == Top.line.f

\* The call on top, being at a, moves on to b with the Result r.
Step(a, b, r) ==
  /\ Top.at = a
  /\ frames' = [frames EXCEPT ![Len(frames)].at = b, ![Len(frames)].res = r]
  /\ UNCHANGED returned

\* Mutant: the embedded call is given the record itself.
CallOnItself(a, b) ==
  /\ Top.at = a
  /\ Len(frames) < MaxDepth
  /\ frames' = Append([frames EXCEPT ![Len(frames)].at = b], Frame(Top.line))
  /\ UNCHANGED returned

\* nested := Result{Body: ...}; fillResult(&nested)
Call(a, b) ==
  /\ Top.at = a
  /\ Len(frames) < MaxDepth
  /\ \E l \in LinesAt[Len(frames) + 1] :
       frames' = Append([frames EXCEPT ![Len(frames)].at = b], Frame(l))
  /\ UNCHANGED returned

-----------------------------------------------------------------------------
(* Assignments *)

\* Mutant: an empty field is written like any other.
SetAlways(old, new) == new
SetIfSet(old, new) == IF new # NoText THEN new ELSE old

\* setTime: a timestamp and its zone answer are one assignment.
SetTime(r, t, zoned) == [r EXCEPT !.Time = t, !.TimeHasZone = zoned]

SetSeverity(r, s) == [r EXCEPT !.Severity = s.text, !.SeverityNumber = s.no]

ParseException(r, e) ==
  [r EXCEPT !.ExceptionType = IF e.typed THEN e.type ELSE @,
            !.ExceptionMessage = e.message,
            !.ExceptionStackTrace = IF e.hasStack THEN e.stack ELSE @]


\* Mutant: the embedded timestamp is lifted, its zone answer is not.
LiftTimeOnly(r, n) == [r EXCEPT !.Time = IF n.Time # NoTime THEN n.Time ELSE @]
LiftTime(r, n) == IF n.Time # NoTime THEN SetTime(r, n.Time, n.TimeHasZone) ELSE r

\* Mutant: the span is left behind.
LiftIDsButSpan(r, n) == [r EXCEPT !.TraceID = SetIfSet(@, n.TraceID)]
LiftIDs(r, n) ==
  [r EXCEPT !.TraceID = SetIfSet(@, n.TraceID), !.SpanID = SetIfSet(@, n.SpanID)]

LiftFields(r, n) ==
  [r EXCEPT
     !.SeverityNumber = IF n.SeverityNumber # 0 THEN n.SeverityNumber ELSE @,
     !.HTTPStatusCode = IF n.HTTPStatusCode # 0 THEN n.HTTPStatusCode ELSE @,
     !.Severity = SetIfSet(@, n.Severity),
     !.Template = SetIfSet(@, n.Template),
     !.Service  = SetIfSet(@, n.Service),
     !.SourceContext = SetIfSet(@, n.SourceContext),
     !.ExceptionType = SetIfSet(@, n.ExceptionType),
     !.ExceptionMessage = SetIfSet(@, n.ExceptionMessage),
     !.ExceptionStackTrace = SetIfSet(@, n.ExceptionStackTrace)]

\* Mutant: only a line no strategy matched becomes the message.
LiftUnmatched(r, n, body) ==
  [r EXCEPT !.Message = IF n.Message # NoText THEN n.Message
                        ELSE IF n.Format = "" THEN body
                        ELSE @]
LiftMessage(r, n, body) ==
  [r EXCEPT !.Message = IF n.Message # NoText THEN n.Message
                        ELSE IF n.Format # "json" THEN body
                        ELSE @]

MergeNested(r, n, body) ==
  LiftMessage(LiftFields(LiftIDs(LiftTime(r, n), n), n), n, body)

-----------------------------------------------------------------------------
(* The JSON path: enrichFromJSON and applyJSON *)

Decode ==
  Step("decode", IF Top.line.kind = "json" THEN "properties" ELSE "logfmt", Top.res)

\* applyProperties is a switch: an embedded line hides a response, and either
\* hides a plain status code.
CallPropertiesLog ==
  Top.at = "properties" /\ F.propertiesLog /\ Call("properties", "mergeProperties")

PropertiesResponse ==
  /\ Top.at = "properties"
  /\ ~ F.propertiesLog
  /\ F.response # Absent
  /\ Step("properties", "log",
          IF IsInt(F.response) THEN SetHTTPResponseCode(Top.res, F.response, "Failure")
          ELSE Top.res)

PropertiesStatusCode ==
  /\ Top.at = "properties"
  /\ ~ F.propertiesLog
  /\ F.response = Absent
  /\ frames' = [frames EXCEPT ![Len(frames)].at = "log",
                              ![Len(frames)].code = F.httpStatusCode]
  /\ UNCHANGED returned

CallLog == Top.at = "log" /\ F.log /\ Call("log", "mergeLog")

NoLog == Top.at = "log" /\ ~ F.log /\ Step("log", "envelope", Top.res)

\* The inner call has returned: lift its Result.
Merge(a, b) ==
  /\ Top.at = a
  /\ returned.some
  /\ frames' = [frames EXCEPT
       ![Len(frames)].at = b,
       ![Len(frames)].res = MergeNested(@, returned.res, returned.body),
       ![Len(frames)].lifted = Append(@, returned)]
  /\ returned' = NoReturn

MergeProperties == Merge("mergeProperties", "log")
MergeLog        == Merge("mergeLog", "envelope")

\* responseStatus.code, then the envelope's own timestamp.
EnvelopeStatus(r, f) ==
  IF IsInt(f.responseStatus) THEN SetHTTPResponseCode(r, f.responseStatus, "Failure") ELSE r

EnvelopeTime(r, f) ==
  IF f.Time # NoTime THEN SetTime(r, f.Time, TRUE)
  ELSE IF f.MongoTime # NoTime THEN SetTime(r, f.MongoTime, TRUE)
  ELSE r

Envelope == Step("envelope", "hints", EnvelopeTime(EnvelopeStatus(Top.res, F), F))

\* applySeverityHints, one operator per paragraph of it.
LevelHint(r, f) ==
  LET s == SeverityFromText(f.Severity)
  IN  IF r.Severity = NoText /\ s.text # NoText THEN SetSeverity(r, s) ELSE r

MongoHint(r, f) ==
  LET s == SeverityFromText(f.MongoSeverity)
  IN  IF r.Severity = NoText /\ f.MongoTime # NoTime /\ s.text # NoText
        THEN SetSeverity(r, s) ELSE r

OTLPHint(r, f) ==
  IF f.SeverityNumber \in 1..24
    THEN LET text == SeverityFromNumber(f.SeverityNumber)
         IN  IF text = r.Severity \/ r.Severity = NoText
               THEN SetSeverity(r, Graded(text, f.SeverityNumber)) ELSE r
    ELSE r

GrpcHint(r, f) ==
  IF f.GrpcStatusNumber \in 0..16 /\ r.Severity \in {NoText, "info"}
    THEN [r EXCEPT !.Severity = IF f.GrpcStatusNumber = 0 THEN "info" ELSE "warn"]
    ELSE r

ApplySeverityHints ==
  Step("hints", "metadata",
       GrpcHint(OTLPHint(MongoHint(LevelHint(Top.res, F), F), F), F))

\* Mutant: a traceparent replaces the explicit IDs.
IdentifyParentWins(r, f) ==
  LET p == ParseTraceparent(f.Traceparent)
      trace == IF ValidTraceID(f.TraceID) THEN Undashed(f.TraceID) ELSE r.TraceID
      span  == IF ValidSpanID(f.SpanID) THEN f.SpanID.id ELSE r.SpanID
  IN  [r EXCEPT !.TraceID = SetIfSet(trace, p.trace), !.SpanID = SetIfSet(span, p.span)]

\* applyMetadata, and the exception that is an error when nothing else spoke.
Identify(r, f) ==
  LET p == ParseTraceparent(f.Traceparent)
  IN  [r EXCEPT
         !.TraceID = IF ValidTraceID(f.TraceID) THEN Undashed(f.TraceID) ELSE SetIfSet(@, p.trace),
         !.SpanID  = IF ValidSpanID(f.SpanID) THEN f.SpanID.id ELSE SetIfSet(@, p.span)]

Describe(r, f) ==
  [r EXCEPT
     !.Message = SetIfSet(@, f.Message),
     !.SourceContext = SetIfSet(@, f.SourceContext),
     !.Template = SetIfSet(@, f.Template),
     !.ResourceID = SetIfSet(@, lower(f.ResourceID)),
     !.ResourceGroupID = IF f.ResourceID # NoText
                           THEN resourceGroupID(lower(f.ResourceID)) ELSE @,
     !.EventCategory = SetIfSet(@, f.EventCategory),
     !.Service = SetIfSet(@, lower(f.Service))]

Except(r, f) ==
  LET payload == IF f.exception.present THEN ParseException(r, f.exception) ELSE r
  IN  [payload EXCEPT
         !.ExceptionType = SetIfSet(@, f.ErrorType),
         !.ExceptionMessage = SetIfSet(@, f.ErrorMessage),
         !.ExceptionStackTrace = SetIfSet(@, f.ErrorStack)]

HasException(r) ==
  r.ExceptionType # NoText \/ r.ExceptionMessage # NoText \/ r.ExceptionStackTrace # NoText

ExceptionIsError(r) ==
  IF r.Severity = NoText /\ HasException(r) THEN [r EXCEPT !.Severity = "error"] ELSE r

ApplyMetadata ==
  Step("metadata", "codes", ExceptionIsError(Except(Describe(Identify(Top.res, F), F), F)))

\* applyResponseCode: a top-level code shadows the one from properties, even
\* when it is not a usable number.
ResultStatus(r, f) ==
  IF IsInt(f.resultCode) THEN SetHTTPResponseCode(r, f.resultCode, "Observed") ELSE r

\* Mutant: the inferences from a missing response override any level.
Infers(r, s) == [r EXCEPT !.Severity = s]
Defers(r, s) == [r EXCEPT !.Severity = IF @ \in {NoText, "info"} THEN s ELSE @]

ResponseCode(r, f, code) ==
  CASE ~ IsInt(code)                          -> r
    [] code = 0 /\ ~ f.protocol               -> Defers(r, "info")
    [] code = 0 /\ f.protocol /\ f.clientGone -> Defers(r, "warn")
    [] OTHER -> SetHTTPResponseCode(r, code, "Observed")

ApplyResponseCode ==
  LET code == IF F.ResponseCode # Absent THEN F.ResponseCode ELSE Top.code
  IN  Step("codes", "pino", ResponseCode(ResultStatus(Top.res, F), F, code))

Pino ==
  Step("pino", "finish",
       [Top.res EXCEPT !.Format = "json",
                       !.Severity = IF @ = NoText THEN PinoSeverity(F.pino) ELSE @])

-----------------------------------------------------------------------------
(* Every other line *)

\* enrichFromLogFmt.  What it reads is written whether or not it claims the
\* line; LogfmtScan shows the scan reads Outcome.
LogFmt ==
  /\ Top.at = "logfmt"
  /\ LET o == Outcome(Top.line.pairs)
         r == [SetTime(Top.res, o.time, o.time # NoTime) EXCEPT
                 !.Severity = o.level.text, !.SeverityNumber = o.level.no,
                 !.Message = o.msg, !.SourceContext = o.logger,
                 !.TraceID = SetIfSet(@, o.trace), !.SpanID = SetIfSet(@, o.span)]
     IN  IF o.claimed
           THEN Step("logfmt", "finish", [r EXCEPT !.Format = "logfmt"])
           ELSE Step("logfmt", "patterns", r)

\* applySubmatch for each group the winning entry captured, in group order.
ApplyCaptures(r, c) ==
  LET named   == [r EXCEPT !.SourceContext = SetIfSet(@, c.source)]
      levelled == CASE c.level # NoText    -> [named EXCEPT !.Severity = c.level]
                    [] c.mark # NoText     -> [named EXCEPT !.Severity = RedisSeverity(c.mark)]
                    [] c.priority \in 0..191 -> SetSeverity(named, SyslogSeverity(c.priority % 8))
                    [] OTHER               -> named
      timed   == IF c.time # NoTime THEN SetTime(levelled, c.time, c.time \in Times) ELSE levelled
      coded   == SetHTTPResponseCode(timed, c.code, "Observed")
      errored == IF c.asError /\ coded.Severity = NoText
                   THEN [coded EXCEPT !.Severity = "error"] ELSE coded
  IN  IF c.exception.present THEN ParseException(errored, c.exception) ELSE errored

Patterns ==
  LET e == Top.line.entry
  IN  Step("patterns", "traceparent",
           IF e.matched THEN [ApplyCaptures(Top.res, e.got) EXCEPT !.Format = "pattern"]
           ELSE Top.res)

ScanForTraceparent ==
  LET p == ScanTraceparent(Top.line.parent)
  IN  Step("traceparent", "finish",
           IF p # NoIDs
             THEN [Top.res EXCEPT !.TraceID = p.trace, !.SpanID = p.span, !.Format = "pattern"]
             ELSE Top.res)

-----------------------------------------------------------------------------
(* The end of fillResult *)

\* The text is normalized, and a number a parser set is kept while it still
\* names that level.

\* Mutant: it is kept whatever the level became.
KeepsAny(no, level) == no # 0
Keeps(no, level) == no # 0 /\ SeverityFromNumber(no) = level

Normalize(r) ==
  LET s == SeverityFromText(r.Severity)
  IN  [r EXCEPT !.Severity = s.text,
                !.SeverityNumber = IF Keeps(@, s.text) THEN @ ELSE s.no]

Benign(r) == r.Severity = "error" /\ BenignError(r.SourceContext, r.Message)

Downgrade(r) ==
  IF Benign(r) THEN SetSeverity(r, Graded("warn", Warn4LevelNo)) ELSE r

Finish == Step("finish", "done", Downgrade(Normalize(Top.res)))

Return ==
  /\ Top.at = "done"
  /\ Len(frames) > 1
  /\ returned' = [some |-> TRUE, res |-> Top.res,
                body |-> IF Top.line.kind = "text" THEN Top.line.body ELSE NoText]
  /\ frames' = SubSeq(frames, 1, Len(frames) - 1)

Next ==
  \/ Decode
  \/ CallPropertiesLog \/ MergeProperties \/ PropertiesResponse \/ PropertiesStatusCode
  \/ CallLog \/ MergeLog \/ NoLog
  \/ Envelope \/ ApplySeverityHints \/ ApplyMetadata \/ ApplyResponseCode \/ Pino
  \/ LogFmt \/ Patterns \/ ScanForTraceparent
  \/ Finish \/ Return

\* One goroutine runs the call to its end.
Spec == Init /\ [][Next]_vars /\ WF_vars(Next)

-----------------------------------------------------------------------------
(* Properties *)

Places == {"decode", "properties", "mergeProperties", "log", "mergeLog", "envelope",
           "hints", "metadata", "codes", "pino", "logfmt", "patterns", "traceparent",
           "finish", "done"}

Handed == [some : BOOLEAN, res : Result, body : MessageField]

FrameType == [line : Line, at : Places, res : Result, code : Int, lifted : Seq(Handed)]

\* The types of the state: every field of a Result holds only what the
\* conversions into it can produce, at every step of every call.
TypeOK ==
  /\ frames \in Seq(FrameType)
  /\ Len(frames) \in 1..MaxDepth
  /\ returned \in Handed

DoneAt(i) == frames[i].at = "done"
JsonAt(i) == frames[i].line.kind = "json"

\* "Severity and SeverityNumber never contradict each other, whatever order
\* the signals in a line arrive in": a finished Result has a number exactly
\* when it has a level, and the number is one of that level's four.
SeverityAgreement ==
  \A i \in DOMAIN frames : DoneAt(i) =>
    LET r == frames[i].res IN
      /\ r.Severity \in Levels \cup {NoText}
      /\ SeverityFromNumber(r.SeverityNumber) = r.Severity

\* TimeHasZone is always the answer of the very timestamp in Time, whichever
\* of the embedded lines, the envelope or the table supplied the last one.
ZoneTravelsWithTime ==
  \A i \in DOMAIN frames :
    LET r == frames[i].res IN r.TimeHasZone <=> r.Time \in Times

\* A graded level, other than info, that a record has before any status code
\* is looked at: the last embedded line's, else the one it states in text.
LiftedLevels(fr) == {k \in DOMAIN fr.lifted : fr.lifted[k].res.Severity # NoText}
SettledLevel(fr) ==
  IF LiftedLevels(fr) # {} THEN fr.lifted[Max(LiftedLevels(fr))].res.Severity
  ELSE SeverityFromText(fr.line.f.Severity).text

\* A status code the record reports as the failure it is about.
FailureReported(f) ==
  f.responseStatus \in 0..599 \/ (~ f.propertiesLog /\ f.response \in 0..599)

\* An explicit non-info level is not overridden by an observed response code,
\* a gRPC status, an OTLP number, an exception or a numeric level: without a
\* failure status only the benign list can change it, and only to WARN4.
SettledLevelIsKept ==
  \A i \in DOMAIN frames :
    LET fr == frames[i]
        r  == fr.res
    IN  ( /\ DoneAt(i) /\ JsonAt(i)
          /\ ~ FailureReported(fr.line.f)
          /\ SettledLevel(fr) \notin {NoText, "info"} )
        => \/ r.Severity = SettledLevel(fr)
           \/ /\ SettledLevel(fr) = "error"
              /\ BenignError(r.SourceContext, r.Message)
              /\ r.Severity = "warn" /\ r.SeverityNumber = Warn4LevelNo

\* The status codes and levels of a record are all about one thing unless it
\* embeds a line AND carries an Azure properties payload beside it.
OneSubject(f) == ~ (f.log /\ (f.propertiesLog \/ f.response # Absent))

\* A reported 4xx or 5xx is not info, nor without a level.
Visible(r) == r.HTTPStatusCode >= 400 => r.Severity \notin {NoText, "info"}

\* A line that reports a 4xx or a 5xx never reads as info, nor as no level at
\* all, whatever other codes, gRPC statuses and levels it also carries, if a
\* record and the lines it embeds, at any depth, are each about one subject.
FailedCodeIsVisible ==
  \A i \in DOMAIN frames :
    LET fr == frames[i]
    IN  ( /\ DoneAt(i)
          /\ JsonAt(i) => OneSubject(fr.line.f)
          /\ \A k \in DOMAIN fr.lifted : Visible(fr.lifted[k].res) )
        => Visible(fr.res)

\* A JSON record that carries nothing of its own.
Silent(f) ==
  /\ {f.response, f.httpStatusCode, f.responseStatus, f.SeverityNumber,
      f.GrpcStatusNumber, f.pino, f.ResponseCode, f.resultCode} = {Absent}
  /\ {f.Time, f.MongoTime} = {NoTime}
  /\ SeverityFromText(f.Severity) = NoSeverity
  /\ ~ ValidTraceID(f.TraceID) /\ ~ ValidSpanID(f.SpanID)
  /\ ParseTraceparent(f.Traceparent) = NoIDs
  /\ {f.SourceContext, f.Message, f.Template, f.Service, f.ErrorType, f.ErrorMessage,
      f.ErrorStack} = {NoText}
  /\ ~ f.exception.present

LiftedFields ==
  {"Time", "TimeHasZone", "Severity", "SeverityNumber", "HTTPStatusCode", "TraceID",
   "SpanID", "Template", "Service", "SourceContext", "ExceptionType",
   "ExceptionMessage", "ExceptionStackTrace"}

\* Wrapping a line in a record that says nothing itself changes none of the
\* fields mergeNested lifts, although the record goes through every later step
\* of the JSON path and is normalized a second time.
SilentEnvelopeIsTransparent ==
  \A i \in DOMAIN frames :
    LET fr == frames[i]
    IN  (DoneAt(i) /\ JsonAt(i) /\ Len(fr.lifted) = 1 /\ Silent(fr.line.f))
        => \A x \in LiftedFields : fr.res[x] = fr.lifted[1].res[x]

\* Explicit IDs of a record win over its traceparent, and both over whatever
\* its embedded lines carry, of which the later one wins.
Carried(fr, id) ==
  LET ks == {k \in DOMAIN fr.lifted : fr.lifted[k].res[id] # NoID}
  IN  IF ks = {} THEN NoID ELSE fr.lifted[Max(ks)].res[id]

IDPrecedence ==
  \A i \in DOMAIN frames : (DoneAt(i) /\ JsonAt(i)) =>
    LET fr == frames[i]
        f  == fr.line.f
        p  == ParseTraceparent(f.Traceparent)
    IN  /\ fr.res.TraceID =
             CASE ValidTraceID(f.TraceID) -> f.TraceID.id
               [] ~ ValidTraceID(f.TraceID) /\ p # NoIDs -> p.trace
               [] OTHER -> Carried(fr, "TraceID")
        /\ fr.res.SpanID =
             CASE ValidSpanID(f.SpanID) -> f.SpanID.id
               [] ~ ValidSpanID(f.SpanID) /\ p # NoIDs -> p.span
               [] OTHER -> Carried(fr, "SpanID")

\* A line no strategy claimed reports no timestamp, level, trace, status code or
\* exception.  What the unclaimed logfmt scan read of the message, the logger and
\* the span is kept, and is still there, unchanged, at the end.
UnmatchedSaysNothing ==
  \A i \in DOMAIN frames :
    LET r == frames[i].res
        o == Outcome(frames[i].line.pairs)
    IN  (DoneAt(i) /\ r.Format = "") =>
        r = [ZeroResult EXCEPT !.Message = o.msg, !.SourceContext = o.logger, !.SpanID = o.span]

\* What an embedded line is to the record around it: its message, or else its
\* whole text, unless it is a record itself.
Speaks(h) == h.res.Message # NoText \/ h.res.Format # "json"
Words(h)  == IF h.res.Message # NoText THEN h.res.Message ELSE h.body

Spoken(fr) == {k \in DOMAIN fr.lifted : Speaks(fr.lifted[k])}
LiftedWords(fr) ==
  IF Spoken(fr) = {} THEN NoText ELSE Words(fr.lifted[Max(Spoken(fr))])

\* "The embedded line IS the message of the record that wraps it": a record
\* without a message of its own finishes with the words of the last embedded
\* line that has any, verbatim, whatever that line's other fields are and
\* whichever strategy claimed it.  An envelope hands on exactly what it was
\* handed, so the text reaches the outermost record through any number of them.
WrappedLineIsNotLost ==
  \A i \in DOMAIN frames : (DoneAt(i) /\ JsonAt(i)) =>
    LET fr == frames[i]
        f  == fr.line.f
    IN  fr.res.Message = IF f.Message # NoText THEN f.Message ELSE LiftedWords(fr)

\* No step of a JSON line takes a level away once it has one: an out-of-range
\* code, an unknown spelling or a second embedded line without a level is
\* ignored, and leaves the level of whatever came before it.
LevelNeverUnset ==
  [][\A i \in DOMAIN frames \cap DOMAIN frames' :
       (JsonAt(i) /\ frames[i].res.Severity # NoText) => frames'[i].res.Severity # NoText]_vars

\* Every call returns: the outermost Result is completed.
Terminates == <>(frames[1].at = "done")
=============================================================================
