---------------------------- MODULE EnrichProofs ----------------------------
(***************************************************************************)
(* Proofs about the records a line is made of, for every set of lines,     *)
(* embedded to any depth.                                                  *)
(*                                                                         *)
(* First, what every Result fillResult completes looks like: its severity  *)
(* and number agree, its zone answer is its timestamp's, and a record's    *)
(* level is not taken away.  Then, from "The history of a record" on, what *)
(* became of everything a record said and everything that was lifted into  *)
(* it: identifiers, levels, status codes, messages, and whole lines in     *)
(* records that say nothing.                                               *)
(***************************************************************************)
EXTENDS Enrich, LogfmtLineProofs, SequenceTheorems

-----------------------------------------------------------------------------
(* The conversions into a Result keep it typed.  Severity holds a level, or *)
(* the text of a level key no table knows; a status code is 0 or 100..599.  *)

\* setTime keeps a Result well typed: the instant and its zone answer are stored
\* together.
LEMMA SetTimeTyped ==
  ASSUME NEW r \in Result, NEW t \in Stamps, NEW z \in BOOLEAN
  PROVE  SetTime(r, t, z) \in Result
BY DEF SetTime, Result

\* Storing a level and its number together keeps a Result well typed.
LEMMA SetSeverityTyped ==
  ASSUME NEW r \in Result, NEW s \in [text : Levels \cup {NoText}, no : 0..24]
  PROVE  SetSeverity(r, s) \in Result
<1>1. s.text \in SeverityTexts /\ s.no \in SeverityNos
  BY DEF SeverityTexts, SeverityNos
<1>2. QED
  BY <1>1 DEF SetSeverity, Result

\* So does overwriting the level text alone, as the status graders do.
LEMMA LevelTyped ==
  ASSUME NEW r \in Result, NEW s \in SeverityTexts
  PROVE  [r EXCEPT !.Severity = s] \in Result
BY DEF Result

\* setHTTPResponseCode never stores a code outside 100..599 or an unknown level,
\* whatever integer it is called with.
LEMMA HTTPTyped ==
  ASSUME NEW r \in Result, NEW code \in Int, NEW kind
  PROVE  SetHTTPResponseCode(r, code, kind) \in Result
<1>1. HTTPStatusSeverity(code, kind) \in SeverityTexts
  BY StatusGrade DEF SeverityTexts
<1>2. IsStatus(code) /\ Recorded(code) => code \in StatusCodes
  BY DEF IsStatus, Recorded, StatusCodes
<1>3. QED
  BY <1>1, <1>2 DEF SetHTTPResponseCode, Result

\* parseException fills the exception fields from a payload's own parts.
LEMMA ParseExceptionTyped ==
  ASSUME NEW r \in Result, NEW e \in Exception
  PROVE  ParseException(r, e) \in Result
<1>1. e.type \in NameField /\ e.message \in NameField /\ e.stack \in NameField
  BY DEF Exception, NameField
<1>2. QED
  BY <1>1 DEF ParseException, Result

\* mergeNested: lifting one well-typed Result into another yields a third.
LEMMA MergeTyped ==
  ASSUME NEW r \in Result, NEW n \in Result, NEW body \in MessageField
  PROVE  MergeNested(r, n, body) \in Result
<1>1. LiftTime(r, n) \in Result
  BY SetTimeTyped DEF LiftTime, Result
<1>2. ASSUME NEW q \in Result PROVE LiftIDs(q, n) \in Result
  BY DEF LiftIDs, SetIfSet, Result
<1>3. ASSUME NEW q \in Result PROVE LiftFields(q, n) \in Result
  <2> DEFINE number   == IF n.SeverityNumber # 0 THEN n.SeverityNumber ELSE q.SeverityNumber
             code     == IF n.HTTPStatusCode # 0 THEN n.HTTPStatusCode ELSE q.HTTPStatusCode
             severity == SetIfSet(q.Severity, n.Severity)
             template == SetIfSet(q.Template, n.Template)
             service  == SetIfSet(q.Service, n.Service)
             source   == SetIfSet(q.SourceContext, n.SourceContext)
             type     == SetIfSet(q.ExceptionType, n.ExceptionType)
             message  == SetIfSet(q.ExceptionMessage, n.ExceptionMessage)
             stack    == SetIfSet(q.ExceptionStackTrace, n.ExceptionStackTrace)
  <2>1. /\ number \in SeverityNos /\ code \in StatusCodes /\ severity \in SeverityTexts
        /\ source \in MessageField
    BY DEF SetIfSet, Result
  <2>2. /\ template \in NameField /\ service \in NameField /\ type \in NameField
        /\ message \in NameField /\ stack \in NameField
    BY DEF SetIfSet, Result
  <2>3. LiftFields(q, n) =
          [q EXCEPT !.SeverityNumber = number, !.HTTPStatusCode = code, !.Severity = severity,
                    !.Template = template, !.Service = service, !.SourceContext = source,
                    !.ExceptionType = type, !.ExceptionMessage = message,
                    !.ExceptionStackTrace = stack]
    BY Zenon DEF LiftFields
  <2> HIDE DEF number, code, severity, template, service, source, type, message, stack
  <2>4. [q EXCEPT !.SeverityNumber = number, !.HTTPStatusCode = code, !.Severity = severity,
                  !.Template = template, !.Service = service, !.SourceContext = source,
                  !.ExceptionType = type, !.ExceptionMessage = message,
                  !.ExceptionStackTrace = stack] \in Result
    BY <2>1, <2>2 DEF Result
  <2>5. QED
    BY <2>3, <2>4
<1>4. ASSUME NEW q \in Result PROVE LiftMessage(q, n, body) \in Result
  BY DEF LiftMessage, Result
<1>5. QED
  BY <1>1, <1>2, <1>3, <1>4 DEF MergeNested

-----------------------------------------------------------------------------
(* The paragraphs of applyJSON, each over a typed record f *)

\* What the fields of a decoded record are.
LEMMA EnvelopeTyped ==
  ASSUME NEW r \in Result, NEW f \in Fields
  PROVE  EnvelopeTime(EnvelopeStatus(r, f), f) \in Result
<1>1. f.responseStatus \in Int /\ f.Time \in Stamps /\ f.MongoTime \in Stamps
  BY DEF Fields, Stamps
<1>2. EnvelopeStatus(r, f) \in Result
  BY <1>1, HTTPTyped DEF EnvelopeStatus
<1>3. QED
  BY <1>1, <1>2, SetTimeTyped DEF EnvelopeTime

\* applySeverityHints yields a well-typed Result for every decoded record.
LEMMA HintsTyped ==
  ASSUME NEW r \in Result, NEW f \in Fields
  PROVE  GrpcHint(OTLPHint(MongoHint(LevelHint(r, f), f), f), f) \in Result
<1>1. ASSUME NEW q \in Result PROVE LevelHint(q, f) \in Result
  BY SetSeverityTyped, SeverityRoundTrip DEF LevelHint
<1>2. ASSUME NEW q \in Result PROVE MongoHint(q, f) \in Result
  BY SetSeverityTyped, SeverityRoundTrip DEF MongoHint
<1>3. ASSUME NEW q \in Result PROVE OTLPHint(q, f) \in Result
  <2> DEFINE g == Graded(SeverityFromNumber(f.SeverityNumber), f.SeverityNumber)
  <2>1. f.SeverityNumber \in 1..24 => g \in [text : Levels \cup {NoText}, no : 0..24]
    BY NumberGrade DEF Graded
  <2>2. QED
    BY <2>1, SetSeverityTyped DEF OTLPHint
<1>4. ASSUME NEW q \in Result PROVE GrpcHint(q, f) \in Result
  BY LevelTyped DEF GrpcHint, Levels, SeverityTexts
<1>5. QED
  BY <1>1, <1>2, <1>3, <1>4

\* Only identifiers that passed their validators reach a Result.
LEMMA IdentifiersTyped ==
  ASSUME NEW v \in Traceparent
  PROVE  /\ ParseTraceparent(v).trace \in TraceIDField
         /\ ParseTraceparent(v).span \in SpanIDField
         /\ ScanTraceparent(v).trace \in TraceIDField
         /\ ScanTraceparent(v).span \in SpanIDField
BY DEF TraceIDField, SpanIDField, Traceparent, TraceText, SpanText, IDText, ParseTraceparent, ScanTraceparent, NoIDs

\* applyMetadata yields a well-typed Result for every decoded record.
LEMMA MetadataTyped ==
  ASSUME NEW r \in Result, NEW f \in Fields
  PROVE  ExceptionIsError(Except(Describe(Identify(r, f), f), f)) \in Result
<1>1. ASSUME NEW q \in Result PROVE Identify(q, f) \in Result
  <2>1. /\ f.Traceparent \in Traceparent /\ f.TraceID.id \in TraceIDField
        /\ f.SpanID.id \in SpanIDField
    BY DEF TraceIDField, SpanIDField, Fields, TraceText, SpanText, IDText
  <2>2. QED
    BY <2>1, IdentifiersTyped DEF Identify, Undashed, SetIfSet, Result
<1>2. ASSUME NEW q \in Result PROVE Describe(q, f) \in Result
  <2>1. f.ResourceID \in Names /\ f.Service \in Names
    BY DEF Fields
  <2>2. /\ lower(f.ResourceID) \in NameField /\ lower(f.Service) \in NameField
        /\ resourceGroupID(lower(f.ResourceID)) \in NameField
    BY <2>1, RecordsAssumption DEF NameField
  <2>3. /\ f.Message \in MessageField /\ f.SourceContext \in MessageField
        /\ f.Template \in NameField /\ f.EventCategory \in NameField
    BY DEF Fields, MessageField, NameField
  <2>4. QED
    <3> DEFINE message  == SetIfSet(q.Message, f.Message)
               source   == SetIfSet(q.SourceContext, f.SourceContext)
               template == SetIfSet(q.Template, f.Template)
               resource == SetIfSet(q.ResourceID, lower(f.ResourceID))
               group    == IF f.ResourceID # NoText THEN resourceGroupID(lower(f.ResourceID))
                           ELSE q.ResourceGroupID
               category == SetIfSet(q.EventCategory, f.EventCategory)
               service  == SetIfSet(q.Service, lower(f.Service))
    <3>1. message \in MessageField /\ source \in MessageField
      BY <2>3 DEF SetIfSet, Result
    <3>2. /\ template \in NameField /\ resource \in NameField /\ group \in NameField
          /\ category \in NameField /\ service \in NameField
      BY <2>2, <2>3 DEF SetIfSet, Result
    <3>3. Describe(q, f) =
            [q EXCEPT !.Message = message, !.SourceContext = source, !.Template = template,
                      !.ResourceID = resource, !.ResourceGroupID = group,
                      !.EventCategory = category, !.Service = service]
      BY Zenon DEF Describe
    <3> HIDE DEF message, source, template, resource, group, category, service
    <3>4. [q EXCEPT !.Message = message, !.SourceContext = source, !.Template = template,
                    !.ResourceID = resource, !.ResourceGroupID = group,
                    !.EventCategory = category, !.Service = service] \in Result
      BY <3>1, <3>2 DEF Result
    <3>5. QED
      BY <3>3, <3>4
<1>3. ASSUME NEW q \in Result PROVE Except(q, f) \in Result
  <2> DEFINE payload == IF f.exception.present THEN ParseException(q, f.exception) ELSE q
  <2>1. payload \in Result
    BY ParseExceptionTyped DEF Fields
  <2>2. /\ f.ErrorType \in NameField /\ f.ErrorMessage \in NameField
        /\ f.ErrorStack \in NameField
    BY DEF Fields, NameField
  <2> HIDE DEF payload
  <2>3. [payload EXCEPT !.ExceptionType = SetIfSet(@, f.ErrorType),
                        !.ExceptionMessage = SetIfSet(@, f.ErrorMessage),
                        !.ExceptionStackTrace = SetIfSet(@, f.ErrorStack)] \in Result
    BY <2>1, <2>2 DEF SetIfSet, Result
  <2>4. QED
    BY <2>3 DEF Except, payload
<1>4. ASSUME NEW q \in Result PROVE ExceptionIsError(q) \in Result
  BY LevelTyped DEF ExceptionIsError, Levels, SeverityTexts
<1>5. QED
  BY <1>1, <1>2, <1>3, <1>4

\* applyResponseCode yields a well-typed Result whichever code it is given.
LEMMA CodesTyped ==
  ASSUME NEW r \in Result, NEW f \in Fields, NEW code \in Int
  PROVE  ResponseCode(ResultStatus(r, f), f, code) \in Result
<1>1. ResultStatus(r, f) \in Result
  BY HTTPTyped DEF ResultStatus, Fields
<1>2. ASSUME NEW q \in Result PROVE ResponseCode(q, f, code) \in Result
  <2>1. "info" \in SeverityTexts /\ "warn" \in SeverityTexts
    BY DEF SeverityTexts, Levels
  <2>2. Defers(q, "info") \in Result /\ Defers(q, "warn") \in Result
    BY <2>1 DEF Defers, Result
  <2>3. SetHTTPResponseCode(q, code, "Observed") \in Result
    BY HTTPTyped
  <2>4. QED
    BY <2>2, <2>3 DEF ResponseCode
<1>3. QED
  BY <1>1, <1>2

\* The numeric level consulted last is a level or nothing.
LEMMA PinoTyped ==
  ASSUME NEW r \in Result, NEW f \in Fields
  PROVE  [r EXCEPT !.Format = "json",
                   !.Severity = IF @ = NoText THEN PinoSeverity(f.pino) ELSE @] \in Result
<1>1. PinoSeverity(f.pino) \in SeverityTexts /\ "json" \in Formats
  BY PinoGrade DEF SeverityTexts, Formats
<1>2. QED
  BY <1>1 DEF Result

-----------------------------------------------------------------------------
(* Every other line *)

\* The fields the logfmt scan writes, before the claim sets the Format.
Scanned(r, o) ==
  [SetTime(r, o.time, o.time # NoTime) EXCEPT
     !.Severity = o.level.text, !.SeverityNumber = o.level.no,
     !.Message = o.msg, !.SourceContext = o.logger,
     !.TraceID = SetIfSet(@, o.trace), !.SpanID = SetIfSet(@, o.span)]

\* What enrichFromLogFmt writes, claimed or not, is well typed.
LEMMA ScannedTyped ==
  ASSUME NEW r \in Result, NEW pairs \in Seq(Pair)
  PROVE  Scanned(r, Outcome(pairs)) \in Result
<1> DEFINE o == Outcome(pairs)
           t == SetTime(r, o.time, o.time # NoTime)
           trace == SetIfSet(t.TraceID, o.trace)
           span  == SetIfSet(t.SpanID, o.span)
<1>1. /\ o.time \in Stamps /\ o.level.text \in SeverityTexts /\ o.level.no \in SeverityNos
      /\ o.msg \in MessageField /\ o.logger \in MessageField
      /\ o.trace \in TraceIDField /\ o.span \in SpanIDField
  BY OutcomeTyped DEF Stamps, SeverityTexts, SeverityNos, MessageField, TraceIDField, SpanIDField
<1> HIDE DEF o
<1>2. t \in Result
  BY <1>1, SetTimeTyped
<1> HIDE DEF t
<1>3. trace \in TraceIDField /\ span \in SpanIDField
  BY <1>1, <1>2 DEF SetIfSet, Result
<1>4. Scanned(r, o) = [t EXCEPT !.Severity = o.level.text, !.SeverityNumber = o.level.no,
                                !.Message = o.msg, !.SourceContext = o.logger,
                                !.TraceID = trace, !.SpanID = span]
  BY Zenon DEF Scanned, t
<1> HIDE DEF trace, span
<1>5. [t EXCEPT !.Severity = o.level.text, !.SeverityNumber = o.level.no,
                !.Message = o.msg, !.SourceContext = o.logger,
                !.TraceID = trace, !.SpanID = span] \in Result
  BY <1>1, <1>2, <1>3 DEF Result
<1>6. QED
  BY <1>4, <1>5 DEF o

\* applySubmatch: the captures of a table entry leave a Result well typed.
LEMMA CapturesTyped ==
  ASSUME NEW r \in Result, NEW c \in Captures
  PROVE  ApplyCaptures(r, c) \in Result
<1> DEFINE named    == [r EXCEPT !.SourceContext = SetIfSet(@, c.source)]
           levelled == CASE c.level # NoText    -> [named EXCEPT !.Severity = c.level]
                         [] c.mark # NoText     -> [named EXCEPT !.Severity = RedisSeverity(c.mark)]
                         [] c.priority \in 0..191 ->
                              SetSeverity(named, SyslogSeverity(c.priority % 8))
                         [] OTHER               -> named
           timed    == IF c.time # NoTime THEN SetTime(levelled, c.time, c.time \in Times)
                       ELSE levelled
           coded    == SetHTTPResponseCode(timed, c.code, "Observed")
           errored  == IF c.asError /\ coded.Severity = NoText
                         THEN [coded EXCEPT !.Severity = "error"] ELSE coded
<1>0. /\ c.source \in MessageField /\ c.level \in SeverityTexts /\ c.time \in Stamps
      /\ c.code \in Int /\ c.exception \in Exception /\ "error" \in SeverityTexts
  BY DEF Captures, MessageField, SeverityTexts, Levels
<1>1. named \in Result
  BY <1>0 DEF SetIfSet, Result
<1> HIDE DEF named
<1>2. levelled \in Result
  <2>1. [named EXCEPT !.Severity = c.level] \in Result
    BY <1>0, <1>1, LevelTyped
  <2>2. SetSeverity(named, SyslogSeverity(c.priority % 8)) \in Result
    BY <1>1, SyslogGrade, SetSeverityTyped
  <2>3. [named EXCEPT !.Severity = RedisSeverity(c.mark)] \in Result
    <3>1. RedisSeverity(c.mark) \in SeverityTexts
      BY DEF RedisSeverity, SeverityTexts, Levels
    <3>2. QED
      BY <1>1, <3>1, LevelTyped
  <2>4. QED
    BY <1>1, <2>1, <2>2, <2>3
<1> HIDE DEF levelled
<1>3. timed \in Result
  <2>1. SetTime(levelled, c.time, c.time \in Times) \in Result
    <3>1. SetTime(levelled, c.time, TRUE) \in Result /\ SetTime(levelled, c.time, FALSE) \in Result
      BY <1>0, <1>2, SetTimeTyped
    <3>2. (c.time \in Times) = TRUE \/ (c.time \in Times) = FALSE
      OBVIOUS
    <3>3. QED
      BY <3>1, <3>2, Zenon
  <2>2. QED
    BY <1>2, <2>1
<1> HIDE DEF timed
<1>4. coded \in Result
  BY <1>0, <1>3, HTTPTyped
<1> HIDE DEF coded
<1>5. errored \in Result
  <2>1. [coded EXCEPT !.Severity = "error"] \in Result
    BY <1>0, <1>4, LevelTyped
  <2>2. QED
    BY <1>4, <2>1
<1> HIDE DEF errored
<1>6. (IF c.exception.present THEN ParseException(errored, c.exception) ELSE errored) \in Result
  BY <1>0, <1>5, ParseExceptionTyped
<1>7. QED
  BY <1>6, Zenon DEF ApplyCaptures, errored, coded, timed, levelled, named

\* A traceparent found in a plain line sets two valid IDs or none.
LEMMA ParentScanTyped ==
  ASSUME NEW r \in Result, NEW v \in Traceparent
  PROVE  [r EXCEPT !.TraceID = ScanTraceparent(v).trace, !.SpanID = ScanTraceparent(v).span,
                   !.Format = "pattern"] \in Result
<1>1. "pattern" \in Formats
  BY DEF Formats
<1>2. QED
  BY <1>1, IdentifiersTyped DEF Result

-----------------------------------------------------------------------------
(* The end of fillResult *)

\* A Result whose severity and number agree.
Agrees(r) ==
  /\ r.Severity \in Levels \cup {NoText}
  /\ SeverityFromNumber(r.SeverityNumber) = r.Severity

\* Whatever the steps before left in the two fields, the normalization makes
\* them agree, and the downgrade keeps them so.
LEMMA FinishAgrees ==
  ASSUME NEW r \in Result
  PROVE  /\ Downgrade(Normalize(r)) \in Result
         /\ Agrees(Downgrade(Normalize(r)))
<1> DEFINE s == SeverityFromText(r.Severity)
           no == IF Keeps(r.SeverityNumber, s.text) THEN r.SeverityNumber ELSE s.no
           n == Normalize(r)
           w == Graded("warn", Warn4LevelNo)
<1>1. /\ s.text \in Levels \cup {NoText} /\ s.no \in 0..24
      /\ SeverityFromNumber(s.no) = s.text
  BY SeverityRoundTrip
<1> HIDE DEF s
<1>2. SeverityFromNumber(no) = s.text
  BY <1>1 DEF Keeps
<1>3. no \in SeverityNos /\ s.text \in SeverityTexts
  BY <1>1 DEF SeverityNos, SeverityTexts, Result
<1>4. n = [r EXCEPT !.Severity = s.text, !.SeverityNumber = no]
  BY Zenon DEF Normalize, s
<1> HIDE DEF no, n
<1>5. n \in Result /\ n.Severity = s.text /\ n.SeverityNumber = no
  BY <1>3, <1>4 DEF Result
<1>6. w \in [text : Levels \cup {NoText}, no : 0..24] /\ w.text = "warn" /\ w.no = 16
  BY DEF Graded, Warn4LevelNo, Levels
<1> HIDE DEF w
<1>7. SetSeverity(n, w) \in Result
  BY <1>5, <1>6, SetSeverityTyped
<1>8. SetSeverity(n, w).Severity = "warn" /\ SetSeverity(n, w).SeverityNumber = 16
  BY <1>5, <1>6 DEF SetSeverity, Result
<1>9. Agrees(SetSeverity(n, w))
  BY <1>8, NumbersReadBack DEF Agrees, Levels
<1>10. Agrees(n)
  BY <1>1, <1>2, <1>5 DEF Agrees
<1>11. Downgrade(n) = IF Benign(n) THEN SetSeverity(n, w) ELSE n
  BY Zenon DEF Downgrade, w
<1>12. QED
  BY <1>5, <1>7, <1>9, <1>10, <1>11 DEF n

-----------------------------------------------------------------------------
(* The stack of calls *)

JsonPlaces == {"properties", "mergeProperties", "log", "mergeLog", "envelope", "hints",
               "metadata", "codes", "pino"}
TextPlaces == {"logfmt", "patterns", "traceparent"}

\* A step of the JSON path works on a decoded record, one of the others on a line.
Fits(at, l) ==
  /\ at \in JsonPlaces => l.kind = "json"
  /\ at \in TextPlaces => l.kind = "text"

Placed == \A i \in DOMAIN frames : Fits(frames[i].at, frames[i].line)

IInv == TypeOK /\ Placed /\ SeverityAgreement

\* The lines, and what they are made of.
LEMMA LineTyped ==
  ASSUME NEW l \in Line
  PROVE  /\ l.kind = "json" => l.f \in Fields
         /\ l.kind = "text" => /\ l.pairs \in Seq(Pair) /\ l.entry \in EntryOutcome
                               /\ l.parent \in Traceparent /\ l.body \in Messages
         /\ l.kind \in {"json", "text"}
BY DEF Line, JsonLine, TextLine

\* The call on top.
LEMMA TopTyped ==
  ASSUME IInv
  PROVE  /\ Len(frames) \in 1..MaxDepth /\ Len(frames) \in Nat
         /\ Len(frames) \in DOMAIN frames
         /\ Top \in FrameType
         /\ Top.res \in Result /\ Top.line \in Line /\ Top.code \in Int
         /\ Top.lifted \in Seq(Handed)
         /\ Fits(Top.at, Top.line)
         /\ Top.at = "done" => Agrees(Top.res)
<1>1. Len(frames) \in 1..MaxDepth /\ Len(frames) \in Nat /\ Len(frames) \in DOMAIN frames
  BY DEF IInv, TypeOK
<1>2. Top \in FrameType
  BY <1>1 DEF IInv, TypeOK, Top
<1>3. Fits(Top.at, Top.line)
  BY <1>1 DEF IInv, Placed, Top
<1>4. Top.at = "done" => Agrees(Top.res)
  BY <1>1 DEF IInv, SeverityAgreement, DoneAt, Agrees, Top
<1>5. QED
  BY <1>1, <1>2, <1>3, <1>4 DEF FrameType

\* Replacing the call on top by one that is typed, in its place, and agrees if
\* it is done, keeps the invariant of the stack.
LEMMA TopReplaced ==
  ASSUME IInv, NEW fr \in FrameType,
         Fits(fr.at, fr.line), fr.at = "done" => Agrees(fr.res),
         frames' = [frames EXCEPT ![Len(frames)] = fr],
         returned' \in Handed
  PROVE  IInv'
<1>1. Len(frames) \in 1..Len(frames) /\ frames \in Seq(FrameType) /\ Len(frames) \in 1..MaxDepth
  BY TopTyped DEF IInv, TypeOK
<1>2. /\ frames' \in Seq(FrameType) /\ Len(frames') = Len(frames)
      /\ \A j \in 1..Len(frames) : frames'[j] = IF j = Len(frames) THEN fr ELSE frames[j]
  BY <1>1, ExceptSeq
<1>3. DOMAIN frames' = 1..Len(frames) /\ DOMAIN frames = 1..Len(frames)
  BY <1>1, <1>2
<1>4. TypeOK'
  BY <1>1, <1>2 DEF TypeOK
<1>5. Placed'
  BY <1>2, <1>3 DEF IInv, Placed
<1>6. SeverityAgreement'
  BY <1>2, <1>3 DEF IInv, SeverityAgreement, DoneAt, Agrees
<1>7. QED
  BY <1>4, <1>5, <1>6 DEF IInv

\* A step with a typed Result.
LEMMA StepKeeps ==
  ASSUME IInv, NEW a, NEW b \in Places, NEW r \in Result, Step(a, b, r),
         Fits(b, Top.line), b = "done" => Agrees(r)
  PROVE  IInv'
<1> DEFINE fr == [Top EXCEPT !.at = b, !.res = r]
<1>1. Top \in FrameType /\ Len(frames) \in DOMAIN frames
  BY TopTyped
<1>2. fr \in FrameType /\ fr.at = b /\ fr.res = r /\ fr.line = Top.line
  BY <1>1 DEF FrameType
<1>3. frames' = [frames EXCEPT ![Len(frames)] = fr]
  BY <1>1 DEF Step, Top
<1>4. returned' \in Handed
  BY DEF Step, IInv, TypeOK
<1> HIDE DEF fr
<1>5. QED
  BY <1>2, <1>3, <1>4, TopReplaced

\* Calling: the caller waits at its merge, the new call starts with nothing.
LEMMA CallKeeps ==
  ASSUME IInv, NEW a, NEW b \in {"mergeProperties", "mergeLog"}, Call(a, b),
         Top.line.kind = "json"
  PROVE  IInv'
<1> DEFINE n == Len(frames)
           fr == [Top EXCEPT !.at = b]
           mid == [frames EXCEPT ![n] = fr]
<1>1. PICK l \in LinesAt[n + 1] :
        frames' = Append([frames EXCEPT ![n].at = b], Frame(l))
  BY DEF Call
<1>2. n \in Nat /\ n \in 1..n /\ n + 1 \in 1..MaxDepth /\ frames \in Seq(FrameType)
  BY TopTyped, DepthAssumption DEF Call, IInv, TypeOK
<1>3. l \in Line
  BY <1>1, <1>2, LinesAssumption
<1>4. fr \in FrameType /\ fr.at = b /\ fr.line = Top.line
  BY TopTyped DEF FrameType, Places
<1>5. ZeroResult \in Result
  BY DEF ZeroResult, Result, Formats, Stamps, SeverityTexts, SeverityNos, MessageField,
         StatusCodes, TraceIDField, SpanIDField, NameField
<1>6. Frame(l) \in FrameType /\ Frame(l).at = "decode"
  BY <1>3, <1>5 DEF Frame, FrameType, Places, Absent
<1>7. [frames EXCEPT ![n].at = b] = mid
  BY <1>2 DEF Top
<1>8. /\ mid \in Seq(FrameType) /\ Len(mid) = n
      /\ \A j \in 1..n : mid[j] = IF j = n THEN fr ELSE frames[j]
  BY <1>2, <1>4, ExceptSeq
<1> HIDE DEF fr, mid
<1>9. /\ frames' \in Seq(FrameType) /\ Len(frames') = n + 1
      /\ \A j \in 1..n : frames'[j] = IF j = n THEN fr ELSE frames[j]
      /\ frames'[n + 1] = Frame(l)
  <2>1. frames' = Append(mid, Frame(l))
    BY <1>1, <1>7
  <2>2. QED
    BY <1>2, <1>6, <1>8, <2>1
<1>10. TypeOK'
  BY <1>2, <1>9 DEF IInv, TypeOK, Call
<1>11. DOMAIN frames' = 1..(n+1) /\ DOMAIN frames = 1..n
  BY <1>2, <1>9
<1>12. Placed'
  <2>1. Fits(fr.at, fr.line) /\ Fits(Frame(l).at, Frame(l).line)
    BY <1>4, <1>6 DEF Fits, JsonPlaces, TextPlaces
  <2>2. ASSUME NEW j \in 1..(n+1) PROVE Fits(frames'[j].at, frames'[j].line)
    <3>1. CASE j = n + 1
      BY <1>9, <2>1, <3>1
    <3>2. CASE j # n + 1
      <4>1. j \in 1..n /\ j \in DOMAIN frames
        BY <1>2, <1>11, <3>2
      <4>2. frames'[j] = IF j = n THEN fr ELSE frames[j]
        BY <1>9, <4>1
      <4>3. Fits(frames[j].at, frames[j].line)
        BY <4>1 DEF IInv, Placed
      <4>4. QED
        BY <2>1, <4>2, <4>3
    <3>3. QED
      BY <3>1, <3>2
  <2>3. QED
    BY <1>11, <2>2 DEF Placed
<1>13. SeverityAgreement'
  <2>1. ASSUME NEW j \in 1..(n+1), frames'[j].at = "done" PROVE Agrees(frames'[j].res)
    <3>1. j \in 1..n /\ frames'[j] = frames[j]
      BY <1>2, <1>4, <1>6, <1>9, <2>1
    <3>2. QED
      BY <1>11, <2>1, <3>1 DEF IInv, SeverityAgreement, DoneAt, Agrees
  <2>2. QED
    BY <1>11, <2>1 DEF SeverityAgreement, DoneAt, Agrees
<1>14. QED
  BY <1>10, <1>12, <1>13 DEF IInv

\* Returning from an inner call: what is lifted, and where the caller goes on.
LEMMA MergeKeeps ==
  ASSUME IInv, NEW a, NEW b \in {"log", "envelope"}, Merge(a, b), Top.line.kind = "json"
  PROVE  IInv'
<1> DEFINE m == MergeNested(Top.res, returned.res, returned.body)
           fr == [Top EXCEPT !.at = b, !.res = m, !.lifted = Append(@, returned)]
<1>1. returned \in Handed /\ returned.res \in Result /\ returned.body \in MessageField
  BY DEF IInv, TypeOK, Handed
<1>2. m \in Result
  BY <1>1, TopTyped, MergeTyped
<1>3. frames' = [frames EXCEPT ![Len(frames)] = fr]
  BY TopTyped DEF Merge, Top
<1> HIDE DEF m
<1>4. fr \in FrameType /\ fr.at = b /\ fr.line = Top.line
  <2>1. Append(Top.lifted, returned) \in Seq(Handed)
    BY <1>1, TopTyped
  <2>2. QED
    BY <1>2, <2>1, TopTyped DEF FrameType, Places
<1>5. returned' \in Handed
  <2>1. ZeroResult \in Result
    BY DEF ZeroResult, Result, Formats, Stamps, SeverityTexts, SeverityNos, MessageField,
           StatusCodes, TraceIDField, SpanIDField, NameField
  <2>2. QED
    BY <2>1 DEF Merge, NoReturn, Handed, MessageField
<1>6. Fits(fr.at, fr.line)
  BY <1>4 DEF Fits, JsonPlaces, TextPlaces
<1> HIDE DEF fr
<1>7. QED
  BY <1>3, <1>4, <1>5, <1>6, TopReplaced

\* The call on top returns to the one below it.
LEMMA ReturnKeeps == ASSUME IInv, Return PROVE IInv'
<1> DEFINE n == Len(frames)
<1>1. /\ n \in Nat /\ n > 1 /\ frames \in Seq(FrameType) /\ n \in 1..MaxDepth
      /\ frames' = SubSeq(frames, 1, n - 1)
  BY TopTyped DEF Return, IInv, TypeOK
<1>2. /\ frames' \in Seq(FrameType) /\ Len(frames') = n - 1
      /\ \A j \in 1..(n-1) : frames'[j] = frames[j]
  BY <1>1
<1>3. returned' \in Handed
  <2>1. (IF Top.line.kind = "text" THEN Top.line.body ELSE NoText) \in MessageField
    BY TopTyped, LineTyped DEF MessageField
  <2>2. QED
    BY <2>1, TopTyped DEF Return, Handed
<1>4. DOMAIN frames' = 1..(n-1) /\ DOMAIN frames = 1..n /\ 1..(n-1) \subseteq 1..n
  BY <1>1, <1>2
<1>5. TypeOK'
  <2>1. Len(frames') \in 1..MaxDepth
    BY <1>1, <1>2, DepthAssumption
  <2>2. QED
    BY <1>2, <1>3, <2>1 DEF TypeOK
<1>6. Placed' /\ SeverityAgreement'
  BY <1>2, <1>4 DEF IInv, Placed, SeverityAgreement, DoneAt
<1>7. QED
  BY <1>5, <1>6 DEF IInv

-----------------------------------------------------------------------------
(* The inductive invariant *)

\* The outermost call starts in the invariant.
LEMMA Starts == Init => IInv
<1> SUFFICES ASSUME Init PROVE IInv
  OBVIOUS
<1>1. PICK l \in LinesAt[1] : frames = <<Frame(l)>>
  BY DEF Init
<1>2. l \in Line /\ 1 \in 1..MaxDepth
  BY <1>1, LinesAssumption, DepthAssumption
<1>3. ZeroResult \in Result
  BY DEF ZeroResult, Result, Formats, Stamps, SeverityTexts, SeverityNos, MessageField,
         StatusCodes, TraceIDField, SpanIDField, NameField
<1>4. Frame(l) \in FrameType /\ Frame(l).at = "decode"
  BY <1>2, <1>3 DEF Frame, FrameType, Places, Absent
<1>5. TypeOK
  BY <1>1, <1>2, <1>3, <1>4 DEF Init, TypeOK, NoReturn, Handed, MessageField
<1>6. Placed /\ SeverityAgreement
  BY <1>1, <1>4 DEF Placed, Fits, JsonPlaces, TextPlaces, SeverityAgreement, DoneAt
<1>7. QED
  BY <1>5, <1>6 DEF IInv

\* The steps of the JSON path.
LEMMA JsonStepKeeps ==
  ASSUME IInv,
         \/ PropertiesResponse \/ NoLog \/ Envelope \/ ApplySeverityHints \/ ApplyMetadata
         \/ ApplyResponseCode \/ Pino
  PROVE  IInv'
<1>1. Top.res \in Result /\ Top.line.kind = "json" /\ F \in Fields
  <2>1. Top.at \in JsonPlaces
    BY DEF PropertiesResponse, NoLog, Envelope, ApplySeverityHints, ApplyMetadata,
           ApplyResponseCode, Pino, Step, JsonPlaces
  <2>2. QED
    BY <2>1, TopTyped, LineTyped DEF Fits, F
<1>2. \A b \in {"log", "envelope", "hints", "metadata", "codes", "pino", "finish"} :
        b \in Places /\ b # "done" /\ Fits(b, Top.line)
  BY <1>1 DEF Places, Fits, JsonPlaces, TextPlaces
<1>3. CASE PropertiesResponse
  <2>1. (IF IsInt(F.response) THEN SetHTTPResponseCode(Top.res, F.response, "Failure")
         ELSE Top.res) \in Result
    BY <1>1, HTTPTyped DEF Fields
  <2>2. QED
    BY <1>2, <1>3, <2>1, StepKeeps DEF PropertiesResponse
<1>4. CASE NoLog
  BY <1>1, <1>2, <1>4, StepKeeps DEF NoLog
<1>5. CASE Envelope
  BY <1>1, <1>2, <1>5, EnvelopeTyped, StepKeeps DEF Envelope
<1>6. CASE ApplySeverityHints
  BY <1>1, <1>2, <1>6, HintsTyped, StepKeeps DEF ApplySeverityHints
<1>7. CASE ApplyMetadata
  BY <1>1, <1>2, <1>7, MetadataTyped, StepKeeps DEF ApplyMetadata
<1>8. CASE ApplyResponseCode
  <2> DEFINE code == IF F.ResponseCode # Absent THEN F.ResponseCode ELSE Top.code
  <2>1. code \in Int
    BY <1>1, TopTyped DEF Fields
  <2>2. ResponseCode(ResultStatus(Top.res, F), F, code) \in Result
    BY <1>1, <2>1, CodesTyped
  <2>3. QED
    BY <1>2, <1>8, <2>2, StepKeeps DEF ApplyResponseCode
<1>9. CASE Pino
  BY <1>1, <1>2, <1>9, PinoTyped, StepKeeps DEF Pino
<1>10. QED
  BY <1>3, <1>4, <1>5, <1>6, <1>7, <1>8, <1>9

\* The steps of every other line.
LEMMA TextStepKeeps ==
  ASSUME IInv, LogFmt \/ Patterns \/ ScanForTraceparent
  PROVE  IInv'
<1>1. /\ Top.res \in Result /\ Top.line.kind = "text" /\ Top.line.pairs \in Seq(Pair)
      /\ Top.line.entry \in EntryOutcome /\ Top.line.parent \in Traceparent
  <2>1. Top.at \in TextPlaces
    BY DEF LogFmt, Patterns, ScanForTraceparent, Step, TextPlaces
  <2>2. QED
    BY <2>1, TopTyped, LineTyped DEF Fits
<1>2. \A b \in {"patterns", "traceparent", "finish"} :
        b \in Places /\ b # "done" /\ Fits(b, Top.line)
  BY <1>1 DEF Places, Fits, JsonPlaces, TextPlaces
<1>3. CASE LogFmt
  <2> DEFINE o == Outcome(Top.line.pairs)
             r == Scanned(Top.res, o)
  <2>1. r \in Result
    BY <1>1, ScannedTyped
  <2>2. [r EXCEPT !.Format = "logfmt"] \in Result
    <3>1. "logfmt" \in Formats
      BY DEF Formats
    <3> HIDE DEF r
    <3>2. QED
      BY <2>1, <3>1 DEF Result
  <2>3. IF o.claimed THEN Step("logfmt", "finish", [r EXCEPT !.Format = "logfmt"])
        ELSE Step("logfmt", "patterns", r)
    BY <1>3, Zenon DEF LogFmt, Scanned
  <2> HIDE DEF r, o
  <2>4. QED
    BY <1>2, <2>1, <2>2, <2>3, StepKeeps
<1>4. CASE Patterns
  <2> DEFINE e == Top.line.entry
             r == IF e.matched THEN [ApplyCaptures(Top.res, e.got) EXCEPT !.Format = "pattern"]
                  ELSE Top.res
  <2>1. e.matched => e.got \in Captures
    BY <1>1 DEF EntryOutcome
  <2>2. e.matched => [ApplyCaptures(Top.res, e.got) EXCEPT !.Format = "pattern"] \in Result
    <3>1. "pattern" \in Formats
      BY DEF Formats
    <3>2. e.matched => ApplyCaptures(Top.res, e.got) \in Result
      BY <1>1, <2>1, CapturesTyped
    <3>3. QED
      BY <3>1, <3>2 DEF Result
  <2>3. r \in Result
    BY <1>1, <2>2
  <2>4. Step("patterns", "traceparent", r)
    BY <1>4, Zenon DEF Patterns
  <2> HIDE DEF r, e
  <2>5. QED
    BY <1>2, <2>3, <2>4, StepKeeps
<1>5. CASE ScanForTraceparent
  <2> DEFINE p == ScanTraceparent(Top.line.parent)
             r == IF p # NoIDs
                    THEN [Top.res EXCEPT !.TraceID = p.trace, !.SpanID = p.span,
                                         !.Format = "pattern"]
                    ELSE Top.res
  <2>1. r \in Result
    BY <1>1, ParentScanTyped
  <2>2. Step("traceparent", "finish", r)
    BY <1>5, Zenon DEF ScanForTraceparent
  <2> HIDE DEF r
  <2>3. QED
    BY <1>2, <2>1, <2>2, StepKeeps
<1>6. QED
  BY <1>3, <1>4, <1>5

\* Where a line turns out to be JSON or not, and where the call ends.
LEMMA EndStepKeeps ==
  ASSUME IInv, Decode \/ Finish \/ PropertiesStatusCode
  PROVE  IInv'
<1>1. CASE Decode
  <2> DEFINE b == IF Top.line.kind = "json" THEN "properties" ELSE "logfmt"
  <2>1. b \in Places /\ b # "done" /\ Fits(b, Top.line)
    BY TopTyped, LineTyped DEF Places, Fits, JsonPlaces, TextPlaces
  <2>2. Step("decode", b, Top.res)
    BY <1>1 DEF Decode
  <2> HIDE DEF b
  <2>3. QED
    BY <2>1, <2>2, TopTyped, StepKeeps
<1>2. CASE Finish
  <2>1. "done" \in Places /\ Fits("done", Top.line)
    BY DEF Places, Fits, JsonPlaces, TextPlaces
  <2>2. /\ Downgrade(Normalize(Top.res)) \in Result
        /\ Agrees(Downgrade(Normalize(Top.res)))
    BY TopTyped, FinishAgrees
  <2>3. QED
    BY <1>2, <2>1, <2>2, StepKeeps DEF Finish
<1>3. CASE PropertiesStatusCode
  <2> DEFINE fr == [Top EXCEPT !.at = "log", !.code = F.httpStatusCode]
  <2>1. Top.line.kind = "json" /\ F.httpStatusCode \in Int
    <3>1. Top.at \in JsonPlaces
      BY <1>3 DEF PropertiesStatusCode, JsonPlaces
    <3>2. QED
      BY <3>1, TopTyped, LineTyped DEF Fits, F, Fields
  <2>2. fr \in FrameType /\ fr.at = "log" /\ fr.line = Top.line
    BY <2>1, TopTyped DEF FrameType, Places
  <2>3. frames' = [frames EXCEPT ![Len(frames)] = fr] /\ returned' \in Handed
    BY <1>3, TopTyped DEF PropertiesStatusCode, Top, IInv, TypeOK
  <2>4. Fits(fr.at, fr.line)
    BY <2>1, <2>2 DEF Fits, JsonPlaces, TextPlaces
  <2> HIDE DEF fr
  <2>5. QED
    BY <2>2, <2>3, <2>4, TopReplaced
<1>4. QED
  BY <1>1, <1>2, <1>3

\* Every step of every call preserves the invariant.
LEMMA Inductive == IInv /\ [Next]_vars => IInv'
<1>1. ASSUME IInv, Top.at \in JsonPlaces PROVE Top.line.kind = "json"
  BY <1>1, TopTyped DEF Fits
<1>2. ASSUME IInv, CallPropertiesLog \/ CallLog PROVE IInv'
  BY <1>1, <1>2, CallKeeps DEF CallPropertiesLog, CallLog, JsonPlaces
<1>3. ASSUME IInv, MergeProperties \/ MergeLog PROVE IInv'
  BY <1>1, <1>3, MergeKeeps DEF MergeProperties, MergeLog, Merge, JsonPlaces
<1>4. ASSUME IInv, UNCHANGED vars PROVE IInv'
  BY <1>4 DEF IInv, vars, TypeOK, Placed, SeverityAgreement, DoneAt
<1>5. QED
  BY <1>2, <1>3, <1>4, JsonStepKeeps, TextStepKeeps, EndStepKeeps, ReturnKeeps DEF Next

\* The invariant of the calls, for every set of lines and every depth.
THEOREM AlwaysIInv == Spec => []IInv
BY Starts, Inductive, PTL DEF Spec

-----------------------------------------------------------------------------
(* The results *)

\* Every Result, at every step of every call however deeply lines embed lines,
\* holds only what the conversions into it can produce.
THEOREM ResultsTyped == Spec => []TypeOK
<1>1. IInv => TypeOK
  BY DEF IInv
<1>2. QED
  BY <1>1, AlwaysIInv, PTL

\* A finished Result never has a SeverityNumber that contradicts its Severity,
\* whatever signals the line carries and in whatever order they overwrote each
\* other.
THEOREM LevelsAgree == Spec => []SeverityAgreement
<1>1. IInv => SeverityAgreement
  BY DEF IInv
<1>2. QED
  BY <1>1, AlwaysIInv, PTL

-----------------------------------------------------------------------------
(* Zones and levels.  One more invariant: every Result at hand has the zone *)
(* answer of its own timestamp, and a JSON record's level, at any moment,   *)
(* is one of the six or none.                                               *)

KnownLevels == Levels \cup {NoText}
Zoned(r) == r.TimeHasZone <=> r.Time \in Times

Fine(r) == r \in Result /\ Zoned(r) /\ r.Severity \in KnownLevels

\* What every paragraph of applyJSON does to a Result.
Onward(r, q) == Fine(q) /\ (r.Severity # NoText => q.Severity # NoText)

\* The empty text is no level.
LEMMA NoTextIsNoLevel == NoText \notin Levels
BY DEF Levels, NoText

\* One paragraph after another.
LEMMA OnwardTwice ==
  ASSUME NEW r, NEW q, NEW p, Onward(r, q), Onward(q, p)
  PROVE  Onward(r, p)
BY DEF Onward

\* A paragraph that leaves the three fields alone.
LEMMA OtherOnward ==
  ASSUME NEW r, NEW q \in Result, Fine(r),
         q.Time = r.Time, q.TimeHasZone = r.TimeHasZone, q.Severity = r.Severity
  PROVE  Onward(r, q)
BY Zenon DEF Onward, Fine, Zoned

\* One that writes a level, with or without its number.
LEMMA LevelOnward ==
  ASSUME NEW r, Fine(r), NEW s \in Levels
  PROVE  /\ Onward(r, [r EXCEPT !.Severity = s])
         /\ \A no \in 0..24 : Onward(r, SetSeverity(r, Graded(s, no)))
<1>1. r \in Result /\ s \in SeverityTexts /\ s # NoText /\ s \in KnownLevels
  BY NoTextIsNoLevel DEF Fine, SeverityTexts, KnownLevels
<1>2. ASSUME NEW q \in Result, q.Time = r.Time, q.TimeHasZone = r.TimeHasZone, q.Severity = s
      PROVE  Onward(r, q)
  BY <1>1, <1>2, Zenon DEF Onward, Fine, Zoned
<1>3. Onward(r, [r EXCEPT !.Severity = s])
  <2> DEFINE q == [r EXCEPT !.Severity = s]
  <2>1. q \in Result
    BY <1>1, LevelTyped
  <2>2. q.Time = r.Time /\ q.TimeHasZone = r.TimeHasZone /\ q.Severity = s
    BY <1>1 DEF Result
  <2> HIDE DEF q
  <2>3. Onward(r, q)
    BY <1>2, <2>1, <2>2
  <2>4. QED
    BY <2>3 DEF q
<1>4. ASSUME NEW no \in 0..24 PROVE Onward(r, SetSeverity(r, Graded(s, no)))
  <2> DEFINE q == SetSeverity(r, Graded(s, no))
  <2>1. q \in Result
    BY <1>1, <1>4, SetSeverityTyped DEF Graded
  <2>2. q.Time = r.Time /\ q.TimeHasZone = r.TimeHasZone /\ q.Severity = s
    BY <1>1 DEF Result, SetSeverity, Graded
  <2> HIDE DEF q
  <2>3. Onward(r, q)
    BY <1>2, <2>1, <2>2
  <2>4. QED
    BY <2>3 DEF q
<1>5. QED
  BY <1>3, <1>4

\* What SeverityFromText finds is a level with its number, or nothing.
LEMMA TextOnward ==
  ASSUME NEW r, Fine(r), NEW text, SeverityFromText(text).text # NoText
  PROVE  Onward(r, SetSeverity(r, SeverityFromText(text)))
<1> DEFINE g == SeverityFromText(text)
<1>1. g \in [text : Levels \cup {NoText}, no : 0..24]
  BY SeverityRoundTrip
<1>2. g.text # NoText
  OBVIOUS
<1> HIDE DEF g
<1>3. g.text \in Levels /\ g.no \in 0..24 /\ g = Graded(g.text, g.no)
  BY <1>1, <1>2 DEF Graded
<1>4. Onward(r, SetSeverity(r, Graded(g.text, g.no)))
  BY <1>3, LevelOnward
<1>5. Onward(r, SetSeverity(r, g))
  BY <1>3, <1>4
<1>6. QED
  BY <1>5 DEF g

\* Every code setHTTPResponseCode lets through has a level: its second guard
\* never holds one back.
LEMMA CodeSet ==
  ASSUME NEW r, NEW code \in Int, NEW kind
  PROVE  /\ ~ IsStatus(code) => SetHTTPResponseCode(r, code, kind) = r
         /\ IsStatus(code) =>
              SetHTTPResponseCode(r, code, kind) =
                [r EXCEPT
                   !.HTTPStatusCode = IF Recorded(code) THEN code ELSE r.HTTPStatusCode,
                   !.Severity = IF Grades(r.Severity, kind) THEN HTTPStatusSeverity(code, kind)
                                ELSE r.Severity]
<1>1. IsStatus(code) => HTTPStatusSeverity(code, kind) # NoText
  BY StatusGrade, NoTextIsNoLevel DEF IsStatus
<1>2. CASE ~ IsStatus(code)
  BY <1>2 DEF SetHTTPResponseCode
<1>3. CASE IsStatus(code)
  BY <1>1, <1>3 DEF SetHTTPResponseCode
<1>4. QED
  BY <1>2, <1>3

\* A status code writes a level or leaves the one there is.
LEMMA HTTPOnward ==
  ASSUME NEW r, Fine(r), NEW code \in Int, NEW kind
  PROVE  Onward(r, SetHTTPResponseCode(r, code, kind))
<1> DEFINE s == HTTPStatusSeverity(code, kind)
           q == SetHTTPResponseCode(r, code, kind)
<1>1. r \in Result /\ q \in Result /\ r.Severity \in KnownLevels
  BY HTTPTyped DEF Fine
<1>2. IsStatus(code) => s \in Levels
  BY StatusGrade DEF IsStatus
<1>3. q.Time = r.Time /\ q.TimeHasZone = r.TimeHasZone
  BY <1>1 DEF SetHTTPResponseCode, Result
<1>4. q.Severity = IF IsStatus(code) /\ Grades(r.Severity, kind) THEN s ELSE r.Severity
  <2>1. (~ IsStatus(code) => q = r) /\ (IsStatus(code) => q = [r EXCEPT
          !.HTTPStatusCode = IF Recorded(code) THEN code ELSE r.HTTPStatusCode,
          !.Severity = IF Grades(r.Severity, kind) THEN s ELSE r.Severity])
    BY CodeSet, Zenon
  <2> HIDE DEF q, s
  <2>2. QED
    BY <1>1, <2>1 DEF Result
<1> HIDE DEF s, q
<1>5. q.Severity \in KnownLevels /\ (r.Severity # NoText => q.Severity # NoText)
  BY <1>1, <1>2, <1>4, NoTextIsNoLevel DEF KnownLevels
<1>6. Onward(r, q)
  BY <1>1, <1>3, <1>5, Zenon DEF Onward, Fine, Zoned
<1>7. QED
  BY <1>6 DEF q

\* A timestamp and the zone answer that goes with it.
LEMMA TimeOnward ==
  ASSUME NEW r, Fine(r), NEW t \in Stamps, NEW z \in BOOLEAN, z <=> t \in Times
  PROVE  Onward(r, SetTime(r, t, z))
<1> DEFINE q == SetTime(r, t, z)
<1>1. r \in Result /\ q \in Result
  BY SetTimeTyped DEF Fine
<1>2. q.Time = t /\ q.TimeHasZone = z /\ q.Severity = r.Severity
  BY <1>1 DEF SetTime, Result
<1> HIDE DEF q
<1>3. Onward(r, q)
  BY <1>1, <1>2, Zenon DEF Onward, Fine, Zoned
<1>4. QED
  BY <1>3 DEF q

\* Doing nothing.
LEMMA StayOnward == ASSUME NEW r, Fine(r) PROVE Onward(r, r)
BY DEF Onward

-----------------------------------------------------------------------------
(* The paragraphs of applyJSON *)

\* The envelope's own timestamps state their zone.
LEMMA EnvelopeOnward ==
  ASSUME NEW r, Fine(r), NEW f \in Fields
  PROVE  Onward(r, EnvelopeTime(EnvelopeStatus(r, f), f))
<1>1. /\ f.responseStatus \in Int
      /\ f.Time \in Times \cup {NoTime} /\ f.MongoTime \in Times \cup {NoTime}
  BY DEF Fields
<1>2. Onward(r, EnvelopeStatus(r, f))
  BY <1>1, HTTPOnward, StayOnward DEF EnvelopeStatus
<1>3. ASSUME NEW q, Fine(q) PROVE Onward(q, EnvelopeTime(q, f))
  <2>1. ASSUME NEW t \in Times PROVE Onward(q, SetTime(q, t, TRUE))
    BY <1>3, <2>1, TimeOnward DEF Stamps
  <2>2. QED
    BY <1>1, <1>3, <2>1, StayOnward DEF EnvelopeTime
<1>4. Fine(EnvelopeStatus(r, f))
  BY <1>2 DEF Onward
<1>5. QED
  BY <1>2, <1>3, <1>4, OnwardTwice

\* applySeverityHints only writes levels.
LEMMA HintsOnward ==
  ASSUME NEW r, Fine(r), NEW f \in Fields
  PROVE  Onward(r, GrpcHint(OTLPHint(MongoHint(LevelHint(r, f), f), f), f))
<1>1. ASSUME NEW q, Fine(q) PROVE Onward(q, LevelHint(q, f))
  BY <1>1, TextOnward, StayOnward DEF LevelHint
<1>2. ASSUME NEW q, Fine(q) PROVE Onward(q, MongoHint(q, f))
  BY <1>2, TextOnward, StayOnward DEF MongoHint
<1>3. ASSUME NEW q, Fine(q) PROVE Onward(q, OTLPHint(q, f))
  <2>1. f.SeverityNumber \in 1..24 =>
          SeverityFromNumber(f.SeverityNumber) \in Levels /\ f.SeverityNumber \in 0..24
    BY DEF SeverityFromNumber, Levels
  <2>2. QED
    BY <1>3, <2>1, LevelOnward, StayOnward DEF OTLPHint
<1>4. ASSUME NEW q, Fine(q) PROVE Onward(q, GrpcHint(q, f))
  <2>1. "info" \in Levels /\ "warn" \in Levels
    BY DEF Levels
  <2>2. /\ Onward(q, [q EXCEPT !.Severity = "info"])
        /\ Onward(q, [q EXCEPT !.Severity = "warn"])
    BY <1>4, <2>1, LevelOnward
  <2>3. QED
    BY <1>4, <2>2, StayOnward DEF GrpcHint
<1> DEFINE q1 == LevelHint(r, f)
           q2 == MongoHint(q1, f)
           q3 == OTLPHint(q2, f)
<1>5. Onward(r, q1) /\ Fine(q1)
  BY <1>1 DEF Onward
<1>6. Onward(q1, q2) /\ Fine(q2)
  BY <1>2, <1>5 DEF Onward
<1>7. Onward(q2, q3) /\ Fine(q3)
  BY <1>3, <1>6 DEF Onward
<1>8. Onward(q3, GrpcHint(q3, f))
  BY <1>4, <1>7
<1> HIDE DEF q1, q2, q3
<1>9. Onward(r, q2)
  BY <1>5, <1>6, OnwardTwice
<1>10. Onward(r, q3)
  BY <1>7, <1>9, OnwardTwice
<1>11. Onward(r, GrpcHint(q3, f))
  BY <1>8, <1>10, OnwardTwice
<1>12. QED
  BY <1>11 DEF q3, q2, q1

\* applyMetadata writes no time, and a level only where there is none.
LEMMA MetadataOnward ==
  ASSUME NEW r, Fine(r), NEW f \in Fields
  PROVE  Onward(r, ExceptionIsError(Except(Describe(Identify(r, f), f), f)))
<1> DEFINE q1 == Identify(r, f)
           q2 == Describe(q1, f)
           q3 == Except(q2, f)
           q4 == ExceptionIsError(q3)
<1>1. r \in Result /\ q4 \in Result
  BY MetadataTyped DEF Fine
<1>2. /\ DOMAIN q1 = DOMAIN r
      /\ q1.Time = r.Time /\ q1.TimeHasZone = r.TimeHasZone /\ q1.Severity = r.Severity
  BY <1>1 DEF Identify, Result
<1> HIDE DEF q1
<1>3. /\ DOMAIN q2 = DOMAIN q1
      /\ q2.Time = q1.Time /\ q2.TimeHasZone = q1.TimeHasZone /\ q2.Severity = q1.Severity
  BY <1>1, <1>2 DEF Describe, Result
<1> HIDE DEF q2
<1>4. /\ DOMAIN q3 = DOMAIN q2
      /\ q3.Time = q2.Time /\ q3.TimeHasZone = q2.TimeHasZone /\ q3.Severity = q2.Severity
  BY <1>1, <1>2, <1>3 DEF Except, ParseException, Result
<1> HIDE DEF q3
<1>5. /\ q4.Time = q3.Time /\ q4.TimeHasZone = q3.TimeHasZone
      /\ q4.Severity = IF q3.Severity = NoText /\ HasException(q3) THEN "error" ELSE q3.Severity
  BY <1>1, <1>2, <1>3, <1>4 DEF ExceptionIsError, Result
<1> HIDE DEF q4
<1>6. q4.Severity \in KnownLevels /\ (r.Severity # NoText => q4.Severity # NoText)
  BY <1>2, <1>3, <1>4, <1>5 DEF Fine, KnownLevels, Levels
<1>7. Onward(r, q4)
  BY <1>1, <1>2, <1>3, <1>4, <1>5, <1>6, Zenon DEF Onward, Fine, Zoned
<1>8. QED
  BY <1>7 DEF q4, q3, q2, q1

\* Nor does applyResponseCode take a level away.
LEMMA CodesOnward ==
  ASSUME NEW r, Fine(r), NEW f \in Fields, NEW code \in Int
  PROVE  Onward(r, ResponseCode(ResultStatus(r, f), f, code))
<1>1. Onward(r, ResultStatus(r, f))
  BY HTTPOnward, StayOnward DEF ResultStatus, Fields
<1>2. ASSUME NEW q, Fine(q) PROVE Onward(q, ResponseCode(q, f, code))
  <2>1. ASSUME NEW s \in {"info", "warn"} PROVE Onward(q, Defers(q, s))
    <3>1. s \in Levels
      BY <2>1 DEF Levels
    <3>2. CASE q.Severity \in {NoText, "info"}
      <4>1. Defers(q, s) = [q EXCEPT !.Severity = s]
        BY <1>2, <3>2 DEF Defers, Fine, Result
      <4>2. QED
        BY <1>2, <3>1, <4>1, LevelOnward
    <3>3. CASE q.Severity \notin {NoText, "info"}
      <4>1. Defers(q, s) = q
        BY <1>2, <3>3 DEF Defers, Fine, Result
      <4>2. QED
        BY <1>2, <4>1, StayOnward
    <3>4. QED
      BY <3>2, <3>3
  <2>2. Onward(q, SetHTTPResponseCode(q, code, "Observed"))
    BY <1>2, HTTPOnward
  <2>3. QED
    BY <1>2, <2>1, <2>2, StayOnward DEF ResponseCode
<1>3. QED
  BY <1>1, <1>2, OnwardTwice DEF Onward

\* The numeric level is looked at only where there is no level.
LEMMA PinoOnward ==
  ASSUME NEW r, Fine(r), NEW f \in Fields
  PROVE  Onward(r, [r EXCEPT !.Format = "json",
                             !.Severity = IF @ = NoText THEN PinoSeverity(f.pino) ELSE @])
<1> DEFINE q == [r EXCEPT !.Format = "json",
                          !.Severity = IF @ = NoText THEN PinoSeverity(f.pino) ELSE @]
<1>1. r \in Result /\ q \in Result
  BY PinoTyped DEF Fine
<1>2. /\ q.Time = r.Time /\ q.TimeHasZone = r.TimeHasZone
      /\ q.Severity = IF r.Severity = NoText THEN PinoSeverity(f.pino) ELSE r.Severity
  BY <1>1 DEF Result
<1> HIDE DEF q
<1>3. q.Severity \in KnownLevels /\ (r.Severity # NoText => q.Severity # NoText)
  BY <1>2, PinoGrade DEF Fine, KnownLevels
<1>4. Onward(r, q)
  BY <1>1, <1>2, <1>3, Zenon DEF Onward, Fine, Zoned
<1>5. QED
  BY <1>4 DEF q

\* What is lifted from a finished call brings its own zone answer along.
LEMMA MergeOnward ==
  ASSUME NEW r, Fine(r), NEW n, Fine(n), NEW body \in MessageField
  PROVE  Onward(r, MergeNested(r, n, body))
<1> DEFINE q1 == LiftTime(r, n)
           q == MergeNested(r, n, body)
<1>1. r \in Result /\ n \in Result /\ q \in Result
  BY MergeTyped DEF Fine
<1>2. Onward(r, q1)
  <2>1. Onward(r, SetTime(r, n.Time, n.TimeHasZone))
    <3>1. n.Time \in Stamps /\ n.TimeHasZone \in BOOLEAN
      BY <1>1 DEF Result
    <3>2. n.TimeHasZone <=> n.Time \in Times
      BY DEF Fine, Zoned
    <3>3. QED
      BY <3>1, <3>2, TimeOnward, Zenon
  <2>2. QED
    BY <2>1, StayOnward DEF LiftTime
<1>3. Fine(q1) /\ q1.Severity = r.Severity
  BY <1>1, <1>2 DEF Onward, LiftTime, SetTime, Result
<1>4. /\ q.Time = q1.Time /\ q.TimeHasZone = q1.TimeHasZone
      /\ q.Severity = SetIfSet(q1.Severity, n.Severity)
  <2>1. q1 \in Result /\ q = LiftMessage(LiftFields(LiftIDs(q1, n), n), n, body)
    BY <1>3 DEF Fine, MergeNested
  <2> HIDE DEF q1, q
  <2> DEFINE q2 == LiftIDs(q1, n)
             q3 == LiftFields(q2, n)
  <2>2. /\ DOMAIN q2 = DOMAIN q1
        /\ q2.Time = q1.Time /\ q2.TimeHasZone = q1.TimeHasZone /\ q2.Severity = q1.Severity
    BY <2>1 DEF LiftIDs, Result
  <2> HIDE DEF q2
  <2>3. /\ DOMAIN q3 = DOMAIN q2 /\ q3.Time = q2.Time /\ q3.TimeHasZone = q2.TimeHasZone
        /\ q3.Severity = SetIfSet(q2.Severity, n.Severity)
    BY <2>1, <2>2 DEF LiftFields, Result
  <2> HIDE DEF q3
  <2>4. /\ q.Time = q3.Time /\ q.TimeHasZone = q3.TimeHasZone /\ q.Severity = q3.Severity
    BY <2>1, <2>2, <2>3 DEF LiftMessage, Result, q2, q3
  <2>5. QED
    BY <2>2, <2>3, <2>4
<1>5. /\ q.Severity \in KnownLevels
      /\ r.Severity # NoText => q.Severity # NoText
  BY <1>3, <1>4 DEF Fine, SetIfSet
<1> HIDE DEF q1, q
<1>6. Onward(r, q)
  BY <1>1, <1>3, <1>4, <1>5, Zenon DEF Onward, Fine, Zoned
<1>7. QED
  BY <1>6 DEF q

\* The six levels are spellings of levels.
LEMMA LevelsAreNamed ==
  ASSUME NEW s \in Levels
  PROVE  SeverityFromText(s).text # NoText
<1>1. Fold(s) = s
  BY DEF Fold, Folded, Levels
<1>2. Named(s)
  <2>1. \E row \in SeverityRows : s \in row.forms
    BY DEF SeverityRows, Levels
  <2>2. QED
    BY <2>1 DEF Named, severityLUT
<1>3. PICK row \in SeverityRows : severityLUT[s] = [text |-> row.text, no |-> row.no]
  BY <1>2, LUTFacts
<1>4. row.text \in Levels
  BY RowFacts
<1>5. SeverityFromText(s).text = row.text
  BY <1>1, <1>2, <1>3 DEF SeverityFromText
<1>6. QED
  BY <1>4, <1>5, NoTextIsNoLevel

\* The normalization keeps the timestamp and knows every level there is.
LEMMA FinishOnward ==
  ASSUME NEW r \in Result, Zoned(r)
  PROVE  LET q == Downgrade(Normalize(r))
         IN  /\ Fine(q)
             /\ r.Severity \in Levels => q.Severity # NoText
<1> DEFINE n == Normalize(r)
           q == Downgrade(n)
           s == SeverityFromText(r.Severity)
<1>1. q \in Result /\ Agrees(q)
  BY FinishAgrees
<1>2. /\ DOMAIN n = DOMAIN r
      /\ n.Time = r.Time /\ n.TimeHasZone = r.TimeHasZone /\ n.Severity = s.text
  BY DEF Normalize, Result
<1>3. r.Severity \in Levels => s.text # NoText
  BY LevelsAreNamed
<1> HIDE DEF n, s
<1>4. /\ q.Time = n.Time /\ q.TimeHasZone = n.TimeHasZone
      /\ q.Severity \in {n.Severity, "warn"}
  BY <1>2 DEF Downgrade, SetSeverity, Graded, Result
<1>5. q.Severity \in KnownLevels
  BY <1>1 DEF Agrees, KnownLevels
<1> HIDE DEF q
<1>6. Fine(q)
  BY <1>1, <1>2, <1>4, <1>5, Zenon DEF Fine, Zoned
<1>7. r.Severity \in Levels => q.Severity # NoText
  BY <1>2, <1>3, <1>4 DEF NoText
<1>8. QED
  BY <1>6, <1>7 DEF q, n

-----------------------------------------------------------------------------
(* Every other line: only the zone matters, its levels are any text *)

\* A logfmt timestamp is an instant.
LEMMA ScannedZoned ==
  ASSUME NEW r \in Result, NEW pairs \in Seq(Pair)
  PROVE  /\ Zoned(Scanned(r, Outcome(pairs)))
         /\ Zoned([Scanned(r, Outcome(pairs)) EXCEPT !.Format = "logfmt"])
<1> DEFINE o == Outcome(pairs)
           q == Scanned(r, o)
<1>1. o.time \in Times \cup {NoTime}
  BY OutcomeTyped
<1> HIDE DEF o
<1>2. q.Time = o.time /\ q.TimeHasZone = (o.time # NoTime)
  BY DEF Scanned, SetTime, Result
<1>3. /\ [q EXCEPT !.Format = "logfmt"].Time = q.Time
      /\ [q EXCEPT !.Format = "logfmt"].TimeHasZone = q.TimeHasZone
  BY DEF Scanned, SetTime, Result
<1>4. o.time # NoTime <=> o.time \in Times
  BY <1>1, LogfmtAssumption
<1> HIDE DEF q
<1>5. QED
  BY <1>2, <1>3, <1>4, Zenon DEF Zoned, q, o

\* The table's layouts say whether what they read is an instant.
LEMMA CapturesZoned ==
  ASSUME NEW r \in Result, Zoned(r), NEW c \in Captures
  PROVE  Zoned([ApplyCaptures(r, c) EXCEPT !.Format = "pattern"])
<1> DEFINE named    == [r EXCEPT !.SourceContext = SetIfSet(@, c.source)]
           levelled == CASE c.level # NoText    -> [named EXCEPT !.Severity = c.level]
                         [] c.mark # NoText     -> [named EXCEPT !.Severity = RedisSeverity(c.mark)]
                         [] c.priority \in 0..191 ->
                              SetSeverity(named, SyslogSeverity(c.priority % 8))
                         [] OTHER               -> named
           timed    == IF c.time # NoTime THEN SetTime(levelled, c.time, c.time \in Times)
                       ELSE levelled
           coded    == SetHTTPResponseCode(timed, c.code, "Observed")
           errored  == IF c.asError /\ coded.Severity = NoText
                         THEN [coded EXCEPT !.Severity = "error"] ELSE coded
           told     == IF c.exception.present THEN ParseException(errored, c.exception)
                       ELSE errored
           q        == [told EXCEPT !.Format = "pattern"]
<1>1. DOMAIN named = DOMAIN r /\ named.Time = r.Time /\ named.TimeHasZone = r.TimeHasZone
  BY DEF Result
<1>2. {"Time", "TimeHasZone"} \subseteq DOMAIN r
  BY DEF Result
<1> HIDE DEF named
<1>3. /\ DOMAIN levelled = DOMAIN named
      /\ levelled.Time = named.Time /\ levelled.TimeHasZone = named.TimeHasZone
  BY <1>1, <1>2 DEF SetSeverity
<1>4. DOMAIN timed = DOMAIN r /\ Zoned(timed)
  <2>1. CASE c.time = NoTime
    <3>1. timed = levelled
      BY <2>1
    <3>2. /\ DOMAIN timed = DOMAIN r
          /\ timed.Time = r.Time /\ timed.TimeHasZone = r.TimeHasZone
      BY <1>1, <1>3, <3>1
    <3> HIDE DEF timed
    <3>3. Zoned(timed)
      BY <3>2, Zenon DEF Zoned
    <3>4. QED
      BY <3>2, <3>3
  <2>2. CASE c.time # NoTime
    <3>1. timed = SetTime(levelled, c.time, c.time \in Times)
      BY <2>2
    <3> HIDE DEF timed, levelled
    <3>2. /\ DOMAIN timed = DOMAIN r
          /\ timed.Time = c.time /\ timed.TimeHasZone = (c.time \in Times)
      BY <1>1, <1>2, <1>3, <3>1 DEF SetTime
    <3>3. Zoned(timed)
      BY <3>2, Zenon DEF Zoned
    <3>4. QED
      BY <3>2, <3>3
  <2>3. QED
    BY <2>1, <2>2
<1> HIDE DEF levelled, timed
<1>5. /\ DOMAIN coded = DOMAIN r
      /\ coded.Time = timed.Time /\ coded.TimeHasZone = timed.TimeHasZone
  BY <1>2, <1>4 DEF SetHTTPResponseCode
<1> HIDE DEF coded
<1>6. /\ DOMAIN errored = DOMAIN r
      /\ errored.Time = coded.Time /\ errored.TimeHasZone = coded.TimeHasZone
  BY <1>2, <1>5
<1> HIDE DEF errored
<1>7. /\ DOMAIN told = DOMAIN r
      /\ told.Time = errored.Time /\ told.TimeHasZone = errored.TimeHasZone
  BY <1>2, <1>6 DEF ParseException
<1> HIDE DEF told
<1>8. q.Time = told.Time /\ q.TimeHasZone = told.TimeHasZone
  BY <1>2, <1>7
<1> HIDE DEF q
<1>9. Zoned(q)
  BY <1>4, <1>5, <1>6, <1>7, <1>8, Zenon DEF Zoned
<1>10. ApplyCaptures(r, c) = told
  BY Zenon DEF ApplyCaptures, told, errored, coded, timed, levelled, named
<1>11. QED
  BY <1>9, <1>10 DEF q

\* The traceparent scan leaves the timestamp alone.
LEMMA ParentScanZoned ==
  ASSUME NEW r \in Result, Zoned(r), NEW p
  PROVE  Zoned([r EXCEPT !.TraceID = p.trace, !.SpanID = p.span, !.Format = "pattern"])
<1> DEFINE q == [r EXCEPT !.TraceID = p.trace, !.SpanID = p.span, !.Format = "pattern"]
<1>1. q.Time = r.Time /\ q.TimeHasZone = r.TimeHasZone
  BY DEF Result
<1> HIDE DEF q
<1>2. Zoned(q)
  BY <1>1, Zenon DEF Zoned
<1>3. QED
  BY <1>2 DEF q

-----------------------------------------------------------------------------
(* The stack of calls again *)

Tidy(fr) == Zoned(fr.res) /\ (fr.line.kind = "json" => fr.res.Severity \in KnownLevels)

AllTidy ==
  /\ \A i \in DOMAIN frames : Tidy(frames[i])
  /\ Fine(returned.res)

LInv == IInv /\ AllTidy

\* What LevelNeverUnset says of one step.
NoLevelLost ==
  \A i \in DOMAIN frames \cap DOMAIN frames' :
    (JsonAt(i) /\ frames[i].res.Severity # NoText) => frames'[i].res.Severity # NoText

\* A Result that a call starts with.
LEMMA ZeroFine == Fine(ZeroResult)
<1>1. ZeroResult \in Result
  BY DEF ZeroResult, Result, Formats, Stamps, SeverityTexts, SeverityNos, MessageField,
         StatusCodes, TraceIDField, SpanIDField, NameField
<1>2. Zoned(ZeroResult)
  BY LogfmtAssumption DEF Zoned, ZeroResult
<1>3. QED
  BY <1>1, <1>2 DEF Fine, ZeroResult, KnownLevels

\* The call on top.
LEMMA TopTidy ==
  ASSUME LInv
  PROVE  /\ Zoned(Top.res)
         /\ Top.line.kind = "json" => Fine(Top.res)
<1>1. Len(frames) \in DOMAIN frames /\ Top.res \in Result
  BY TopTyped DEF LInv
<1>2. Tidy(Top)
  BY <1>1 DEF LInv, AllTidy, Top
<1>3. QED
  BY <1>1, <1>2 DEF Tidy, Fine

\* A new top of the stack that is tidy and has lost no level.
LEMMA TopTidied ==
  ASSUME LInv, NEW fr, Tidy(fr),
         Top.line.kind = "json" /\ Top.res.Severity # NoText => fr.res.Severity # NoText,
         frames' = [frames EXCEPT ![Len(frames)] = fr],
         Fine(returned'.res)
  PROVE  AllTidy' /\ NoLevelLost
<1>1. frames \in Seq(FrameType) /\ Len(frames) \in DOMAIN frames
  BY TopTyped DEF LInv, IInv, TypeOK
<1>2. /\ DOMAIN frames' = DOMAIN frames
      /\ \A j \in DOMAIN frames : frames'[j] = IF j = Len(frames) THEN fr ELSE frames[j]
  BY <1>1
<1>3. AllTidy'
  BY <1>2 DEF LInv, AllTidy
<1>4. NoLevelLost
  BY <1>1, <1>2 DEF NoLevelLost, JsonAt, Top
<1>5. QED
  BY <1>3, <1>4

\* A step of the call on top.
LEMMA StepTidy ==
  ASSUME LInv, NEW a, NEW b, NEW r, Step(a, b, r), Zoned(r),
         Top.line.kind = "json" => Onward(Top.res, r)
  PROVE  AllTidy' /\ NoLevelLost
<1> DEFINE fr == [Top EXCEPT !.at = b, !.res = r]
<1>1. Top \in FrameType /\ Len(frames) \in DOMAIN frames
  BY TopTyped DEF LInv
<1>2. fr.res = r /\ fr.line = Top.line
  BY <1>1 DEF FrameType
<1>3. frames' = [frames EXCEPT ![Len(frames)] = fr]
  BY <1>1 DEF Step, Top
<1>4. Fine(returned'.res)
  BY DEF Step, LInv, AllTidy
<1> HIDE DEF fr
<1>5. Tidy(fr)
  BY <1>2 DEF Tidy, Onward, Fine
<1>6. Top.line.kind = "json" /\ Top.res.Severity # NoText => fr.res.Severity # NoText
  BY <1>2 DEF Onward
<1>7. QED
  BY <1>3, <1>4, <1>5, <1>6, TopTidied

\* The same for the paragraphs of applyJSON.
LEMMA JsonStepTidy ==
  ASSUME LInv, NEW a, NEW b, NEW r, Step(a, b, r), Onward(Top.res, r)
  PROVE  AllTidy' /\ NoLevelLost
BY StepTidy DEF Onward, Fine

\* Steps of a JSON record are taken with a JSON record at hand.
LEMMA AtJson ==
  ASSUME LInv, Top.at \in JsonPlaces
  PROVE  Fine(Top.res) /\ F \in Fields
BY TopTyped, TopTidy, LineTyped DEF LInv, Fits, F

\* applyJSON, paragraph by paragraph.
LEMMA ParagraphsTidy ==
  ASSUME LInv,
         \/ PropertiesResponse \/ NoLog \/ Envelope \/ ApplySeverityHints \/ ApplyMetadata
         \/ ApplyResponseCode \/ Pino
  PROVE  AllTidy' /\ NoLevelLost
<1>1. Top.at \in JsonPlaces
  BY DEF PropertiesResponse, NoLog, Envelope, ApplySeverityHints, ApplyMetadata,
         ApplyResponseCode, Pino, Step, JsonPlaces
<1>2. Fine(Top.res) /\ F \in Fields
  BY <1>1, AtJson
<1>3. CASE PropertiesResponse
  <2>1. Onward(Top.res, IF IsInt(F.response)
                          THEN SetHTTPResponseCode(Top.res, F.response, "Failure") ELSE Top.res)
    BY <1>2, HTTPOnward, StayOnward DEF Fields
  <2>2. QED
    BY <1>3, <2>1, JsonStepTidy DEF PropertiesResponse
<1>4. CASE NoLog
  BY <1>2, <1>4, StayOnward, JsonStepTidy DEF NoLog
<1>5. CASE Envelope
  BY <1>2, <1>5, EnvelopeOnward, JsonStepTidy DEF Envelope
<1>6. CASE ApplySeverityHints
  BY <1>2, <1>6, HintsOnward, JsonStepTidy DEF ApplySeverityHints
<1>7. CASE ApplyMetadata
  BY <1>2, <1>7, MetadataOnward, JsonStepTidy DEF ApplyMetadata
<1>8. CASE ApplyResponseCode
  <2> DEFINE code == IF F.ResponseCode # Absent THEN F.ResponseCode ELSE Top.code
  <2>1. code \in Int
    BY <1>2, TopTyped DEF Fields, LInv
  <2>2. Onward(Top.res, ResponseCode(ResultStatus(Top.res, F), F, code))
    BY <1>2, <2>1, CodesOnward
  <2>3. QED
    BY <1>8, <2>2, JsonStepTidy DEF ApplyResponseCode
<1>9. CASE Pino
  BY <1>2, <1>9, PinoOnward, JsonStepTidy DEF Pino
<1>10. QED
  BY <1>3, <1>4, <1>5, <1>6, <1>7, <1>8, <1>9

\* The steps of every other line.
LEMMA TextTidy ==
  ASSUME LInv, LogFmt \/ Patterns \/ ScanForTraceparent
  PROVE  AllTidy' /\ NoLevelLost
<1>1. /\ Top.res \in Result /\ Zoned(Top.res) /\ Top.line.kind = "text"
      /\ Top.line.pairs \in Seq(Pair) /\ Top.line.entry \in EntryOutcome
  <2>1. Top.at \in TextPlaces
    BY DEF LogFmt, Patterns, ScanForTraceparent, Step, TextPlaces
  <2>2. QED
    BY <2>1, TopTyped, TopTidy, LineTyped DEF LInv, Fits
<1>2. ASSUME NEW a, NEW b, NEW r, Step(a, b, r), Zoned(r) PROVE AllTidy' /\ NoLevelLost
  BY <1>1, <1>2, StepTidy
<1>3. CASE LogFmt
  <2> DEFINE o == Outcome(Top.line.pairs)
             r == Scanned(Top.res, o)
             claimed == [r EXCEPT !.Format = "logfmt"]
  <2>1. Zoned(r) /\ Zoned(claimed)
    BY <1>1, ScannedZoned
  <2>2. IF o.claimed THEN Step("logfmt", "finish", claimed) ELSE Step("logfmt", "patterns", r)
    BY <1>3, Zenon DEF LogFmt, Scanned
  <2> HIDE DEF o, r, claimed
  <2>3. QED
    BY <1>2, <2>1, <2>2
<1>4. CASE Patterns
  <2> DEFINE e == Top.line.entry
             told == [ApplyCaptures(Top.res, e.got) EXCEPT !.Format = "pattern"]
             r == IF e.matched THEN told ELSE Top.res
  <2>1. e.matched => e.got \in Captures
    BY <1>1 DEF EntryOutcome
  <2>2. e.matched => Zoned(told)
    BY <1>1, <2>1, CapturesZoned
  <2>3. Step("patterns", "traceparent", r)
    BY <1>4, Zenon DEF Patterns
  <2> HIDE DEF e, told
  <2>4. Zoned(r)
    BY <1>1, <2>2
  <2> HIDE DEF r
  <2>5. QED
    BY <1>2, <2>3, <2>4
<1>5. CASE ScanForTraceparent
  <2> DEFINE p == ScanTraceparent(Top.line.parent)
             found == [Top.res EXCEPT !.TraceID = p.trace, !.SpanID = p.span,
                                      !.Format = "pattern"]
             r == IF p # NoIDs THEN found ELSE Top.res
  <2>1. Step("traceparent", "finish", r)
    BY <1>5, Zenon DEF ScanForTraceparent
  <2>2. Zoned(found)
    BY <1>1, ParentScanZoned
  <2> HIDE DEF p, found
  <2>3. Zoned(r)
    BY <1>1, <2>2
  <2> HIDE DEF r
  <2>4. QED
    BY <1>2, <2>1, <2>3
<1>6. QED
  BY <1>3, <1>4, <1>5

\* Where a line turns out to be JSON or not, and where the call ends.
LEMMA EndTidy ==
  ASSUME LInv, Decode \/ Finish \/ PropertiesStatusCode
  PROVE  AllTidy' /\ NoLevelLost
<1>1. Top.res \in Result /\ Zoned(Top.res) /\ (Top.line.kind = "json" => Fine(Top.res))
  BY TopTyped, TopTidy DEF LInv
<1>2. CASE Decode
  BY <1>1, <1>2, StayOnward, StepTidy DEF Decode
<1>3. CASE Finish
  <2> DEFINE q == Downgrade(Normalize(Top.res))
  <2>1. Fine(q) /\ (Top.res.Severity \in Levels => q.Severity # NoText)
    BY <1>1, FinishOnward
  <2>2. Step("finish", "done", q)
    BY <1>3 DEF Finish
  <2> HIDE DEF q
  <2>3. Top.line.kind = "json" => Onward(Top.res, q)
    BY <1>1, <2>1 DEF Onward, Fine, KnownLevels
  <2>4. Zoned(q)
    BY <2>1 DEF Fine
  <2>5. QED
    BY <2>2, <2>3, <2>4, StepTidy
<1>4. CASE PropertiesStatusCode
  <2> DEFINE fr == [Top EXCEPT !.at = "log", !.code = F.httpStatusCode]
  <2>1. Top \in FrameType
    BY TopTyped DEF LInv
  <2>2. fr.res = Top.res /\ fr.line = Top.line
    BY <2>1 DEF FrameType
  <2>3. frames' = [frames EXCEPT ![Len(frames)] = fr] /\ returned' = returned
    BY <1>4, TopTyped DEF PropertiesStatusCode, Top, LInv
  <2> HIDE DEF fr
  <2>4. Tidy(fr)
    BY <1>1, <2>2 DEF Tidy, Fine
  <2>5. Fine(returned'.res)
    BY <2>3 DEF LInv, AllTidy
  <2>6. QED
    BY <2>2, <2>3, <2>4, <2>5, TopTidied
<1>5. QED
  BY <1>2, <1>3, <1>4

\* A call starts with nothing, and its caller waits as it is.
LEMMA CallTidy ==
  ASSUME LInv, NEW a, NEW b, Call(a, b)
  PROVE  AllTidy' /\ NoLevelLost
<1> DEFINE n == Len(frames)
           mid == [frames EXCEPT ![n].at = b]
<1>1. PICK l \in LinesAt[n + 1] : frames' = Append(mid, Frame(l)) /\ returned' = returned
  BY DEF Call
<1>2. n \in Nat /\ n \in 1..n /\ frames \in Seq(FrameType) /\ Top \in FrameType
  BY TopTyped DEF LInv, IInv, TypeOK
<1>3. DOMAIN frames = 1..n /\ frames[n] = Top
  BY <1>2 DEF Top
<1>4. /\ mid \in Seq(FrameType \cup {mid[n]}) /\ Len(mid) = n
      /\ \A j \in 1..n : mid[j].res = frames[j].res /\ mid[j].line = frames[j].line
  <2>1. mid[n] = [Top EXCEPT !.at = b]
    BY <1>2, <1>3
  <2>2. mid[n].res = frames[n].res /\ mid[n].line = frames[n].line
    BY <1>2, <1>3, <2>1 DEF FrameType
  <2>3. \A j \in 1..n : j # n => mid[j] = frames[j]
    BY <1>2, <1>3
  <2>4. mid = [j \in 1..n |-> mid[j]]
    BY <1>3
  <2>5. \A j \in 1..n : mid[j] \in FrameType \cup {mid[n]}
    BY <1>2, <2>3
  <2> HIDE DEF mid
  <2>6. mid \in Seq(FrameType \cup {mid[n]}) /\ Len(mid) = n
    BY <1>2, <2>4, <2>5
  <2>7. QED
    BY <2>2, <2>3, <2>6
<1> HIDE DEF mid
<1>5. /\ DOMAIN frames' = 1..(n+1)
      /\ \A j \in 1..n : frames'[j] = mid[j]
      /\ frames'[n + 1] = Frame(l)
  BY <1>1, <1>2, <1>4
<1>6. Tidy(Frame(l))
  BY ZeroFine DEF Tidy, Frame, Fine
<1>7. ASSUME NEW j \in 1..(n+1) PROVE Tidy(frames'[j])
  <2>1. CASE j = n + 1
    BY <1>5, <1>6, <2>1
  <2>2. CASE j # n + 1
    <3>1. j \in 1..n
      BY <1>2, <2>2
    <3>2. Tidy(frames[j])
      BY <1>3, <3>1 DEF LInv, AllTidy
    <3>3. frames'[j].res = frames[j].res /\ frames'[j].line = frames[j].line
      BY <1>4, <1>5, <3>1
    <3>4. QED
      BY <3>2, <3>3 DEF Tidy
  <2>3. QED
    BY <2>1, <2>2
<1>8. AllTidy'
  BY <1>1, <1>5, <1>7 DEF LInv, AllTidy
<1>9. NoLevelLost
  BY <1>3, <1>4, <1>5 DEF NoLevelLost
<1>10. QED
  BY <1>8, <1>9

\* A finished call is lifted.
LEMMA MergeTidy ==
  ASSUME LInv, NEW a, NEW b, Merge(a, b), Top.line.kind = "json"
  PROVE  AllTidy' /\ NoLevelLost
<1> DEFINE m == MergeNested(Top.res, returned.res, returned.body)
           fr == [Top EXCEPT !.at = b, !.res = m, !.lifted = Append(@, returned)]
<1>1. Top \in FrameType /\ Fine(Top.res) /\ Fine(returned.res) /\ returned.body \in MessageField
  BY TopTyped, TopTidy DEF LInv, AllTidy, IInv, TypeOK, Handed
<1>2. Onward(Top.res, m)
  BY <1>1, MergeOnward
<1>3. frames' = [frames EXCEPT ![Len(frames)] = fr]
  BY TopTyped DEF Merge, Top, LInv
<1> HIDE DEF m
<1>4. fr.res = m /\ fr.line = Top.line
  BY <1>1 DEF FrameType
<1> HIDE DEF fr
<1>5. Tidy(fr) /\ (Top.res.Severity # NoText => fr.res.Severity # NoText)
  BY <1>2, <1>4 DEF Onward, Fine, Tidy
<1>6. Fine(returned'.res)
  BY ZeroFine DEF Merge, NoReturn
<1>7. QED
  BY <1>3, <1>5, <1>6, TopTidied

\* What a finished call hands to its caller is fine.
LEMMA ReturnTidy ==
  ASSUME LInv, Return
  PROVE  AllTidy' /\ NoLevelLost
<1> DEFINE n == Len(frames)
<1>1. /\ n \in Nat /\ n > 1 /\ frames \in Seq(FrameType)
      /\ frames' = SubSeq(frames, 1, n - 1)
  BY TopTyped DEF Return, LInv, IInv, TypeOK
<1>2. /\ DOMAIN frames' = 1..(n-1) /\ DOMAIN frames = 1..n
      /\ \A j \in 1..(n-1) : j \in 1..n /\ frames'[j] = frames[j]
  BY <1>1
<1>3. returned'.res = Top.res
  BY DEF Return
<1>4. Agrees(Top.res) /\ Zoned(Top.res) /\ Top.res \in Result
  BY TopTyped, TopTidy DEF LInv, Return
<1>5. Fine(returned'.res)
  BY <1>3, <1>4 DEF Fine, Agrees, KnownLevels
<1>6. AllTidy'
  BY <1>2, <1>5 DEF LInv, AllTidy
<1>7. NoLevelLost
  BY <1>2 DEF NoLevelLost
<1>8. QED
  BY <1>6, <1>7

\* Every step keeps every call tidy, and takes no record's level away.
LEMMA TidyStep == LInv /\ [Next]_vars => AllTidy' /\ NoLevelLost
<1>1. ASSUME LInv, Top.at \in JsonPlaces PROVE Top.line.kind = "json"
  BY <1>1, TopTyped DEF LInv, Fits
<1>2. ASSUME LInv, CallPropertiesLog \/ CallLog PROVE AllTidy' /\ NoLevelLost
  BY <1>2, CallTidy DEF CallPropertiesLog, CallLog
<1>3. ASSUME LInv, MergeProperties \/ MergeLog PROVE AllTidy' /\ NoLevelLost
  BY <1>1, <1>3, MergeTidy DEF MergeProperties, MergeLog, Merge, JsonPlaces
<1>4. ASSUME LInv, UNCHANGED vars PROVE AllTidy' /\ NoLevelLost
  BY <1>4 DEF vars, LInv, AllTidy, NoLevelLost
<1>5. QED
  BY <1>2, <1>3, <1>4, ParagraphsTidy, TextTidy, EndTidy, ReturnTidy DEF Next

\* The outermost call starts tidy.
LEMMA StartsTidy == Init => LInv
<1> SUFFICES ASSUME Init PROVE LInv
  OBVIOUS
<1>1. PICK l \in LinesAt[1] : frames = <<Frame(l)>>
  BY DEF Init
<1>2. Tidy(Frame(l))
  BY ZeroFine DEF Tidy, Frame, Fine
<1>3. AllTidy
  BY <1>1, <1>2, ZeroFine DEF Init, AllTidy, NoReturn
<1>4. QED
  BY <1>3, Starts DEF LInv

\* The second invariant of the calls, for every set of lines and every depth.
THEOREM AlwaysLInv == Spec => []LInv
<1>1. LInv /\ [Next]_vars => LInv'
  BY Inductive, TidyStep DEF LInv
<1>2. QED
  BY <1>1, StartsTidy, PTL DEF Spec

\* TimeHasZone is the answer of the very timestamp in Time, at every step and
\* however deeply the line that supplied it was embedded.
THEOREM ZoneOfItsTime == Spec => []ZoneTravelsWithTime
<1>1. LInv => ZoneTravelsWithTime
  BY DEF LInv, AllTidy, Tidy, Zoned, ZoneTravelsWithTime
<1>2. QED
  BY <1>1, AlwaysLInv, PTL

\* No step of a JSON line takes its level away, whatever codes, numbers and
\* spellings come later, at any depth.
THEOREM LevelStays == Spec => LevelNeverUnset
<1>1. LInv /\ [Next]_vars => [NoLevelLost]_vars
  BY TidyStep
<1>2. QED
  BY <1>1, AlwaysLInv, PTL DEF Spec, LevelNeverUnset, NoLevelLost

-----------------------------------------------------------------------------
(* The history of a record *)

\* r and q agree on the fields S.
Same(r, q, S) == \A x \in S : q[x] = r[x]

\* The fields no grader writes.
Ungraded ==
  {"Format", "Message", "TraceID", "SpanID", "Template", "Service", "SourceContext",
   "ExceptionType", "ExceptionMessage", "ExceptionStackTrace"}

\* What a record says, seen from outside.
Said == LiftedFields \cup {"Message"}

\* What a function that writes status codes and levels does to a Result, and
\* what one does that leaves a graded level other than info alone.
Restated(r, q) ==
  /\ q \in Result
  /\ Same(r, q, Ungraded)
  /\ Visible(r) => Visible(q)
  /\ r.Severity # NoText => q.Severity # NoText

Regraded(r, q) ==
  /\ Restated(r, q)
  /\ r.Severity \notin {NoText, "info"} => q.Severity = r.Severity

-----------------------------------------------------------------------------
(* Functions that write levels *)

\* One after another.
LEMMA RestatedTwice ==
  ASSUME NEW r, NEW q, NEW p, Restated(r, q), Restated(q, p)
  PROVE  Restated(r, p)
BY DEF Restated, Same

\* Two of the second kind, one after another.
LEMMA RegradedTwice ==
  ASSUME NEW r, NEW q, NEW p, Regraded(r, q), Regraded(q, p)
  PROVE  Regraded(r, p)
BY RestatedTwice DEF Regraded

\* Doing nothing is of both kinds.
LEMMA StayRegraded ==
  ASSUME NEW r \in Result
  PROVE  Regraded(r, r)
BY DEF Regraded, Restated, Same

\* A level written where there was none, or info, or that very level.
LEMMA LevelRegraded ==
  ASSUME NEW r \in Result, NEW q \in Result,
         Same(r, q, Ungraded), q.HTTPStatusCode = r.HTTPStatusCode,
         q.Severity # NoText,
         r.Severity \in {NoText, "info"} \/ q.Severity = r.Severity
  PROVE  Regraded(r, q)
BY DEF Regraded, Restated, Visible

\* The two ways a level is written.
LEMMA WritesLevel ==
  ASSUME NEW r \in Result, NEW s \in Levels,
         r.Severity \in {NoText, "info"} \/ s = r.Severity
  PROVE  /\ Regraded(r, [r EXCEPT !.Severity = s])
         /\ \A no \in 0..24 : Regraded(r, SetSeverity(r, Graded(s, no)))
<1>1. s # NoText /\ s \in SeverityTexts
  BY NoTextIsNoLevel DEF SeverityTexts
<1>2. Regraded(r, [r EXCEPT !.Severity = s])
  <2> DEFINE q == [r EXCEPT !.Severity = s]
  <2>1. q \in Result
    BY <1>1, LevelTyped
  <2>2. Same(r, q, Ungraded) /\ q.HTTPStatusCode = r.HTTPStatusCode /\ q.Severity = s
    BY DEF Result, Same, Ungraded
  <2> HIDE DEF q
  <2>3. Regraded(r, q)
    BY <1>1, <2>1, <2>2, LevelRegraded
  <2>4. QED
    BY <2>3 DEF q
<1>3. ASSUME NEW no \in 0..24 PROVE Regraded(r, SetSeverity(r, Graded(s, no)))
  <2> DEFINE q == SetSeverity(r, Graded(s, no))
  <2>1. q \in Result
    BY <1>3, SetSeverityTyped DEF Graded
  <2>2. Same(r, q, Ungraded) /\ q.HTTPStatusCode = r.HTTPStatusCode /\ q.Severity = s
    BY DEF Result, Same, Ungraded, SetSeverity, Graded
  <2> HIDE DEF q
  <2>3. Regraded(r, q)
    BY <1>1, <2>1, <2>2, LevelRegraded
  <2>4. QED
    BY <2>3 DEF q
<1>4. QED
  BY <1>2, <1>3

\* A status code never hides one that is visible, and an observed one leaves a
\* graded level alone.
LEMMA CodeRegraded ==
  ASSUME NEW r \in Result, NEW code \in Int, NEW kind
  PROVE  LET q == SetHTTPResponseCode(r, code, kind)
         IN  /\ Restated(r, q)
             /\ kind = "Observed" => Regraded(r, q)
             /\ code \notin 0..599 => q = r
<1> DEFINE q == SetHTTPResponseCode(r, code, kind)
           s == HTTPStatusSeverity(code, kind)
<1>1. q \in Result
  BY HTTPTyped
<1>2. CASE code \notin 0..599
  <2>1. q = r
    BY <1>2 DEF SetHTTPResponseCode, IsStatus
  <2>2. QED
    BY <1>2, <2>1, StayRegraded DEF Regraded
<1>3. CASE code \in 0..599
  <2>1. /\ Same(r, q, Ungraded)
        /\ q.HTTPStatusCode = IF code >= 100 THEN code ELSE r.HTTPStatusCode
        /\ q.Severity = IF Grades(r.Severity, kind) THEN s ELSE r.Severity
    <3>1. IsStatus(code) /\ (Recorded(code) <=> code >= 100)
      BY <1>3 DEF IsStatus, Recorded
    <3>2. q = [r EXCEPT
            !.HTTPStatusCode = IF Recorded(code) THEN code ELSE r.HTTPStatusCode,
            !.Severity = IF Grades(r.Severity, kind) THEN s ELSE r.Severity]
      BY <3>1, CodeSet, Zenon
    <3> HIDE DEF q, s
    <3>3. QED
      BY <3>1, <3>2 DEF Result, Same, Ungraded
  <2>2. s \in Levels /\ s # NoText
    BY <1>3, StatusGrade, NoTextIsNoLevel
  <2>3. s = "info" => code \in 100..399
    BY <1>3 DEF HTTPStatusSeverity
  <2> HIDE DEF q, s
  <2>4. Visible(r) => Visible(q)
    <3>1. r.HTTPStatusCode \in Int
      BY DEF Result, StatusCodes
    <3>2. QED
      BY <1>3, <2>1, <2>2, <2>3, <3>1 DEF Visible, Grades
  <2>5. Restated(r, q)
    BY <1>1, <2>1, <2>2, <2>4 DEF Restated
  <2>6. kind = "Observed" => Regraded(r, q)
    BY <2>1, <2>5 DEF Regraded, Grades
  <2>7. QED
    BY <1>3, <2>1, <2>5, <2>6 DEF q
<1>4. QED
  BY <1>2, <1>3

-----------------------------------------------------------------------------
(* The history invariant: what each call in progress can tell of itself *)

\* A Result that is nothing but a message, a logger and a span.
Unread(r) == Same(ZeroResult, r, DOMAIN ZeroResult \ {"Message", "SourceContext", "SpanID"})

\* And they are those the logfmt scan read.
Leftover(r, o) ==
  /\ Unread(r)
  /\ r.Message = o.msg /\ r.SourceContext = o.logger /\ r.SpanID = o.span

\* An exception has a level.
Alarmed(r) == HasException(r) => r.Severity # NoText

\* What a finished call hands to its caller.
Delivered(h) ==
  /\ Agrees(h.res) /\ Zoned(h.res)
  /\ ~ Benign(h.res)
  /\ Alarmed(h.res)
  /\ BenignMessage(h.body) => h.res.Severity = NoText

Lifts(fr) == \A k \in DOMAIN fr.lifted : Delivered(fr.lifted[k])

\* Where a JSON record is before its own levels are looked at, and after.
Unhinted == {"decode", "properties", "mergeProperties", "log", "mergeLog", "envelope", "hints"}
Hinted   == {"metadata", "codes", "pino", "finish"}

\* What there is before the first embedded line.
Begun(fr) ==
  /\ fr.at \in {"decode", "properties", "mergeProperties", "logfmt"} =>
       fr.res = ZeroResult /\ fr.lifted = <<>> /\ fr.code = Absent
  /\ fr.line.kind = "text" => fr.lifted = <<>>
  /\ fr.line.kind = "json" => fr.code \in {Absent, fr.line.f.httpStatusCode}
  /\ fr.at = "mergeProperties" => fr.line.f.propertiesLog
  /\ fr.at = "mergeLog" => fr.line.f.log
  /\ fr.at \in {"log", "mergeLog"} =>
       /\ fr.lifted = <<>> \/ fr.line.f.propertiesLog
       /\ fr.lifted = <<>> /\ fr.line.f.response = Absent => fr.res = ZeroResult

\* A line that is nothing but a benign message.
Bare(fr) ==
  (fr.line.kind = "text" /\ BenignMessage(fr.line.body)) =>
    ~ HasEquals(fr.line.pairs) /\ ~ fr.line.entry.matched

\* The identifiers of a record: carried, until its own are looked at.
InOrder(fr) ==
  LET f == fr.line.f
      p == ParseTraceparent(f.Traceparent)
  IN  /\ fr.res.TraceID =
           CASE ValidTraceID(f.TraceID) -> f.TraceID.id
             [] ~ ValidTraceID(f.TraceID) /\ p # NoIDs -> p.trace
             [] OTHER -> Carried(fr, "TraceID")
      /\ fr.res.SpanID =
           CASE ValidSpanID(f.SpanID) -> f.SpanID.id
             [] ~ ValidSpanID(f.SpanID) /\ p # NoIDs -> p.span
             [] OTHER -> Carried(fr, "SpanID")

Identified(fr) ==
  /\ fr.at \in Unhinted \cup {"metadata"} =>
       fr.res.TraceID = Carried(fr, "TraceID") /\ fr.res.SpanID = Carried(fr, "SpanID")
  /\ fr.at \in {"codes", "pino", "finish", "done"} => InOrder(fr)

\* The level of the last embedded line that has one.
LastLevel(fr) ==
  IF LiftedLevels(fr) # {} THEN fr.lifted[Max(LiftedLevels(fr))].res.Severity ELSE NoText

\* SettledLevelIsKept of one call.
Kept(fr) ==
  SettledLevel(fr) \notin {NoText, "info"} =>
    \/ fr.res.Severity = SettledLevel(fr)
    \/ /\ SettledLevel(fr) = "error"
       /\ BenignError(fr.res.SourceContext, fr.res.Message)
       /\ fr.res.Severity = "warn" /\ fr.res.SeverityNumber = Warn4LevelNo

Settled(fr) ==
  ~ FailureReported(fr.line.f) =>
    /\ fr.at \in Unhinted => fr.res.Severity = LastLevel(fr)
    /\ fr.at \in Hinted =>
         (SettledLevel(fr) \notin {NoText, "info"} => fr.res.Severity = SettledLevel(fr))
    /\ fr.at = "done" => Kept(fr)

\* A failed status code shows.
Shown(fr) ==
  (/\ fr.line.kind = "json" => OneSubject(fr.line.f)
   /\ \A k \in DOMAIN fr.lifted : Visible(fr.lifted[k].res)) => Visible(fr.res)

\* A text line: what the unclaimed scan leaves, and what the table makes of it.
Plain(fr) ==
  /\ fr.at = "patterns" => Leftover(fr.res, Outcome(fr.line.pairs))
  /\ fr.at \in {"traceparent", "finish", "done"} /\ fr.res.Format = "" =>
       Leftover(fr.res, Outcome(fr.line.pairs))
  /\ fr.at \in {"traceparent", "finish"} =>
       /\ fr.res.HTTPStatusCode >= 400 => fr.res.Severity \in Levels \ {"info"}
       /\ HasException(fr.res) => SeverityFromText(fr.res.Severity).text # NoText
       /\ BenignMessage(fr.line.body) => fr.res.Severity = NoText

\* The message of a record: the words of its embedded lines, until its own are
\* looked at.
InWords(fr) ==
  fr.res.Message = IF fr.line.f.Message # NoText THEN fr.line.f.Message ELSE LiftedWords(fr)

Worded(fr) ==
  /\ fr.at \in Unhinted \cup {"metadata"} => fr.res.Message = LiftedWords(fr)
  /\ fr.at \in {"codes", "pino", "finish", "done"} => InWords(fr)

\* The message of a record that has none of its own and lifts one line.
LiftedMessage(h) ==
  IF h.res.Message # NoText THEN h.res.Message
  ELSE IF h.res.Format # "json" THEN h.body ELSE NoText

\* A silent record repeats what it lifted.
Echoed(fr) ==
  (Silent(fr.line.f) /\ Len(fr.lifted) = 1) =>
    /\ Same(fr.lifted[1].res, fr.res, LiftedFields)
    /\ fr.at # "done" => fr.res.Message = LiftedMessage(fr.lifted[1])

\* A finished call.
Ended(fr) ==
  fr.at = "done" =>
    /\ ~ Benign(fr.res)
    /\ Alarmed(fr.res)
    /\ fr.line.kind = "text" /\ BenignMessage(fr.line.body) => fr.res.Severity = NoText
    /\ fr.line.kind = "json" => fr.res.Format = "json"

\* What a JSON record can tell.
Accounted(fr) ==
  /\ Identified(fr) /\ Settled(fr) /\ Worded(fr) /\ Echoed(fr)
  /\ fr.at = "finish" => fr.res.Format = "json"
  /\ fr.at \in {"codes", "pino", "finish"} => Alarmed(fr.res)

Told(fr) ==
  /\ Lifts(fr) /\ Begun(fr) /\ Bare(fr) /\ Shown(fr) /\ Ended(fr)
  /\ fr.line.kind = "json" => Accounted(fr)
  /\ fr.line.kind = "text" => Plain(fr)

AllTold == (\A i \in DOMAIN frames : Told(frames[i])) /\ Delivered(returned)

HInv == LInv /\ AllTold

-----------------------------------------------------------------------------
(* Levels, read back *)

\* Each of the 24 numbers is one of a level.
LEMMA NumbersName ==
  ASSUME NEW n \in 0..24, SeverityFromNumber(n) = NoText
  PROVE  n = 0
<1>1. n \in 1..24 => SeverityFromNumber(n) \in Levels
  BY DEF SeverityFromNumber, Levels
<1>2. QED
  BY <1>1, NoTextIsNoLevel

\* A Result with none of the fields a benign pair is made of is not benign.
LEMMA BenignTexts ==
  /\ \A logger, msg : BenignError(logger, msg) => BenignMessage(msg)
  /\ ~ BenignMessage(NoText)
<1>1. ASSUME NEW logger, NEW msg, BenignError(logger, msg) PROVE BenignMessage(msg)
  <2>1. <<logger, msg>> \in BenignPairs /\ <<logger, msg>>[2] = msg
    BY <1>1 DEF BenignError
  <2>2. QED
    BY <2>1 DEF BenignMessage
<1>2. ~ BenignMessage(NoText)
  BY DEF BenignMessage, BenignPairs, NoText
<1>3. QED
  BY <1>1, <1>2

\* The greatest index of a set of positions.
LEMMA MaxIsGreatest ==
  ASSUME NEW n \in Nat, NEW S, S \subseteq 1..n, S # {}
  PROVE  Max(S) \in S /\ \A y \in S : y <= Max(S)
<1> DEFINE T == {n - x : x \in S}
<1>1. T \in SUBSET Nat /\ T # {}
  <2>1. \A x \in S : n - x \in Nat
    OBVIOUS
  <2>2. QED
    BY <2>1
<1>2. Min(T) \in T /\ \A y \in T : Min(T) <= y
  BY <1>1, MinIsLeast
<1>3. PICK x \in S : Min(T) = n - x
  BY <1>2
<1>4. ASSUME NEW y \in S PROVE x >= y
  <2>1. n - y \in T /\ y \in 1..n /\ x \in 1..n
    OBVIOUS
  <2>2. n - x <= n - y
    BY <1>2, <1>3, <2>1
  <2>3. QED
    BY <2>1, <2>2
<1>5. QED
  BY <1>4 DEF Max

\* A new last position is the greatest.
LEMMA LastIsGreatest ==
  ASSUME NEW n \in Nat, NEW S, S \subseteq 1..n
  PROVE  Max(S \cup {n + 1}) = n + 1
<1> DEFINE T == S \cup {n + 1}
<1>1. n + 1 \in Nat /\ T \subseteq 1..(n + 1) /\ T # {} /\ n + 1 \in T
  OBVIOUS
<1> HIDE DEF T
<1>2. Max(T) \in T /\ n + 1 <= Max(T)
  BY <1>1, MaxIsGreatest
<1>3. Max(T) \in 1..(n + 1)
  BY <1>1, <1>2
<1>4. QED
  BY <1>2, <1>3 DEF T

-----------------------------------------------------------------------------
(* The paragraphs of applyJSON *)

\* A timestamp is none of the fields a grader looks at.
LEMMA TimeRegraded ==
  ASSUME NEW r \in Result, NEW t \in Stamps, NEW z \in BOOLEAN
  PROVE  LET q == SetTime(r, t, z)
         IN  Regraded(r, q) /\ q.Severity = r.Severity
<1> DEFINE q == SetTime(r, t, z)
<1>1. q \in Result
  BY SetTimeTyped
<1>2. /\ Same(r, q, Ungraded) /\ q.HTTPStatusCode = r.HTTPStatusCode
      /\ q.Severity = r.Severity
  BY DEF Result, Same, Ungraded, SetTime
<1> HIDE DEF q
<1>3. Regraded(r, q)
  BY <1>1, <1>2 DEF Regraded, Restated, Visible
<1>4. QED
  BY <1>2, <1>3 DEF q

\* The envelope: its failure status may replace the level, nothing else does.
LEMMA EnvelopeTells ==
  ASSUME NEW r \in Result, NEW f \in Fields
  PROVE  LET q == EnvelopeTime(EnvelopeStatus(r, f), f)
         IN  /\ Restated(r, q)
             /\ f.responseStatus \notin 0..599 => q.Severity = r.Severity
             /\ Silent(f) => q = r
<1> DEFINE e == EnvelopeStatus(r, f)
           q == EnvelopeTime(e, f)
<1>1. /\ f.responseStatus \in Int
      /\ f.Time \in Stamps /\ f.MongoTime \in Stamps
  BY DEF Fields, Stamps
<1>2. Restated(r, e) /\ (f.responseStatus \notin 0..599 => e = r)
  BY <1>1, CodeRegraded, StayRegraded DEF EnvelopeStatus, Regraded
<1>3. e \in Result
  BY <1>2 DEF Restated
<1> HIDE DEF e
<1>4. Restated(e, q) /\ q.Severity = e.Severity
  BY <1>1, <1>3, TimeRegraded, StayRegraded DEF EnvelopeTime, Regraded
<1>5. Silent(f) => q = e
  BY DEF EnvelopeTime, Silent
<1>6. Silent(f) => f.responseStatus \notin 0..599
  BY DEF Silent, Absent
<1> HIDE DEF q
<1>7. Restated(r, q)
  BY <1>2, <1>4, RestatedTwice
<1>8. QED
  BY <1>2, <1>4, <1>5, <1>6, <1>7 DEF e, q

\* The level the record states in text, where there is none yet.
LEMMA LevelHintTells ==
  ASSUME NEW r \in Result, NEW f \in Fields
  PROVE  LET q == LevelHint(r, f)
         IN  /\ Regraded(r, q)
             /\ r.Severity = NoText => q.Severity = SeverityFromText(f.Severity).text
<1> DEFINE s == SeverityFromText(f.Severity)
           q == LevelHint(r, f)
<1>1. s.text \in Levels \cup {NoText} /\ s.no \in 0..24 /\ s = Graded(s.text, s.no)
  BY SeverityRoundTrip DEF Graded
<1> HIDE DEF s
<1>2. q = IF r.Severity = NoText /\ s.text # NoText THEN SetSeverity(r, s) ELSE r
  BY Zenon DEF LevelHint, s
<1>3. CASE r.Severity = NoText /\ s.text # NoText
  <2>1. Regraded(r, SetSeverity(r, Graded(s.text, s.no)))
    BY <1>1, <1>3, WritesLevel
  <2>2. SetSeverity(r, s).Severity = s.text
    BY DEF SetSeverity, Result
  <2>3. QED
    BY <1>1, <1>2, <1>3, <2>1, <2>2 DEF s
<1>4. CASE ~ (r.Severity = NoText /\ s.text # NoText)
  BY <1>2, <1>4, StayRegraded DEF s
<1>5. QED
  BY <1>3, <1>4

\* The other hints leave a level other than info alone.
LEMMA OtherHintsTell ==
  ASSUME NEW r \in Result, NEW f \in Fields
  PROVE  Regraded(r, MongoHint(r, f)) /\ Regraded(r, OTLPHint(r, f)) /\ Regraded(r, GrpcHint(r, f))
<1>1. Regraded(r, MongoHint(r, f))
  <2> DEFINE s == SeverityFromText(f.MongoSeverity)
  <2>1. s.text \in Levels \cup {NoText} /\ s.no \in 0..24 /\ s = Graded(s.text, s.no)
    BY SeverityRoundTrip DEF Graded
  <2> HIDE DEF s
  <2>2. r.Severity = NoText /\ s.text # NoText => Regraded(r, SetSeverity(r, Graded(s.text, s.no)))
    BY <2>1, WritesLevel
  <2>3. MongoHint(r, f) = IF r.Severity = NoText /\ f.MongoTime # NoTime /\ s.text # NoText
                            THEN SetSeverity(r, s) ELSE r
    BY Zenon DEF MongoHint, s
  <2>4. QED
    BY <2>1, <2>2, <2>3, StayRegraded
<1>2. Regraded(r, OTLPHint(r, f))
  <2> DEFINE n == f.SeverityNumber
             text == SeverityFromNumber(n)
  <2>1. n \in 1..24 => text \in Levels /\ n \in 0..24
    BY DEF SeverityFromNumber, Levels
  <2>2. OTLPHint(r, f) = IF n \in 1..24
                           THEN IF text = r.Severity \/ r.Severity = NoText
                                  THEN SetSeverity(r, Graded(text, n)) ELSE r
                           ELSE r
    BY Zenon DEF OTLPHint
  <2> HIDE DEF text, n
  <2>3. n \in 1..24 /\ (text = r.Severity \/ r.Severity = NoText) =>
          Regraded(r, SetSeverity(r, Graded(text, n)))
    BY <2>1, WritesLevel
  <2>4. QED
    BY <2>2, <2>3, StayRegraded
<1>3. Regraded(r, GrpcHint(r, f))
  <2>1. "info" \in Levels /\ "warn" \in Levels
    BY DEF Levels
  <2>2. r.Severity \in {NoText, "info"} =>
          /\ Regraded(r, [r EXCEPT !.Severity = "info"])
          /\ Regraded(r, [r EXCEPT !.Severity = "warn"])
    BY <2>1, WritesLevel
  <2>3. QED
    BY <2>2, StayRegraded DEF GrpcHint
<1>4. QED
  BY <1>1, <1>2, <1>3

\* applySeverityHints.
LEMMA HintsTell ==
  ASSUME NEW r \in Result, NEW f \in Fields
  PROVE  LET q == GrpcHint(OTLPHint(MongoHint(LevelHint(r, f), f), f), f)
             s == SeverityFromText(f.Severity).text
         IN  /\ Regraded(r, q)
             /\ r.Severity = NoText /\ s \notin {NoText, "info"} => q.Severity = s
             /\ Silent(f) => q = r
<1> DEFINE q1 == LevelHint(r, f)
           q2 == MongoHint(q1, f)
           q3 == OTLPHint(q2, f)
           q4 == GrpcHint(q3, f)
           s  == SeverityFromText(f.Severity).text
<1>1. Regraded(r, q1) /\ (r.Severity = NoText => q1.Severity = s)
  BY LevelHintTells
<1>2. Silent(f) => q1 = r /\ q2 = q1 /\ q3 = q2 /\ q4 = q3
  BY DEF Silent, LevelHint, MongoHint, OTLPHint, GrpcHint, NoSeverity, Absent
<1>3. q1 \in Result
  BY <1>1 DEF Regraded, Restated
<1>4. Regraded(q1, q2)
  BY <1>3, OtherHintsTell
<1>5. q2 \in Result
  BY <1>4 DEF Regraded, Restated
<1>6. Regraded(q2, q3)
  BY <1>5, OtherHintsTell
<1>7. q3 \in Result
  BY <1>6 DEF Regraded, Restated
<1>8. Regraded(q3, q4)
  BY <1>7, OtherHintsTell
<1>9. QED
  <2> HIDE DEF q1, q2, q3, q4
  <2>1. Regraded(q1, q3)
    BY <1>4, <1>6, RegradedTwice
  <2>2. Regraded(q1, q4)
    BY <1>8, <2>1, RegradedTwice
  <2>3. Regraded(r, q4)
    BY <1>1, <2>2, RegradedTwice
  <2>4. r.Severity = NoText /\ s \notin {NoText, "info"} => q4.Severity = s
    BY <1>1, <2>2 DEF Regraded
  <2>5. QED
    BY <1>2, <2>3, <2>4 DEF q1, q2, q3, q4

\* applyResponseCode.
LEMMA CodesTell ==
  ASSUME NEW r \in Result, NEW f \in Fields, NEW code \in Int
  PROVE  LET q == ResponseCode(ResultStatus(r, f), f, code)
         IN  /\ Regraded(r, q)
             /\ Silent(f) /\ code = Absent => q = r
<1> DEFINE e == ResultStatus(r, f)
           q == ResponseCode(e, f, code)
<1>1. Regraded(r, e)
  BY CodeRegraded, StayRegraded DEF ResultStatus, Fields
<1>2. e \in Result
  BY <1>1 DEF Regraded, Restated
<1>3. Silent(f) => e = r
  BY DEF ResultStatus, Silent, IsInt, Absent
<1> HIDE DEF e
<1>4. ASSUME NEW s \in {"info", "warn"} PROVE Regraded(e, Defers(e, s))
  <2>1. s \in Levels
    BY <1>4 DEF Levels
  <2>2. CASE e.Severity \in {NoText, "info"}
    <3>1. Defers(e, s) = [e EXCEPT !.Severity = s]
      BY <1>2, <2>2 DEF Defers, Result
    <3>2. QED
      BY <1>2, <2>1, <2>2, <3>1, WritesLevel
  <2>3. CASE e.Severity \notin {NoText, "info"}
    <3>1. Defers(e, s) = e
      BY <1>2, <2>3 DEF Defers, Result
    <3>2. QED
      BY <1>2, <3>1, StayRegraded
  <2>4. QED
    BY <2>2, <2>3
<1>5. Regraded(e, SetHTTPResponseCode(e, code, "Observed"))
  BY <1>2, CodeRegraded
<1>6. Regraded(e, q)
  BY <1>2, <1>4, <1>5, StayRegraded DEF ResponseCode
<1>7. code = Absent => q = e
  BY DEF ResponseCode, IsInt, Absent
<1> HIDE DEF q
<1>8. Regraded(r, q)
  BY <1>1, <1>6, RegradedTwice
<1>9. QED
  BY <1>3, <1>7, <1>8 DEF q, e

\* A traceparent supplies two identifiers or none.
LEMMA ParentIDs ==
  ASSUME NEW v \in Traceparent
  PROVE  LET p == ParseTraceparent(v)
         IN  /\ p.trace = NoText <=> p = NoIDs
             /\ p.span = NoText <=> p = NoIDs
<1>1. /\ v.trace \in TraceText /\ v.span \in SpanText
      /\ v.trace.id # NoText /\ v.span.id # NoText
  BY IDsTyped DEF Traceparent, NoID, NoText
<1>2. QED
  BY <1>1 DEF ParseTraceparent, NoIDs, NoID, NoText

\* Identify writes the identifiers in their order, and nothing else.
LEMMA IdentifyTells ==
  ASSUME NEW r \in Result, NEW f \in Fields
  PROVE  LET q == Identify(r, f)
             p == ParseTraceparent(f.Traceparent)
         IN  /\ q \in Result
             /\ Same(r, q, DOMAIN r \ {"TraceID", "SpanID"})
             /\ q.TraceID = CASE ValidTraceID(f.TraceID) -> f.TraceID.id
                              [] ~ ValidTraceID(f.TraceID) /\ p # NoIDs -> p.trace
                              [] OTHER -> r.TraceID
             /\ q.SpanID = CASE ValidSpanID(f.SpanID) -> f.SpanID.id
                             [] ~ ValidSpanID(f.SpanID) /\ p # NoIDs -> p.span
                             [] OTHER -> r.SpanID
<1> DEFINE p == ParseTraceparent(f.Traceparent)
           trace == IF ValidTraceID(f.TraceID) THEN f.TraceID.id ELSE SetIfSet(r.TraceID, p.trace)
           span  == IF ValidSpanID(f.SpanID) THEN f.SpanID.id ELSE SetIfSet(r.SpanID, p.span)
           q == Identify(r, f)
<1>1. /\ f.Traceparent \in Traceparent
      /\ f.TraceID.id \in TraceIDField /\ f.SpanID.id \in SpanIDField
  BY DEF Fields, TraceIDField, SpanIDField, TraceText, SpanText, IDText
<1>2. (p.trace = NoText <=> p = NoIDs) /\ (p.span = NoText <=> p = NoIDs)
  BY <1>1, ParentIDs
<1>3. p.trace \in TraceIDField /\ p.span \in SpanIDField
  BY <1>1, IdentifiersTyped
<1> HIDE DEF p
<1>4. trace \in TraceIDField /\ span \in SpanIDField
  BY <1>1, <1>3 DEF SetIfSet, Result
<1>5. /\ trace = CASE ValidTraceID(f.TraceID) -> f.TraceID.id
                   [] ~ ValidTraceID(f.TraceID) /\ p # NoIDs -> p.trace
                   [] OTHER -> r.TraceID
      /\ span = CASE ValidSpanID(f.SpanID) -> f.SpanID.id
                  [] ~ ValidSpanID(f.SpanID) /\ p # NoIDs -> p.span
                  [] OTHER -> r.SpanID
  BY <1>2 DEF SetIfSet
<1>6. q = [r EXCEPT !.TraceID = trace, !.SpanID = span]
  BY Zenon DEF Identify, Undashed, p
<1> HIDE DEF trace, span
<1>7. /\ q \in Result /\ q.TraceID = trace /\ q.SpanID = span
      /\ Same(r, q, DOMAIN r \ {"TraceID", "SpanID"})
  BY <1>4, <1>6 DEF Result, Same
<1> HIDE DEF q
<1>8. QED
  BY <1>5, <1>7, Zenon DEF p, q

\* The texts applyMetadata copies.
Descriptive == {"Message", "SourceContext", "Template", "ResourceID", "ResourceGroupID",
                "EventCategory", "Service"}

\* Describe only replaces texts by texts, and the message by the record's own,
\* if it has one.
LEMMA DescribeTells ==
  ASSUME NEW r \in Result, NEW f \in Fields
  PROVE  LET q == Describe(r, f)
         IN  /\ DOMAIN q = DOMAIN r
             /\ Same(r, q, DOMAIN r \ Descriptive)
             /\ q.Message = IF f.Message # NoText THEN f.Message ELSE r.Message
             /\ Silent(f) => Same(r, q, DOMAIN r \ {"ResourceID", "ResourceGroupID",
                                                    "EventCategory"})
<1> DEFINE q == Describe(r, f)
<1>1. /\ DOMAIN q = DOMAIN r
      /\ Same(r, q, DOMAIN r \ Descriptive)
      /\ q.Message = SetIfSet(r.Message, f.Message)
      /\ q.SourceContext = SetIfSet(r.SourceContext, f.SourceContext)
      /\ q.Template = SetIfSet(r.Template, f.Template)
      /\ q.Service = SetIfSet(r.Service, lower(f.Service))
  BY DEF Describe, Result, Same, Descriptive
<1> HIDE DEF q
<1>2. Silent(f) => /\ f.Message = NoText /\ f.SourceContext = NoText
                   /\ f.Template = NoText /\ f.Service = NoText
  BY DEF Silent
<1>3. Silent(f) => /\ q.Message = r.Message /\ q.SourceContext = r.SourceContext
                   /\ q.Template = r.Template /\ q.Service = r.Service
  BY <1>1, <1>2, RecordsAssumption DEF SetIfSet
<1>4. Silent(f) => Same(r, q, DOMAIN r \ {"ResourceID", "ResourceGroupID", "EventCategory"})
  BY <1>1, <1>3 DEF Same, Descriptive
<1>5. q.Message = IF f.Message # NoText THEN f.Message ELSE r.Message
  BY <1>1 DEF SetIfSet
<1>6. QED
  BY <1>1, <1>4, <1>5 DEF q

\* The fields of an exception.
ExceptionFields == {"ExceptionType", "ExceptionMessage", "ExceptionStackTrace"}

\* Except writes only the exception, and not even that for a silent record.
LEMMA ExceptTells ==
  ASSUME NEW r, DOMAIN r = DOMAIN ZeroResult, NEW f \in Fields
  PROVE  LET q == Except(r, f)
         IN  /\ DOMAIN q = DOMAIN r
             /\ Same(r, q, DOMAIN r \ ExceptionFields)
             /\ Silent(f) => Same(r, q, DOMAIN r)
<1> DEFINE q == Except(r, f)
           e == IF f.exception.present THEN ParseException(r, f.exception) ELSE r
<1>1. /\ DOMAIN e = DOMAIN r
      /\ Same(r, e, DOMAIN r \ ExceptionFields)
      /\ Silent(f) => e = r
  BY DEF ParseException, ZeroResult, Same, ExceptionFields, Silent
<1>2. q = [e EXCEPT !.ExceptionType = SetIfSet(@, f.ErrorType),
                    !.ExceptionMessage = SetIfSet(@, f.ErrorMessage),
                    !.ExceptionStackTrace = SetIfSet(@, f.ErrorStack)]
  BY Zenon DEF Except
<1> HIDE DEF e, q
<1>3. /\ DOMAIN q = DOMAIN r
      /\ Same(e, q, DOMAIN r \ ExceptionFields)
      /\ q.ExceptionType = SetIfSet(e.ExceptionType, f.ErrorType)
      /\ q.ExceptionMessage = SetIfSet(e.ExceptionMessage, f.ErrorMessage)
      /\ q.ExceptionStackTrace = SetIfSet(e.ExceptionStackTrace, f.ErrorStack)
  BY <1>1, <1>2 DEF ZeroResult, Same, ExceptionFields
<1>4. Silent(f) => f.ErrorType = NoText /\ f.ErrorMessage = NoText /\ f.ErrorStack = NoText
  BY DEF Silent
<1>5. Silent(f) => Same(r, q, DOMAIN r)
  BY <1>1, <1>3, <1>4 DEF Same, SetIfSet, ExceptionFields
<1>6. Same(r, q, DOMAIN r \ ExceptionFields)
  BY <1>1, <1>3 DEF Same
<1>7. QED
  BY <1>3, <1>5, <1>6 DEF q

\* applyMetadata.
LEMMA MetadataTells ==
  ASSUME NEW r \in Result, NEW f \in Fields
  PROVE  LET q == ExceptionIsError(Except(Describe(Identify(r, f), f), f))
             p == ParseTraceparent(f.Traceparent)
         IN  /\ q \in Result
             /\ q.TraceID = CASE ValidTraceID(f.TraceID) -> f.TraceID.id
                              [] ~ ValidTraceID(f.TraceID) /\ p # NoIDs -> p.trace
                              [] OTHER -> r.TraceID
             /\ q.SpanID = CASE ValidSpanID(f.SpanID) -> f.SpanID.id
                             [] ~ ValidSpanID(f.SpanID) /\ p # NoIDs -> p.span
                             [] OTHER -> r.SpanID
             /\ q.Format = r.Format
             /\ q.Message = IF f.Message # NoText THEN f.Message ELSE r.Message
             /\ r.Severity # NoText => q.Severity = r.Severity
             /\ Visible(r) => Visible(q)
             /\ Alarmed(q)
             /\ Silent(f) /\ Alarmed(r) => Same(r, q, Said)
<1> DEFINE p  == ParseTraceparent(f.Traceparent)
           q1 == Identify(r, f)
           q2 == Describe(q1, f)
           q3 == Except(q2, f)
           q4 == ExceptionIsError(q3)
<1>0. q4 \in Result
  BY MetadataTyped
<1>1. /\ q1 \in Result
      /\ Same(r, q1, DOMAIN r \ {"TraceID", "SpanID"})
      /\ q1.TraceID = CASE ValidTraceID(f.TraceID) -> f.TraceID.id
                        [] ~ ValidTraceID(f.TraceID) /\ p # NoIDs -> p.trace
                        [] OTHER -> r.TraceID
      /\ q1.SpanID = CASE ValidSpanID(f.SpanID) -> f.SpanID.id
                       [] ~ ValidSpanID(f.SpanID) /\ p # NoIDs -> p.span
                       [] OTHER -> r.SpanID
  BY IdentifyTells, Zenon
<1>2. Silent(f) => ~ ValidTraceID(f.TraceID) /\ ~ ValidSpanID(f.SpanID) /\ p = NoIDs
  BY DEF Silent
<1> HIDE DEF q1, p
<1>3. /\ DOMAIN q2 = DOMAIN q1
      /\ Same(q1, q2, DOMAIN q1 \ Descriptive)
      /\ q2.Message = IF f.Message # NoText THEN f.Message ELSE q1.Message
      /\ Silent(f) => Same(q1, q2, DOMAIN q1 \ {"ResourceID", "ResourceGroupID",
                                                "EventCategory"})
  BY <1>1, DescribeTells
<1>4. DOMAIN r = DOMAIN ZeroResult /\ DOMAIN q1 = DOMAIN ZeroResult
  BY <1>1 DEF Result, ZeroResult
<1> HIDE DEF q2
<1>5. /\ DOMAIN q3 = DOMAIN q2
      /\ Same(q2, q3, DOMAIN q2 \ ExceptionFields)
      /\ Silent(f) => Same(q2, q3, DOMAIN q2)
  BY <1>3, <1>4, ExceptTells
<1> HIDE DEF q3
<1>6. /\ DOMAIN q4 = DOMAIN q3
      /\ Same(q3, q4, DOMAIN q3 \ {"Severity"})
      /\ q4.Severity = IF q3.Severity = NoText /\ HasException(q3) THEN "error" ELSE q3.Severity
  BY <1>3, <1>4, <1>5 DEF ExceptionIsError, ZeroResult, Same
<1> HIDE DEF q4
<1>7. Said \cup {"Format"} \subseteq DOMAIN r
  BY <1>4 DEF Said, LiftedFields, ZeroResult
<1>8. /\ q4.TraceID = q1.TraceID /\ q4.SpanID = q1.SpanID
      /\ q4.Format = r.Format /\ q4.HTTPStatusCode = r.HTTPStatusCode
      /\ q3.Severity = r.Severity
      /\ q4.Message = q2.Message /\ q1.Message = r.Message
  BY <1>1, <1>3, <1>4, <1>5, <1>6 DEF Same, Descriptive, ExceptionFields, ZeroResult
<1>9. HasException(q4) <=> HasException(q3)
  BY <1>3, <1>4, <1>5, <1>6 DEF HasException, Same, ZeroResult
<1>10. Alarmed(q4)
  BY <1>6, <1>9 DEF Alarmed, NoText
<1>11. Visible(r) => Visible(q4)
  BY <1>6, <1>8 DEF Visible
<1>12. ASSUME Silent(f), Alarmed(r) PROVE Same(r, q4, Said)
  <2>1. q1.TraceID = r.TraceID /\ q1.SpanID = r.SpanID
    BY <1>1, <1>2, <1>12
  <2>2. Same(r, q1, Said)
    BY <1>1, <1>7, <2>1 DEF Same
  <2>3. Same(q1, q2, Said) /\ Same(q2, q3, Said)
    BY <1>3, <1>4, <1>5, <1>12 DEF Same, Said, LiftedFields, ZeroResult
  <2>4. Same(r, q3, Said)
    BY <2>2, <2>3 DEF Same
  <2>5. ~ (q3.Severity = NoText /\ HasException(q3))
    BY <1>12, <2>4 DEF Same, Said, LiftedFields, HasException, Alarmed
  <2>6. Same(q3, q4, Said)
    BY <1>3, <1>4, <1>5, <1>6, <2>5 DEF Same, Said, LiftedFields, ZeroResult
  <2>7. QED
    BY <2>4, <2>6 DEF Same
<1>13. QED
  <2>1. q4.Message = IF f.Message # NoText THEN f.Message ELSE r.Message
    BY <1>3, <1>8
  <2>2. r.Severity # NoText => q4.Severity = r.Severity
    BY <1>6, <1>8
  <2>3. /\ q4.TraceID = CASE ValidTraceID(f.TraceID) -> f.TraceID.id
                          [] ~ ValidTraceID(f.TraceID) /\ p # NoIDs -> p.trace
                          [] OTHER -> r.TraceID
        /\ q4.SpanID = CASE ValidSpanID(f.SpanID) -> f.SpanID.id
                         [] ~ ValidSpanID(f.SpanID) /\ p # NoIDs -> p.span
                         [] OTHER -> r.SpanID
    BY <1>1, <1>8, Zenon
  <2>4. Silent(f) /\ Alarmed(r) => Same(r, q4, Said)
    BY <1>12
  <2>5. q4.Format = r.Format
    BY <1>8
  <2>6. QED
    BY <1>0, <1>10, <1>11, <2>1, <2>2, <2>3, <2>4, <2>5, Zenon DEF q4, q3, q2, q1, p

\* The last paragraph of applyJSON: the numeric level, and the claim.
Numbered(r, f) ==
  [r EXCEPT !.Format = "json", !.Severity = IF @ = NoText THEN PinoSeverity(f.pino) ELSE @]

\* The numeric level is taken where there is none, and nothing else is written
\* but the claim of the line.
LEMMA PinoTells ==
  ASSUME NEW r \in Result, NEW f \in Fields
  PROVE  LET q == Numbered(r, f)
         IN  /\ q \in Result
             /\ Same(r, q, DOMAIN r \ {"Format", "Severity"})
             /\ q.Format = "json"
             /\ r.Severity # NoText => q.Severity = r.Severity
             /\ Visible(r) => Visible(q)
             /\ Alarmed(r) => Alarmed(q)
             /\ Silent(f) => q.Severity = r.Severity
<1> DEFINE q == Numbered(r, f)
<1>1. q \in Result
  BY PinoTyped DEF Numbered
<1>2. /\ Same(r, q, DOMAIN r \ {"Format", "Severity"}) /\ q.Format = "json"
      /\ q.Severity = IF r.Severity = NoText THEN PinoSeverity(f.pino) ELSE r.Severity
      /\ q.HTTPStatusCode = r.HTTPStatusCode
      /\ q.ExceptionType = r.ExceptionType /\ q.ExceptionMessage = r.ExceptionMessage
      /\ q.ExceptionStackTrace = r.ExceptionStackTrace
  BY DEF Numbered, Result, Same
<1>3. Silent(f) => PinoSeverity(f.pino) = NoText
  <2>1. \A n \in Int : n < 0 => n \div 10 < 0
    OBVIOUS
  <2>2. Silent(f) => f.pino = Absent
    BY DEF Silent
  <2>3. Absent \in Int /\ Absent < 0
    BY DEF Absent
  <2>4. Absent \div 10 < 0
    BY <2>1, <2>3
  <2>5. QED
    BY <2>2, <2>4 DEF PinoSeverity
<1> HIDE DEF q
<1>4. Visible(r) => Visible(q)
  BY <1>2 DEF Visible
<1>5. Alarmed(r) => Alarmed(q)
  BY <1>2 DEF Alarmed, HasException
<1>6. QED
  BY <1>1, <1>2, <1>3, <1>4, <1>5 DEF q

\* mergeNested, field by field.
LEMMA MergeTells ==
  ASSUME NEW r \in Result, NEW n \in Result, NEW body \in MessageField
  PROVE  LET q == MergeNested(r, n, body)
         IN  /\ q.Time = IF n.Time # NoTime THEN n.Time ELSE r.Time
             /\ q.TimeHasZone = IF n.Time # NoTime THEN n.TimeHasZone ELSE r.TimeHasZone
             /\ \A x \in {"TraceID", "SpanID", "Severity", "Template", "Service", "SourceContext",
                          "ExceptionType", "ExceptionMessage", "ExceptionStackTrace"} :
                  q[x] = SetIfSet(r[x], n[x])
             /\ \A x \in {"SeverityNumber", "HTTPStatusCode"} :
                  q[x] = IF n[x] # 0 THEN n[x] ELSE r[x]
             /\ q.Message = IF n.Message # NoText THEN n.Message
                            ELSE IF n.Format # "json" THEN body ELSE r.Message
<1> DEFINE q1 == LiftTime(r, n)
           q2 == LiftIDs(q1, n)
           q3 == LiftFields(q2, n)
           q  == LiftMessage(q3, n, body)
<1>1. DOMAIN r = DOMAIN ZeroResult
  BY DEF Result, ZeroResult
<1>2. /\ DOMAIN q1 = DOMAIN r
      /\ Same(r, q1, DOMAIN r \ {"Time", "TimeHasZone"})
      /\ q1.Time = IF n.Time # NoTime THEN n.Time ELSE r.Time
      /\ q1.TimeHasZone = IF n.Time # NoTime THEN n.TimeHasZone ELSE r.TimeHasZone
  BY <1>1 DEF LiftTime, SetTime, ZeroResult, Same
<1> HIDE DEF q1
<1>3. /\ DOMAIN q2 = DOMAIN r
      /\ Same(q1, q2, DOMAIN r \ {"TraceID", "SpanID"})
      /\ q2.TraceID = SetIfSet(q1.TraceID, n.TraceID)
      /\ q2.SpanID = SetIfSet(q1.SpanID, n.SpanID)
  BY <1>1, <1>2 DEF LiftIDs, ZeroResult, Same
<1> HIDE DEF q2
<1>4. /\ DOMAIN q3 = DOMAIN r
      /\ Same(q2, q3, {"Time", "TimeHasZone", "TraceID", "SpanID", "Message"})
      /\ \A x \in {"Severity", "Template", "Service", "SourceContext",
                   "ExceptionType", "ExceptionMessage", "ExceptionStackTrace"} :
           q3[x] = SetIfSet(q2[x], n[x])
      /\ \A x \in {"SeverityNumber", "HTTPStatusCode"} :
           q3[x] = IF n[x] # 0 THEN n[x] ELSE q2[x]
  BY <1>1, <1>3 DEF LiftFields, ZeroResult, Same
<1> HIDE DEF q3
<1>5. /\ Same(q3, q, DOMAIN r \ {"Message"})
      /\ q.Message = IF n.Message # NoText THEN n.Message
                     ELSE IF n.Format # "json" THEN body ELSE q3.Message
  BY <1>1, <1>4 DEF LiftMessage, ZeroResult, Same
<1>6. q = MergeNested(r, n, body)
  BY DEF q, q1, q2, q3, MergeNested
<1> HIDE DEF q
<1>7. /\ q.Time = q1.Time /\ q.TimeHasZone = q1.TimeHasZone
      /\ q.Message = IF n.Message # NoText THEN n.Message
                     ELSE IF n.Format # "json" THEN body ELSE r.Message
  BY <1>1, <1>2, <1>3, <1>4, <1>5 DEF Same, ZeroResult
<1>8. \A x \in {"TraceID", "SpanID", "Severity", "Template", "Service", "SourceContext",
                "ExceptionType", "ExceptionMessage", "ExceptionStackTrace"} :
        q[x] = SetIfSet(r[x], n[x])
  BY <1>1, <1>2, <1>3, <1>4, <1>5 DEF Same, ZeroResult
<1>9. \A x \in {"SeverityNumber", "HTTPStatusCode"} : q[x] = IF n[x] # 0 THEN n[x] ELSE r[x]
  BY <1>1, <1>2, <1>3, <1>4, <1>5 DEF Same, ZeroResult
<1>10. QED
  BY <1>2, <1>6, <1>7, <1>8, <1>9

-----------------------------------------------------------------------------
(* The end of fillResult *)

\* The normalization knows every level, and the downgrade takes only a benign
\* error away, to WARN4.
LEMMA FinishTells ==
  ASSUME NEW r \in Result
  PROVE  LET q == Downgrade(Normalize(r))
         IN  /\ Same(r, q, DOMAIN r \ {"Severity", "SeverityNumber"})
             /\ ~ Benign(q)
             /\ r.Severity \in Levels =>
                  \/ q.Severity = r.Severity
                  \/ /\ r.Severity = "error" /\ BenignError(q.SourceContext, q.Message)
                     /\ q.Severity = "warn" /\ q.SeverityNumber = Warn4LevelNo
             /\ SeverityFromText(r.Severity).text # NoText => q.Severity # NoText
             /\ r.Severity = NoText => q.Severity = NoText /\ q.SeverityNumber = 0
             /\ Agrees(r) /\ ~ Benign(r) =>
                  q.Severity = r.Severity /\ q.SeverityNumber = r.SeverityNumber
<1> DEFINE s == SeverityFromText(r.Severity)
           n == Normalize(r)
           q == Downgrade(n)
<1>1. DOMAIN r = DOMAIN ZeroResult
  BY DEF Result, ZeroResult
<1>2. /\ r.Severity \in Levels => s.text = r.Severity
      /\ r.Severity = NoText => s = NoSeverity
      /\ s.text = NoText <=> s = NoSeverity
  BY LevelSpelled, NoTextUnread, SeverityRoundTrip
<1>3. n = [r EXCEPT !.Severity = s.text,
                    !.SeverityNumber = IF Keeps(@, s.text) THEN @ ELSE s.no]
  BY Zenon DEF Normalize, s
<1> HIDE DEF s, n
<1>4. /\ DOMAIN n = DOMAIN r
      /\ Same(r, n, DOMAIN r \ {"Severity", "SeverityNumber"})
      /\ n.Severity = s.text
      /\ n.SeverityNumber = IF Keeps(r.SeverityNumber, s.text) THEN r.SeverityNumber ELSE s.no
  BY <1>1, <1>3 DEF Same, ZeroResult
<1>5. /\ Same(n, q, DOMAIN r \ {"Severity", "SeverityNumber"})
      /\ Benign(n) => q.Severity = "warn" /\ q.SeverityNumber = Warn4LevelNo
      /\ ~ Benign(n) => q = n
  BY <1>1, <1>4 DEF Downgrade, SetSeverity, Graded, Same, ZeroResult
<1> HIDE DEF q
<1>6. Same(r, q, DOMAIN r \ {"Severity", "SeverityNumber"})
  BY <1>4, <1>5 DEF Same
<1>7. /\ q.SourceContext = n.SourceContext /\ q.Message = n.Message
      /\ n.SourceContext = r.SourceContext /\ n.Message = r.Message
  BY <1>1, <1>4, <1>5 DEF Same, ZeroResult
<1>8. ~ Benign(q)
  BY <1>5 DEF Benign
<1>9. ASSUME r.Severity \in Levels
      PROVE  \/ q.Severity = r.Severity
             \/ /\ r.Severity = "error" /\ BenignError(q.SourceContext, q.Message)
                /\ q.Severity = "warn" /\ q.SeverityNumber = Warn4LevelNo
  BY <1>2, <1>4, <1>5, <1>7, <1>9 DEF Benign
<1>10. s.text # NoText => q.Severity # NoText
  BY <1>4, <1>5 DEF NoText
<1>11. ASSUME r.Severity = NoText PROVE q.Severity = NoText /\ q.SeverityNumber = 0
  <2>1. n.Severity = NoText /\ ~ Benign(n)
    BY <1>2, <1>4, <1>11 DEF NoSeverity, Benign, NoText
  <2>2. ~ Keeps(r.SeverityNumber, NoText)
    BY NumbersName DEF Keeps, Result, SeverityNos
  <2>3. QED
    BY <1>2, <1>4, <1>5, <1>11, <2>1, <2>2 DEF NoSeverity
<1>12. ASSUME Agrees(r), ~ Benign(r)
       PROVE  q.Severity = r.Severity /\ q.SeverityNumber = r.SeverityNumber
  <2>1. CASE r.Severity \in Levels
    <3>1. s.text = r.Severity
      BY <1>2, <2>1
    <3>2. r.SeverityNumber # 0 /\ SeverityFromNumber(r.SeverityNumber) = r.Severity
      BY <1>12, <2>1, NumbersReadBack, NoTextIsNoLevel DEF Agrees
    <3>3. n.Severity = r.Severity /\ n.SeverityNumber = r.SeverityNumber
      BY <1>4, <3>1, <3>2 DEF Keeps
    <3>4. ~ Benign(n)
      BY <1>7, <1>12, <3>3 DEF Benign
    <3>5. QED
      BY <1>5, <3>3, <3>4
  <2>2. CASE r.Severity = NoText
    <3>1. r.SeverityNumber = 0
      BY <1>12, <2>2, NumbersName DEF Agrees, Result, SeverityNos
    <3>2. QED
      BY <1>11, <2>2, <3>1
  <2>3. QED
    BY <1>12, <2>1, <2>2 DEF Agrees
<1>13. QED
  <2>1. r.Severity \in Levels =>
          \/ q.Severity = r.Severity
          \/ /\ r.Severity = "error" /\ BenignError(q.SourceContext, q.Message)
             /\ q.Severity = "warn" /\ q.SeverityNumber = Warn4LevelNo
    BY <1>9
  <2>2. r.Severity = NoText => q.Severity = NoText /\ q.SeverityNumber = 0
    BY <1>11
  <2>3. Agrees(r) /\ ~ Benign(r) => q.Severity = r.Severity /\ q.SeverityNumber = r.SeverityNumber
    BY <1>12
  <2>4. QED
    BY <1>6, <1>8, <1>10, <2>1, <2>2, <2>3, Zenon DEF q, n, s

-----------------------------------------------------------------------------
(* Every other line *)

\* What the scan leaves of a line it does not claim.
LEMMA OutcomeTells ==
  ASSUME NEW pairs \in Seq(Pair)
  PROVE  LET o == Outcome(pairs)
         IN  /\ ~ o.claimed => /\ o.time = NoTime /\ o.level = NoSeverity
                               /\ o.trace = NoID
             /\ ~ HasEquals(pairs) => ~ o.claimed
<1> DEFINE o == Outcome(pairs)
<1>1. CASE ~ HasEquals(pairs)
  BY <1>1 DEF Outcome, NothingRead
<1>2. CASE HasEquals(pairs)
  <2>1. LineLevel(pairs).text = NoText => LineLevel(pairs) = NoSeverity
    <3>1. CASE Some(pairs, HasLevel)
      <4>1. SeverityFromText(First(pairs, HasLevel).level) # NoSeverity
        BY <3>1, FirstTyped DEF HasLevel
      <4>2. LineLevel(pairs).text # NoText
        BY <3>1, <4>1, SeverityRoundTrip DEF LineLevel
      <4>3. QED
        BY <4>2
    <3>2. CASE ~ Some(pairs, HasLevel) /\ Some(pairs, HasRawLevel)
      <4>1. First(pairs, HasRawLevel).level # NoText
        BY <3>2, FirstTyped DEF HasRawLevel
      <4>2. LineLevel(pairs).text # NoText
        BY <3>2, <4>1 DEF LineLevel, Graded
      <4>3. QED
        BY <4>2
    <3>3. CASE ~ Some(pairs, HasLevel) /\ ~ Some(pairs, HasRawLevel)
      BY <3>3 DEF LineLevel
    <3>4. QED
      BY <3>1, <3>2, <3>3
  <2>2. /\ o.claimed = Claims(LineTime(pairs), LineLevel(pairs), LineTrace(pairs))
        /\ o.time = LineTime(pairs) /\ o.level = LineLevel(pairs) /\ o.trace = LineTrace(pairs)
    BY <1>2 DEF Outcome
  <2>3. QED
    BY <1>2, <2>1, <2>2 DEF Claims
<1>3. QED
  BY <1>1, <1>2

\* The scan writes into a Result that holds nothing.
LEMMA ScannedTells ==
  ASSUME NEW pairs \in Seq(Pair)
  PROVE  LET o == Outcome(pairs)
             q == Scanned(ZeroResult, o)
         IN  /\ q.HTTPStatusCode = 0 /\ ~ HasException(q)
             /\ ~ o.claimed => Leftover(q, o)
<1> DEFINE o == Outcome(pairs)
           q == Scanned(ZeroResult, o)
<1>1. ~ o.claimed => o.time = NoTime /\ o.level = NoSeverity /\ o.trace = NoID
  BY OutcomeTells
<1> HIDE DEF o
<1>2. /\ DOMAIN q = DOMAIN ZeroResult
      /\ Same(ZeroResult, q, DOMAIN ZeroResult \ {"Time", "TimeHasZone", "Severity",
                                     "SeverityNumber", "Message", "SourceContext", "TraceID", "SpanID"})
      /\ q.Time = o.time /\ q.TimeHasZone = (o.time # NoTime)
      /\ q.Severity = o.level.text /\ q.SeverityNumber = o.level.no
      /\ q.TraceID = SetIfSet(NoID, o.trace)
      /\ q.Message = o.msg /\ q.SourceContext = o.logger
      /\ q.SpanID = SetIfSet(NoID, o.span)
  BY DEF Scanned, SetTime, ZeroResult, Same
<1>3. q.HTTPStatusCode = 0 /\ ~ HasException(q)
  BY <1>2 DEF Same, ZeroResult, HasException
<1>4. ~ o.claimed => Unread(q)
  <2>1. ~ o.claimed => /\ q.Time = NoTime /\ q.TimeHasZone = FALSE /\ q.Severity = NoText
                       /\ q.SeverityNumber = 0 /\ q.TraceID = NoID
    <3>1. ~ o.claimed => (o.time # NoTime) = FALSE
      BY <1>1
    <3>2. ~ o.claimed => o.level.text = NoText /\ o.level.no = 0
      BY <1>1 DEF NoSeverity
    <3>3. ~ o.claimed => SetIfSet(NoID, o.trace) = NoID
      BY <1>1 DEF SetIfSet
    <3>4. QED
      BY <1>1, <1>2, <3>1, <3>2, <3>3
  <2> HIDE DEF q
  <2>2. /\ ZeroResult.Time = NoTime /\ ZeroResult.TimeHasZone = FALSE
        /\ ZeroResult.Severity = NoText /\ ZeroResult.SeverityNumber = 0
        /\ ZeroResult.TraceID = NoID
    BY DEF ZeroResult
  <2>3. ~ o.claimed => \A x \in {"Time", "TimeHasZone", "Severity", "SeverityNumber", "TraceID"} :
                         q[x] = ZeroResult[x]
    BY <2>1, <2>2
  <2>4. QED
    BY <1>2, <2>3 DEF Same, Unread
<1>5. q.SpanID = o.span
  BY <1>2 DEF SetIfSet, NoID, NoText
<1>6. QED
  BY <1>2, <1>3, <1>4, <1>5 DEF q, o, Leftover

\* Such a Result is the zero one but for the three fields.
LEMMA UnreadIsZero ==
  ASSUME NEW r \in Result, NEW o, Leftover(r, o)
  PROVE  r = [ZeroResult EXCEPT !.Message = o.msg, !.SourceContext = o.logger,
                                !.SpanID = o.span]
<1> DEFINE z == [ZeroResult EXCEPT !.Message = o.msg, !.SourceContext = o.logger,
                                   !.SpanID = o.span]
           S == DOMAIN ZeroResult
<1>1. DOMAIN r = S
  BY DEF Result, ZeroResult
<1>2. r = [x \in S |-> r[x]]
  BY <1>1 DEF Result
<1>3. z = [x \in S |-> z[x]]
  OBVIOUS
<1>4. \A x \in S : z[x] = r[x]
  BY DEF Leftover, Unread, Same, ZeroResult
<1> HIDE DEF z
<1>5. QED
  BY <1>2, <1>3, <1>4 DEF z

\* No two of the groups a level comes of, and an exception only as an error.
LEMMA GroupsApart ==
  ASSUME NEW c \in Captures
  PROVE  /\ c.code # Absent =>
              c.level = NoText /\ c.mark = NoText /\ c.priority = Absent /\ ~ c.asError
         /\ c.exception.present =>
              /\ c.asError /\ c.code = Absent
              /\ c.level = NoText /\ c.mark = NoText /\ c.priority = Absent
<1>1. /\ \A g, h \in LevelGroups : HasGroup(c, g) /\ HasGroup(c, h) => g = h
      /\ c.exception.present => c.asError
  BY DEF Captures
<1>2. /\ HasGroup(c, "level") <=> c.level # NoText
      /\ HasGroup(c, "redis_level") <=> c.mark # NoText
      /\ HasGroup(c, "syslogpri") <=> c.priority # Absent
      /\ HasGroup(c, "response_code") <=> c.code # Absent
  BY DEF HasGroup
<1>3. HasGroup(c, "logaserror") = c.asError
  BY DEF HasGroup
<1>4. /\ c.code # Absent =>
           /\ ~ HasGroup(c, "level") /\ ~ HasGroup(c, "redis_level")
           /\ ~ HasGroup(c, "syslogpri") /\ ~ HasGroup(c, "logaserror")
      /\ HasGroup(c, "logaserror") =>
           /\ ~ HasGroup(c, "level") /\ ~ HasGroup(c, "redis_level")
           /\ ~ HasGroup(c, "syslogpri") /\ ~ HasGroup(c, "response_code")
  BY <1>1, <1>2 DEF LevelGroups
<1>5. QED
  BY <1>1, <1>2, <1>3, <1>4

\* What a text line's Result must show before the normalization.
Loud(r) ==
  /\ r.HTTPStatusCode >= 400 => r.Severity \in Levels \ {"info"}
  /\ HasException(r) => SeverityFromText(r.Severity).text # NoText

\* The captures of an entry, written into what the scan left.
LEMMA CapturesTell ==
  ASSUME NEW r, Unread(r), DOMAIN r = DOMAIN ZeroResult, NEW c \in Captures
  PROVE  LET q == [ApplyCaptures(r, c) EXCEPT !.Format = "pattern"]
         IN  q.Format = "pattern" /\ Loud(q)
<1> DEFINE named    == [r EXCEPT !.SourceContext = SetIfSet(@, c.source)]
           levelled == CASE c.level # NoText    -> [named EXCEPT !.Severity = c.level]
                         [] c.mark # NoText     -> [named EXCEPT !.Severity = RedisSeverity(c.mark)]
                         [] c.priority \in 0..191 ->
                              SetSeverity(named, SyslogSeverity(c.priority % 8))
                         [] OTHER               -> named
           timed    == IF c.time # NoTime THEN SetTime(levelled, c.time, c.time \in Times)
                       ELSE levelled
           coded    == SetHTTPResponseCode(timed, c.code, "Observed")
           errored  == IF c.asError /\ coded.Severity = NoText
                         THEN [coded EXCEPT !.Severity = "error"] ELSE coded
           told     == IF c.exception.present THEN ParseException(errored, c.exception)
                       ELSE errored
           q        == [told EXCEPT !.Format = "pattern"]
           S        == {"HTTPStatusCode", "ExceptionType", "ExceptionMessage", "ExceptionStackTrace"}
           D        == DOMAIN ZeroResult
<1>1. /\ DOMAIN named = D
      /\ named.HTTPStatusCode = 0 /\ named.ExceptionType = NoText
      /\ named.ExceptionMessage = NoText /\ named.ExceptionStackTrace = NoText
      /\ named.Severity = NoText
  BY DEF Unread, Same, ZeroResult
<1>2. c.code \in Int
  BY DEF Captures
<1> HIDE DEF named
<1>3. /\ DOMAIN levelled = D /\ Same(named, levelled, S)
      /\ c.level = NoText /\ c.mark = NoText /\ c.priority = Absent =>
           levelled.Severity = NoText
  BY <1>1 DEF Same, SetSeverity, ZeroResult, Absent
<1> HIDE DEF levelled
<1>4. /\ DOMAIN timed = D /\ Same(levelled, timed, S) /\ timed.Severity = levelled.Severity
  BY <1>3 DEF Same, SetTime, ZeroResult
<1> HIDE DEF timed
<1>5. /\ DOMAIN coded = D
      /\ Same(timed, coded, {"ExceptionType", "ExceptionMessage", "ExceptionStackTrace"})
      /\ ~ IsStatus(c.code) => coded = timed
      /\ IsStatus(c.code) =>
           /\ coded.HTTPStatusCode = IF Recorded(c.code) THEN c.code ELSE timed.HTTPStatusCode
           /\ coded.Severity = IF Grades(timed.Severity, "Observed")
                                 THEN HTTPStatusSeverity(c.code, "Observed") ELSE timed.Severity
  <2>1. /\ ~ IsStatus(c.code) => coded = timed
        /\ IsStatus(c.code) => coded = [timed EXCEPT
             !.HTTPStatusCode = IF Recorded(c.code) THEN c.code ELSE timed.HTTPStatusCode,
             !.Severity = IF Grades(timed.Severity, "Observed")
                            THEN HTTPStatusSeverity(c.code, "Observed") ELSE timed.Severity]
    BY <1>2, CodeSet, Zenon DEF coded
  <2> HIDE DEF coded
  <2>2. QED
    BY <1>4, <2>1 DEF Same, ZeroResult
<1> HIDE DEF coded
<1>6. /\ DOMAIN errored = D
      /\ Same(coded, errored, S)
      /\ errored.Severity = IF c.asError /\ coded.Severity = NoText THEN "error"
                            ELSE coded.Severity
  BY <1>5 DEF Same, ZeroResult
<1> HIDE DEF errored
<1>7. /\ DOMAIN told = D
      /\ told.HTTPStatusCode = errored.HTTPStatusCode /\ told.Severity = errored.Severity
      /\ ~ c.exception.present => told = errored
  BY <1>6 DEF ParseException, ZeroResult
<1> HIDE DEF told
<1>8. q.Format = "pattern" /\ Same(told, q, S \cup {"Severity"})
  BY <1>7 DEF Same, ZeroResult
<1> HIDE DEF q
<1>9. ASSUME q.HTTPStatusCode >= 400 PROVE q.Severity \in Levels \ {"info"}
  <2>1. IsStatus(c.code) /\ c.code >= 400
    BY <1>1, <1>2, <1>3, <1>4, <1>5, <1>6, <1>7, <1>8, <1>9 DEF Same, Recorded
  <2>2. c.level = NoText /\ c.mark = NoText /\ c.priority = Absent /\ ~ c.asError
    BY <2>1, GroupsApart DEF Absent
  <2>3. timed.Severity = NoText
    BY <1>3, <1>4, <2>2
  <2>4. coded.Severity = HTTPStatusSeverity(c.code, "Observed")
    BY <1>5, <2>1, <2>3 DEF Grades
  <2>5. HTTPStatusSeverity(c.code, "Observed") = "warn"
    BY <1>2, <2>1 DEF HTTPStatusSeverity, IsStatus
  <2>6. q.Severity = coded.Severity
    BY <1>6, <1>7, <1>8, <2>2 DEF Same
  <2>7. QED
    BY <2>4, <2>5, <2>6 DEF Levels
<1>10. ASSUME HasException(q) PROVE SeverityFromText(q.Severity).text # NoText
  <2>1. c.exception.present
    BY <1>1, <1>3, <1>4, <1>5, <1>6, <1>7, <1>8, <1>10 DEF Same, HasException
  <2>2. /\ c.asError /\ c.code = Absent
        /\ c.level = NoText /\ c.mark = NoText /\ c.priority = Absent
    BY <2>1, GroupsApart
  <2>3. coded.Severity = NoText
    BY <1>3, <1>4, <1>5, <2>2 DEF IsStatus, Absent
  <2>4. q.Severity = "error"
    BY <1>6, <1>7, <1>8, <2>2, <2>3 DEF Same
  <2>5. QED
    BY <2>4, LevelsAreNamed DEF Levels
<1>11. ApplyCaptures(r, c) = told
  BY Zenon DEF ApplyCaptures, told, errored, coded, timed, levelled, named
<1>12. QED
  BY <1>8, <1>9, <1>10, <1>11 DEF Loud, q

-----------------------------------------------------------------------------
(* One call, one step of it *)

\* What a call remembers does not depend on where it is or on its Result.
LEMMA SameHistory ==
  ASSUME NEW fr, NEW g, g.line = fr.line, g.lifted = fr.lifted
  PROVE  /\ \A id : Carried(g, id) = Carried(fr, id)
         /\ LiftedLevels(g) = LiftedLevels(fr) /\ LiftedWords(g) = LiftedWords(fr)
         /\ LastLevel(g) = LastLevel(fr) /\ SettledLevel(g) = SettledLevel(fr)
         /\ Lifts(fr) => Lifts(g)
<1>1. LiftedLevels(g) = LiftedLevels(fr)
  BY DEF LiftedLevels
<1>2. QED
  BY <1>1 DEF Carried, LastLevel, SettledLevel, Lifts, LiftedWords, Spoken

\* A step of a JSON record past its embedded lines.
LEMMA JsonMoved ==
  ASSUME NEW fr, Told(fr), fr.line.kind = "json", NEW g,
         g.at \in {"envelope", "hints", "metadata", "codes", "pino", "finish"},
         g.line = fr.line, g.lifted = fr.lifted, g.code = fr.code,
         Visible(fr.res) => Visible(g.res),
         Identified(g), Settled(g), Echoed(g), Worded(g),
         g.at = "finish" => g.res.Format = "json",
         g.at \in {"codes", "pino", "finish"} => Alarmed(g.res)
  PROVE  Told(g)
<1>1. Lifts(g)
  BY SameHistory DEF Told
<1>2. Begun(g) /\ Bare(g) /\ Ended(g)
  BY DEF Told, Begun, Bare, Ended
<1>3. Shown(g)
  BY DEF Told, Shown
<1>4. QED
  BY <1>1, <1>2, <1>3 DEF Told, Accounted

\* A function that writes levels leaves the identifiers, the message and what a
\* silent record repeats where they are.
LEMMA GradedStep ==
  ASSUME NEW fr, Told(fr), fr.line.kind = "json",
         NEW g, g.line = fr.line, g.lifted = fr.lifted,
         fr.res \in Result, Restated(fr.res, g.res),
         Silent(fr.line.f) => g.res = fr.res,
         g.at # "done", fr.at # "done"
  PROVE  /\ (fr.at \in Unhinted /\ g.at \in Unhinted \cup {"metadata"}) =>
              Identified(g) /\ Worded(g)
         /\ (fr.at = "codes" /\ g.at = "pino") => Identified(g) /\ Worded(g)
         /\ Echoed(g)
         /\ Visible(fr.res) => Visible(g.res)
         /\ Alarmed(fr.res) => Alarmed(g.res)
<1>1. (\A id : Carried(g, id) = Carried(fr, id)) /\ LiftedWords(g) = LiftedWords(fr)
  BY SameHistory
<1>2. /\ g.res.TraceID = fr.res.TraceID /\ g.res.SpanID = fr.res.SpanID
      /\ g.res.Message = fr.res.Message
      /\ g.res.ExceptionType = fr.res.ExceptionType
      /\ g.res.ExceptionMessage = fr.res.ExceptionMessage
      /\ g.res.ExceptionStackTrace = fr.res.ExceptionStackTrace
  BY DEF Restated, Same, Ungraded
<1>3. ASSUME fr.at \in Unhinted, g.at \in Unhinted \cup {"metadata"}
      PROVE  Identified(g) /\ Worded(g)
  <2>1. Identified(g)
    BY <1>1, <1>2, <1>3 DEF Told, Accounted, Identified, Unhinted
  <2>2. Worded(g)
    BY <1>1, <1>2, <1>3 DEF Told, Accounted, Worded, Unhinted
  <2>3. QED
    BY <2>1, <2>2
<1>4. ASSUME fr.at = "codes", g.at = "pino" PROVE Identified(g) /\ Worded(g)
  <2>1. InOrder(fr) /\ InWords(fr)
    BY <1>4 DEF Told, Accounted, Identified, Worded
  <2>2. InOrder(g)
    BY <1>1, <1>2, <2>1 DEF InOrder
  <2>3. InWords(g)
    BY <1>1, <1>2, <2>1 DEF InWords
  <2>4. QED
    BY <1>4, <2>2, <2>3 DEF Identified, Worded, Unhinted
<1>5. Echoed(g)
  BY DEF Told, Accounted, Echoed
<1>6. Alarmed(fr.res) => Alarmed(g.res)
  BY <1>2 DEF Alarmed, HasException, Restated
<1>7. QED
  BY <1>2, <1>3, <1>4, <1>5, <1>6 DEF Restated

\* The step past the envelope.
LEMMA EnvelopeTold ==
  ASSUME NEW fr \in FrameType, Told(fr), fr.line.kind = "json", fr.line.f \in Fields,
         fr.at = "envelope", NEW g, g.at = "hints",
         g.line = fr.line, g.lifted = fr.lifted, g.code = fr.code,
         g.res = EnvelopeTime(EnvelopeStatus(fr.res, fr.line.f), fr.line.f)
  PROVE  Told(g)
<1> DEFINE f == fr.line.f
<1>1. fr.res \in Result
  BY DEF FrameType
<1>2. /\ Restated(fr.res, g.res)
      /\ f.responseStatus \notin 0..599 => g.res.Severity = fr.res.Severity
      /\ Silent(f) => g.res = fr.res
  BY <1>1, EnvelopeTells
<1>3. LastLevel(g) = LastLevel(fr)
  BY SameHistory
<1>4. Settled(g)
  BY <1>2, <1>3 DEF Told, Accounted, Settled, Unhinted, Hinted, FailureReported
<1>5. QED
  BY <1>1, <1>2, <1>4, GradedStep, JsonMoved DEF Unhinted

\* The step past the severity hints: the level is settled.
LEMMA HintsTold ==
  ASSUME NEW fr \in FrameType, Told(fr), fr.line.kind = "json", fr.line.f \in Fields,
         fr.at = "hints", NEW g, g.at = "metadata",
         g.line = fr.line, g.lifted = fr.lifted, g.code = fr.code,
         g.res = GrpcHint(OTLPHint(MongoHint(LevelHint(fr.res, fr.line.f), fr.line.f),
                                   fr.line.f), fr.line.f)
  PROVE  Told(g)
<1> DEFINE f == fr.line.f
           s == SeverityFromText(f.Severity).text
<1>1. fr.res \in Result
  BY DEF FrameType
<1>2. /\ Regraded(fr.res, g.res)
      /\ fr.res.Severity = NoText /\ s \notin {NoText, "info"} => g.res.Severity = s
      /\ Silent(f) => g.res = fr.res
  BY <1>1, HintsTell
<1> HIDE DEF s
<1>3. SettledLevel(g) = SettledLevel(fr)
  BY SameHistory
<1>4. ASSUME ~ FailureReported(f), SettledLevel(fr) \notin {NoText, "info"}
      PROVE  g.res.Severity = SettledLevel(fr)
  <2>1. fr.res.Severity = LastLevel(fr)
    BY <1>4 DEF Told, Accounted, Settled, Unhinted
  <2>2. CASE LiftedLevels(fr) # {}
    BY <1>2, <1>4, <2>1, <2>2 DEF LastLevel, SettledLevel, Regraded
  <2>3. CASE LiftedLevels(fr) = {}
    BY <1>2, <1>4, <2>1, <2>3 DEF LastLevel, SettledLevel, s
  <2>4. QED
    BY <2>2, <2>3
<1>5. Settled(g)
  BY <1>3, <1>4 DEF Settled, Unhinted, Hinted
<1>6. QED
  BY <1>1, <1>2, <1>5, GradedStep, JsonMoved DEF Unhinted, Regraded

\* The step past the metadata: the identifiers are settled.
LEMMA MetadataTold ==
  ASSUME NEW fr \in FrameType, Told(fr), fr.line.kind = "json", fr.line.f \in Fields,
         fr.at = "metadata", NEW g, g.at = "codes",
         g.line = fr.line, g.lifted = fr.lifted, g.code = fr.code,
         g.res = ExceptionIsError(Except(Describe(Identify(fr.res, fr.line.f), fr.line.f),
                                         fr.line.f))
  PROVE  Told(g)
<1> DEFINE f == fr.line.f
           p == ParseTraceparent(f.Traceparent)
<1>1. fr.res \in Result
  BY DEF FrameType
<1>2. /\ g.res.TraceID = CASE ValidTraceID(f.TraceID) -> f.TraceID.id
                           [] ~ ValidTraceID(f.TraceID) /\ p # NoIDs -> p.trace
                           [] OTHER -> fr.res.TraceID
      /\ g.res.SpanID = CASE ValidSpanID(f.SpanID) -> f.SpanID.id
                          [] ~ ValidSpanID(f.SpanID) /\ p # NoIDs -> p.span
                          [] OTHER -> fr.res.SpanID
      /\ g.res.Message = IF f.Message # NoText THEN f.Message ELSE fr.res.Message
      /\ fr.res.Severity # NoText => g.res.Severity = fr.res.Severity
      /\ Visible(fr.res) => Visible(g.res)
      /\ Alarmed(g.res)
      /\ Silent(f) /\ Alarmed(fr.res) => Same(fr.res, g.res, Said)
  BY <1>1, MetadataTells
<1>3. /\ \A id : Carried(g, id) = Carried(fr, id)
      /\ SettledLevel(g) = SettledLevel(fr) /\ LiftedWords(g) = LiftedWords(fr)
  BY SameHistory
<1>4. Identified(g)
  <2>1. fr.res.TraceID = Carried(fr, "TraceID") /\ fr.res.SpanID = Carried(fr, "SpanID")
    BY DEF Told, Accounted, Identified
  <2>2. InOrder(g)
    BY <1>2, <1>3, <2>1, Zenon DEF InOrder
  <2>3. QED
    BY <2>2 DEF Identified, Unhinted
<1>5. Settled(g)
  BY <1>2, <1>3 DEF Told, Accounted, Settled, Unhinted, Hinted
<1>6. Echoed(g)
  <2> SUFFICES ASSUME Silent(f), Len(fr.lifted) = 1
               PROVE  /\ Same(fr.lifted[1].res, g.res, LiftedFields)
                      /\ g.res.Message = LiftedMessage(fr.lifted[1])
    BY DEF Echoed
  <2>1. /\ Same(fr.lifted[1].res, fr.res, LiftedFields)
        /\ fr.res.Message = LiftedMessage(fr.lifted[1])
    BY DEF Told, Accounted, Echoed
  <2>2. Alarmed(fr.lifted[1].res)
    BY DEF Told, Lifts, Delivered, FrameType
  <2>3. Alarmed(fr.res)
    BY <2>1, <2>2 DEF Same, LiftedFields, Alarmed, HasException
  <2>4. Same(fr.res, g.res, Said)
    BY <1>2, <2>3
  <2>5. QED
    BY <2>1, <2>4 DEF Same, Said
<1>7. Worded(g)
  <2>1. fr.res.Message = LiftedWords(fr)
    BY DEF Told, Accounted, Worded
  <2>2. InWords(g)
    BY <1>2, <1>3, <2>1 DEF InWords
  <2>3. QED
    BY <2>2 DEF Worded, Unhinted
<1>8. QED
  BY <1>2, <1>4, <1>5, <1>6, <1>7, JsonMoved

\* The step past the status codes.
LEMMA CodesTold ==
  ASSUME NEW fr \in FrameType, Told(fr), fr.line.kind = "json", fr.line.f \in Fields,
         fr.at = "codes", NEW code \in Int, code \in {fr.line.f.ResponseCode, fr.code},
         fr.line.f.ResponseCode = Absent => code = fr.code,
         NEW g, g.at = "pino", g.line = fr.line, g.lifted = fr.lifted, g.code = fr.code,
         g.res = ResponseCode(ResultStatus(fr.res, fr.line.f), fr.line.f, code)
  PROVE  Told(g)
<1> DEFINE f == fr.line.f
<1>1. fr.res \in Result
  BY DEF FrameType
<1>2. /\ Regraded(fr.res, g.res)
      /\ Silent(f) /\ code = Absent => g.res = fr.res
  BY <1>1, CodesTell
<1>3. Silent(f) => code = Absent
  BY DEF Silent, Told, Begun
<1>4. SettledLevel(g) = SettledLevel(fr)
  BY SameHistory
<1>5. Settled(g)
  BY <1>2, <1>4 DEF Told, Accounted, Settled, Unhinted, Hinted, Regraded
<1>6. Alarmed(fr.res)
  BY DEF Told, Accounted
<1>7. Restated(fr.res, g.res) /\ (Silent(f) => g.res = fr.res)
  BY <1>2, <1>3 DEF Regraded
<1>8. /\ Identified(g) /\ Worded(g) /\ Echoed(g) /\ Alarmed(g.res)
      /\ Visible(fr.res) => Visible(g.res)
  BY <1>1, <1>6, <1>7, GradedStep
<1>9. QED
  BY <1>5, <1>8, JsonMoved

\* The step past the numeric level, where the record claims its line.
LEMMA PinoTold ==
  ASSUME NEW fr \in FrameType, Told(fr), fr.line.kind = "json", fr.line.f \in Fields,
         fr.at = "pino", NEW g, g.at = "finish",
         g.line = fr.line, g.lifted = fr.lifted, g.code = fr.code,
         g.res = Numbered(fr.res, fr.line.f)
  PROVE  Told(g)
<1> DEFINE f == fr.line.f
<1>1. fr.res \in Result /\ DOMAIN fr.res = DOMAIN ZeroResult
  BY DEF FrameType, Result, ZeroResult
<1>2. /\ Same(fr.res, g.res, DOMAIN fr.res \ {"Format", "Severity"})
      /\ g.res.Format = "json"
      /\ fr.res.Severity # NoText => g.res.Severity = fr.res.Severity
      /\ Visible(fr.res) => Visible(g.res)
      /\ Alarmed(fr.res) => Alarmed(g.res)
      /\ Silent(f) => g.res.Severity = fr.res.Severity
  <2> DEFINE r == fr.res
             q == Numbered(r, f)
  <2>1. /\ q \in Result
        /\ Same(r, q, DOMAIN r \ {"Format", "Severity"})
        /\ q.Format = "json"
        /\ r.Severity # NoText => q.Severity = r.Severity
        /\ Visible(r) => Visible(q)
        /\ Alarmed(r) => Alarmed(q)
        /\ Silent(f) => q.Severity = r.Severity
    BY <1>1, PinoTells, Zenon
  <2>2. QED
    BY <2>1
<1>3. g.res.TraceID = fr.res.TraceID /\ g.res.SpanID = fr.res.SpanID
      /\ g.res.Message = fr.res.Message
  BY <1>1, <1>2 DEF Same, ZeroResult
<1>4. /\ SettledLevel(g) = SettledLevel(fr) /\ LiftedWords(g) = LiftedWords(fr)
      /\ \A id : Carried(g, id) = Carried(fr, id)
  BY SameHistory
<1>5. Settled(g)
  BY <1>2, <1>4 DEF Told, Accounted, Settled, Unhinted, Hinted
<1>6. Identified(g)
  <2>1. InOrder(fr)
    BY DEF Told, Accounted, Identified
  <2>2. InOrder(g)
    BY <1>3, <1>4, <2>1 DEF InOrder
  <2>3. QED
    BY <2>2 DEF Identified, Unhinted
<1>7. Silent(f) => Same(fr.res, g.res, LiftedFields)
  BY <1>1, <1>2 DEF Same, LiftedFields, ZeroResult
<1>8. Echoed(g)
  BY <1>3, <1>7 DEF Told, Accounted, Echoed, Same
<1>9. Alarmed(fr.res)
  BY DEF Told, Accounted
<1>10. /\ g.res.Format = "json" /\ Alarmed(g.res)
       /\ Visible(fr.res) => Visible(g.res)
  BY <1>2, <1>9
<1>11. Worded(g)
  <2>1. InWords(fr)
    BY DEF Told, Accounted, Worded
  <2>2. InWords(g)
    BY <1>3, <1>4, <2>1 DEF InWords
  <2>3. QED
    BY <2>2 DEF Worded, Unhinted
<1>12. QED
  BY <1>5, <1>6, <1>8, <1>10, <1>11, JsonMoved

\* The level a record settles on is one of the six.
LEMMA SettledIsLevel ==
  ASSUME NEW fr \in FrameType, Lifts(fr)
  PROVE  SettledLevel(fr) \in Levels \cup {NoText}
<1> DEFINE S == LiftedLevels(fr)
           n == Len(fr.lifted)
<1>1. n \in Nat /\ S \subseteq 1..n /\ DOMAIN fr.lifted = 1..n
  BY DEF FrameType, LiftedLevels
<1>2. CASE S # {}
  <2>1. Max(S) \in S
    BY <1>1, <1>2, MaxIsGreatest
  <2>2. Agrees(fr.lifted[Max(S)].res)
    BY <1>1, <2>1 DEF Lifts, Delivered
  <2>3. QED
    BY <1>2, <2>2 DEF SettledLevel, Agrees
<1>3. CASE S = {}
  BY <1>3, SeverityRoundTrip DEF SettledLevel
<1>4. QED
  BY <1>2, <1>3

\* A record ends.
LEMMA JsonEnds ==
  ASSUME NEW fr \in FrameType, Told(fr), Tidy(fr), fr.line.kind = "json",
         fr.at = "finish", NEW g, g.at = "done",
         g.line = fr.line, g.lifted = fr.lifted, g.code = fr.code,
         g.res = Downgrade(Normalize(fr.res))
  PROVE  Told(g)
<1> DEFINE f == fr.line.f
           r == fr.res
           q == g.res
<1>1. r \in Result /\ DOMAIN r = DOMAIN ZeroResult /\ r.Severity \in Levels \cup {NoText}
  BY DEF FrameType, Result, ZeroResult, Tidy, KnownLevels
<1>2. /\ Same(r, q, DOMAIN r \ {"Severity", "SeverityNumber"})
      /\ ~ Benign(q)
      /\ r.Severity \in Levels =>
           \/ q.Severity = r.Severity
           \/ /\ r.Severity = "error" /\ BenignError(q.SourceContext, q.Message)
              /\ q.Severity = "warn" /\ q.SeverityNumber = Warn4LevelNo
      /\ r.Severity = NoText => q.Severity = NoText /\ q.SeverityNumber = 0
      /\ Agrees(r) /\ ~ Benign(r) =>
           q.Severity = r.Severity /\ q.SeverityNumber = r.SeverityNumber
  BY <1>1, FinishTells
<1>3. /\ q.TraceID = r.TraceID /\ q.SpanID = r.SpanID /\ q.Message = r.Message
      /\ q.Format = r.Format /\ q.HTTPStatusCode = r.HTTPStatusCode
      /\ q.ExceptionType = r.ExceptionType /\ q.ExceptionMessage = r.ExceptionMessage
      /\ q.ExceptionStackTrace = r.ExceptionStackTrace
      /\ q.SourceContext = r.SourceContext
  BY <1>1, <1>2 DEF Same, ZeroResult
<1>4. /\ \A id : Carried(g, id) = Carried(fr, id)
      /\ SettledLevel(g) = SettledLevel(fr) /\ LiftedWords(g) = LiftedWords(fr) /\ Lifts(g)
  BY SameHistory DEF Told
<1>5. Identified(g)
  <2>1. InOrder(fr)
    BY DEF Told, Accounted, Identified
  <2>2. InOrder(g)
    BY <1>3, <1>4, <2>1 DEF InOrder
  <2>3. QED
    BY <2>2 DEF Identified, Unhinted
<1>6. Settled(g)
  <2> SUFFICES ASSUME ~ FailureReported(f), SettledLevel(fr) \notin {NoText, "info"}
               PROVE  \/ q.Severity = SettledLevel(fr)
                      \/ /\ SettledLevel(fr) = "error"
                         /\ BenignError(q.SourceContext, q.Message)
                         /\ q.Severity = "warn" /\ q.SeverityNumber = Warn4LevelNo
    BY <1>4 DEF Settled, Kept, Unhinted, Hinted
  <2>1. r.Severity = SettledLevel(fr)
    BY DEF Told, Accounted, Settled, Hinted
  <2>2. r.Severity \in Levels
    BY <1>1, <2>1
  <2>3. QED
    BY <1>2, <2>1, <2>2
<1>7. Worded(g)
  <2>1. InWords(fr)
    BY DEF Told, Accounted, Worded
  <2>2. InWords(g)
    BY <1>3, <1>4, <2>1 DEF InWords
  <2>3. QED
    BY <2>2 DEF Worded, Unhinted
<1>8. Shown(g)
  <2>1. Visible(r) => Visible(q)
    BY <1>1, <1>2, <1>3, NoTextIsNoLevel DEF Visible, NoText
  <2>2. QED
    BY <2>1 DEF Told, Shown
<1>9. Alarmed(q)
  <2>1. Alarmed(r)
    BY DEF Told, Accounted
  <2>2. r.Severity # NoText => q.Severity # NoText
    BY <1>1, <1>2 DEF NoText
  <2>3. QED
    BY <1>3, <2>1, <2>2 DEF Alarmed, HasException
<1>10. Ended(g)
  BY <1>2, <1>3, <1>9 DEF Ended, Told, Accounted
<1>11. Echoed(g)
  <2> SUFFICES ASSUME Silent(f), Len(fr.lifted) = 1
               PROVE  Same(fr.lifted[1].res, q, LiftedFields)
    BY DEF Echoed
  <2> DEFINE h == fr.lifted[1]
  <2>1. Same(h.res, r, LiftedFields) /\ r.Message = LiftedMessage(h)
    BY DEF Told, Accounted, Echoed
  <2>2. Delivered(h)
    BY DEF Told, Lifts, FrameType
  <2> HIDE DEF h
  <2>3. /\ r.Severity = h.res.Severity /\ r.SeverityNumber = h.res.SeverityNumber
        /\ r.SourceContext = h.res.SourceContext
    BY <2>1 DEF Same, LiftedFields
  <2>4. Agrees(r)
    BY <2>2, <2>3 DEF Delivered, Agrees
  <2>5. ~ Benign(r)
    <3>1. CASE h.res.Message # NoText
      BY <2>1, <2>2, <2>3, <3>1 DEF LiftedMessage, Delivered, Benign
    <3>2. CASE h.res.Message = NoText
      <4>1. r.Message \in {h.body, NoText}
        BY <2>1, <3>2 DEF LiftedMessage
      <4>2. ASSUME Benign(r) PROVE FALSE
        <5>1. BenignMessage(r.Message) /\ r.Severity = "error"
          BY <4>2, BenignTexts DEF Benign
        <5>2. BenignMessage(h.body)
          BY <4>1, <5>1, BenignTexts
        <5>3. QED
          BY <2>2, <2>3, <5>1, <5>2 DEF Delivered, NoText
      <4>3. QED
        BY <4>2
    <3>3. QED
      BY <3>1, <3>2
  <2>6. q.Severity = r.Severity /\ q.SeverityNumber = r.SeverityNumber
    BY <1>2, <2>4, <2>5
  <2>7. Same(r, q, LiftedFields)
    BY <1>1, <1>2, <2>6 DEF Same, LiftedFields, ZeroResult
  <2>8. QED
    BY <2>1, <2>7 DEF Same, h
<1>12. Begun(g) /\ Bare(g)
  BY DEF Told, Begun, Bare
<1>13. QED
  BY <1>4, <1>5, <1>6, <1>7, <1>8, <1>10, <1>11, <1>12 DEF Told, Accounted

-----------------------------------------------------------------------------
(* One call: a line that is not JSON *)

\* The end of such a call.
LEMMA TextEnds ==
  ASSUME NEW fr \in FrameType, Told(fr), fr.line.kind = "text",
         fr.at = "finish", NEW g, g.at = "done",
         g.line = fr.line, g.lifted = fr.lifted, g.code = fr.code,
         g.res = Downgrade(Normalize(fr.res))
  PROVE  Told(g)
<1> DEFINE r == fr.res
           q == g.res
<1>1. r \in Result /\ DOMAIN r = DOMAIN ZeroResult
  BY DEF FrameType, Result, ZeroResult
<1>2. /\ Same(r, q, DOMAIN r \ {"Severity", "SeverityNumber"})
      /\ ~ Benign(q)
      /\ r.Severity \in Levels =>
           \/ q.Severity = r.Severity
           \/ /\ r.Severity = "error" /\ BenignError(q.SourceContext, q.Message)
              /\ q.Severity = "warn" /\ q.SeverityNumber = Warn4LevelNo
      /\ SeverityFromText(r.Severity).text # NoText => q.Severity # NoText
      /\ r.Severity = NoText => q.Severity = NoText /\ q.SeverityNumber = 0
  BY <1>1, FinishTells
<1>3. /\ q.Format = r.Format /\ q.HTTPStatusCode = r.HTTPStatusCode
      /\ q.ExceptionType = r.ExceptionType /\ q.ExceptionMessage = r.ExceptionMessage
      /\ q.ExceptionStackTrace = r.ExceptionStackTrace
  BY <1>1, <1>2 DEF Same, ZeroResult
<1>4. /\ r.Format = "" => Leftover(r, Outcome(fr.line.pairs))
      /\ r.HTTPStatusCode >= 400 => r.Severity \in Levels \ {"info"}
      /\ HasException(r) => SeverityFromText(r.Severity).text # NoText
      /\ BenignMessage(fr.line.body) => r.Severity = NoText
  BY DEF Told, Plain
<1>5. Alarmed(q)
  BY <1>2, <1>3, <1>4 DEF Alarmed, HasException
<1>6. Visible(q)
  BY <1>2, <1>3, <1>4, NoTextIsNoLevel DEF Visible, NoText
<1>7. ASSUME NEW o, Leftover(r, o) PROVE Leftover(q, o)
  <2>1. ZeroResult.Severity = NoText /\ ZeroResult.SeverityNumber = 0
    BY DEF ZeroResult
  <2>2. "Severity" \in DOMAIN r /\ "SeverityNumber" \in DOMAIN r
    BY <1>1 DEF ZeroResult
  <2>3. Unread(q)
    BY <1>1, <1>2, <1>7, <2>1, <2>2 DEF Leftover, Unread, Same
  <2>4. q.Message = r.Message /\ q.SourceContext = r.SourceContext /\ q.SpanID = r.SpanID
    BY <1>1, <1>2 DEF Same, ZeroResult
  <2>5. QED
    BY <1>7, <2>3, <2>4 DEF Leftover
<1>8. Lifts(g) /\ Begun(g) /\ Bare(g)
  BY SameHistory DEF Told, Begun, Bare
<1>9. Shown(g) /\ Ended(g) /\ Plain(g)
  BY <1>2, <1>3, <1>4, <1>5, <1>6, <1>7 DEF Shown, Ended, Plain
<1>10. QED
  BY <1>8, <1>9 DEF Told

\* A step of such a call before its end: it has lifted nothing.
LEMMA TextMoved ==
  ASSUME NEW fr, Told(fr), fr.line.kind = "text", NEW g,
         g.at \in {"logfmt", "patterns", "traceparent", "finish"},
         g.at = "logfmt" => g.res = ZeroResult /\ g.code = Absent,
         g.line = fr.line, g.lifted = fr.lifted,
         Visible(g.res), Plain(g)
  PROVE  Told(g)
<1>1. Lifts(g)
  BY SameHistory DEF Told
<1>2. Begun(g) /\ Bare(g) /\ Ended(g) /\ Shown(g)
  BY DEF Told, Begun, Bare, Ended, Shown
<1>3. QED
  BY <1>1, <1>2 DEF Told

\* The logfmt scan, whether or not it claims the line.
LEMMA LogfmtTold ==
  ASSUME NEW fr, Told(fr), fr.line.kind = "text", fr.line.pairs \in Seq(Pair),
         fr.at = "logfmt", NEW g, g.line = fr.line, g.lifted = fr.lifted,
         \/ /\ Outcome(fr.line.pairs).claimed /\ g.at = "finish"
            /\ g.res = [Scanned(fr.res, Outcome(fr.line.pairs)) EXCEPT !.Format = "logfmt"]
         \/ /\ ~ Outcome(fr.line.pairs).claimed /\ g.at = "patterns"
            /\ g.res = Scanned(fr.res, Outcome(fr.line.pairs))
  PROVE  Told(g)
<1> DEFINE o == Outcome(fr.line.pairs)
           q == Scanned(ZeroResult, o)
<1>1. fr.res = ZeroResult
  BY DEF Told, Begun
<1>2. /\ q.HTTPStatusCode = 0 /\ ~ HasException(q)
      /\ ~ o.claimed => Leftover(q, o)
      /\ ~ HasEquals(fr.line.pairs) => ~ o.claimed
  BY ScannedTells, OutcomeTells
<1>3. BenignMessage(fr.line.body) => ~ o.claimed
  BY <1>2 DEF Told, Bare
<1>4. DOMAIN q = DOMAIN ZeroResult
  BY DEF Scanned, SetTime, ZeroResult
<1>5. CASE o.claimed
  <2> DEFINE c == [q EXCEPT !.Format = "logfmt"]
  <2>1. g.res = c /\ g.at = "finish"
    BY <1>1, <1>5
  <2> HIDE DEF q, o
  <2>2. c.Format = "logfmt" /\ c.HTTPStatusCode = 0 /\ ~ HasException(c)
    BY <1>2, <1>4 DEF ZeroResult, HasException
  <2> HIDE DEF c
  <2>3. Visible(g.res)
    BY <2>1, <2>2 DEF Visible
  <2>4. Plain(g)
    BY <1>3, <1>5, <2>1, <2>2 DEF Plain
  <2>5. QED
    BY <2>1, <2>3, <2>4, TextMoved
<1>6. CASE ~ o.claimed
  <2>1. g.res = q /\ g.at = "patterns" /\ Outcome(g.line.pairs) = o
    BY <1>1, <1>6
  <2> HIDE DEF q, o
  <2>2. Visible(g.res)
    BY <1>2, <2>1 DEF Visible
  <2>3. Plain(g)
    BY <1>2, <1>6, <2>1 DEF Plain
  <2>4. QED
    BY <2>1, <2>2, <2>3, TextMoved
<1>7. QED
  BY <1>5, <1>6

\* What an unread Result shows: nothing.
LEMMA UnreadIsQuiet ==
  ASSUME NEW r, Unread(r)
  PROVE  r.HTTPStatusCode = 0 /\ r.Severity = NoText /\ ~ HasException(r)
BY DEF Unread, Same, ZeroResult, HasException

\* What the pattern table and the scan for a traceparent make of a Result.
Matched(r, e) ==
  IF e.matched THEN [ApplyCaptures(r, e.got) EXCEPT !.Format = "pattern"] ELSE r
Correlated(r, p) ==
  IF p # NoIDs THEN [r EXCEPT !.TraceID = p.trace, !.SpanID = p.span, !.Format = "pattern"]
  ELSE r

\* The pattern table.
LEMMA PatternsTold ==
  ASSUME NEW fr \in FrameType, Told(fr), fr.line.kind = "text",
         fr.line.entry \in EntryOutcome, fr.at = "patterns",
         NEW g, g.at = "traceparent", g.line = fr.line, g.lifted = fr.lifted,
         g.res = Matched(fr.res, fr.line.entry)
  PROVE  Told(g)
<1> DEFINE e == fr.line.entry
           q == [ApplyCaptures(fr.res, e.got) EXCEPT !.Format = "pattern"]
<1>0. Leftover(fr.res, Outcome(fr.line.pairs))
  BY DEF Told, Plain
<1>1. Unread(fr.res) /\ DOMAIN fr.res = DOMAIN ZeroResult
  BY <1>0 DEF Leftover, FrameType, Result, ZeroResult
<1>2. e.matched => e.got \in Captures
  BY DEF EntryOutcome
<1>3. e.matched => q.Format = "pattern" /\ Loud(q)
  BY <1>1, <1>2, CapturesTell
<1>4. (e.matched => g.res = q) /\ (~ e.matched => g.res = fr.res)
  BY Zenon DEF Matched
<1> HIDE DEF q
<1>5. Loud(g.res)
  BY <1>1, <1>3, <1>4, UnreadIsQuiet DEF Loud
<1>6. Visible(g.res)
  BY <1>5, NoTextIsNoLevel DEF Loud, Visible
<1>7. BenignMessage(fr.line.body) => g.res.Severity = NoText
  BY <1>1, <1>4, UnreadIsQuiet DEF Told, Bare
<1>8. g.res.Format = "" => Leftover(g.res, Outcome(g.line.pairs))
  BY <1>0, <1>3, <1>4
<1> HIDE DEF e
<1>9. Plain(g)
  BY <1>5, <1>7, <1>8 DEF Loud, Plain
<1>10. QED
  BY <1>6, <1>9, TextMoved

\* The scan for a traceparent.
LEMMA ParentScanTold ==
  ASSUME NEW fr \in FrameType, Told(fr), fr.line.kind = "text", fr.at = "traceparent",
         NEW p, NEW g, g.at = "finish", g.line = fr.line, g.lifted = fr.lifted,
         g.res = Correlated(fr.res, p)
  PROVE  Told(g)
<1> DEFINE r == fr.res
           q == [r EXCEPT !.TraceID = p.trace, !.SpanID = p.span, !.Format = "pattern"]
<1>1. r \in Result
  BY DEF FrameType
<1>2. /\ q.Format = "pattern" /\ q.HTTPStatusCode = r.HTTPStatusCode
      /\ q.Severity = r.Severity /\ q.ExceptionType = r.ExceptionType
      /\ q.ExceptionMessage = r.ExceptionMessage
      /\ q.ExceptionStackTrace = r.ExceptionStackTrace
  BY <1>1 DEF Result
<1>3. g.res = q \/ g.res = r
  BY Zenon DEF Correlated
<1> HIDE DEF q
<1>4. /\ g.res.HTTPStatusCode = r.HTTPStatusCode /\ g.res.Severity = r.Severity
      /\ HasException(g.res) <=> HasException(r)
      /\ g.res.Format = "" => g.res = r
  BY <1>2, <1>3 DEF HasException
<1>5. /\ r.Format = "" => Leftover(r, Outcome(fr.line.pairs))
      /\ r.HTTPStatusCode >= 400 => r.Severity \in Levels \ {"info"}
      /\ HasException(r) => SeverityFromText(r.Severity).text # NoText
      /\ BenignMessage(fr.line.body) => r.Severity = NoText
  BY DEF Told, Plain
<1>6. Visible(g.res)
  BY <1>4, <1>5, NoTextIsNoLevel DEF Visible
<1>7. Plain(g)
  BY <1>4, <1>5 DEF Plain
<1>8. QED
  BY <1>6, <1>7, TextMoved

-----------------------------------------------------------------------------
(* One call: the embedded lines of a record *)

\* A step of a record before its own levels are looked at.
LEMMA JsonBegun ==
  ASSUME NEW fr \in FrameType, Told(fr), fr.line.kind = "json", fr.at \in Unhinted,
         NEW g, g.at \in Unhinted, g.line = fr.line, g.lifted = fr.lifted,
         Restated(fr.res, g.res), Silent(fr.line.f) => g.res = fr.res,
         ~ FailureReported(fr.line.f) => g.res = fr.res,
         Begun(g)
  PROVE  Told(g)
<1>1. fr.res \in Result /\ g.at # "done" /\ fr.at # "done"
  BY DEF FrameType, Unhinted
<1>2. /\ Identified(g) /\ Worded(g) /\ Echoed(g)
      /\ Visible(fr.res) => Visible(g.res)
  BY <1>1, GradedStep
<1>3. Lifts(g) /\ LastLevel(g) = LastLevel(fr)
  BY SameHistory DEF Told
<1>4. Settled(g)
  BY <1>3 DEF Told, Accounted, Settled, Unhinted, Hinted
<1>5. Bare(g) /\ Ended(g) /\ Shown(g)
  BY <1>1, <1>2 DEF Told, Bare, Ended, Shown
<1>6. Accounted(g)
  BY <1>2, <1>4 DEF Accounted, Unhinted
<1>7. QED
  BY <1>3, <1>5, <1>6 DEF Told

\* The same, when the Result is left alone: the decoder, a plain status code, a
\* record without "log", and a caller that waits for an embedded line.
LEMMA JsonWaits ==
  ASSUME NEW fr \in FrameType, Told(fr), fr.line.kind = "json", fr.at \in Unhinted,
         NEW g, g.at \in Unhinted, g.line = fr.line, g.lifted = fr.lifted,
         g.res = fr.res, Begun(g)
  PROVE  Told(g)
<1>1. Restated(fr.res, g.res)
  BY StayRegraded DEF Regraded, FrameType
<1>2. QED
  BY <1>1, JsonBegun

\* The status code of a decoded properties.response.
LEMMA ResponseTold ==
  ASSUME NEW fr \in FrameType, Told(fr), fr.line.kind = "json", fr.line.f \in Fields,
         fr.at = "properties", ~ fr.line.f.propertiesLog, fr.line.f.response # Absent,
         NEW g, g.at = "log", g.line = fr.line, g.lifted = fr.lifted, g.code = fr.code,
         g.res = IF IsInt(fr.line.f.response)
                   THEN SetHTTPResponseCode(fr.res, fr.line.f.response, "Failure")
                   ELSE fr.res
  PROVE  Told(g)
<1> DEFINE f == fr.line.f
           q == SetHTTPResponseCode(fr.res, f.response, "Failure")
<1>1. fr.res \in Result /\ f.response \in Int
  BY DEF FrameType, Fields
<1>2. Restated(fr.res, q) /\ (f.response \notin 0..599 => q = fr.res)
  BY <1>1, CodeRegraded
<1>3. Restated(fr.res, fr.res)
  BY <1>1, StayRegraded DEF Regraded
<1>4. ~ Silent(f)
  BY DEF Silent
<1>5. g.res = q \/ g.res = fr.res
  BY Zenon
<1> HIDE DEF q
<1>6. /\ Restated(fr.res, g.res)
      /\ f.response \notin 0..599 => g.res = fr.res
  BY <1>2, <1>3, <1>5
<1>7. ~ FailureReported(f) => g.res = fr.res
  BY <1>6 DEF FailureReported
<1>8. Begun(g)
  BY DEF Told, Begun
<1>9. fr.at \in Unhinted /\ g.at \in Unhinted
  BY DEF Unhinted
<1>10. QED
  BY <1>4, <1>6, <1>7, <1>8, <1>9, JsonBegun

\* One more line lifted: what is carried is what it carries, else what was.
LEMMA OneMoreLifted ==
  ASSUME NEW fr \in FrameType, NEW h, NEW g, g.lifted = Append(fr.lifted, h),
         NEW id
  PROVE  /\ Carried(g, id) = IF h.res[id] # NoID THEN h.res[id] ELSE Carried(fr, id)
         /\ LastLevel(g) = IF h.res.Severity # NoText THEN h.res.Severity ELSE LastLevel(fr)
         /\ LiftedWords(g) = IF Speaks(h) THEN Words(h) ELSE LiftedWords(fr)
<1> DEFINE n == Len(fr.lifted)
           K(k) == g.lifted[k].res
<1>1. /\ n \in Nat /\ DOMAIN fr.lifted = 1..n /\ DOMAIN g.lifted = 1..(n + 1)
      /\ g.lifted[n + 1] = h /\ \A k \in 1..n : g.lifted[k] = fr.lifted[k]
  BY DEF FrameType
<1>2. Carried(g, id) = IF h.res[id] # NoID THEN h.res[id] ELSE Carried(fr, id)
  <2> DEFINE S == {k \in DOMAIN fr.lifted : fr.lifted[k].res[id] # NoID}
             T == {k \in DOMAIN g.lifted : g.lifted[k].res[id] # NoID}
  <2>1. S \subseteq 1..n
    BY <1>1
  <2>2. CASE h.res[id] # NoID
    <3>1. T = S \cup {n + 1}
      BY <1>1, <2>2
    <3>2. Max(T) = n + 1
      BY <1>1, <2>1, <3>1, LastIsGreatest
    <3>3. T # {}
      BY <3>1
    <3>4. Carried(g, id) = g.lifted[Max(T)].res[id]
      BY <3>3 DEF Carried
    <3>5. QED
      BY <1>1, <2>2, <3>2, <3>4
  <2>3. CASE h.res[id] = NoID
    <3>1. T = S
      BY <1>1, <2>3
    <3>2. S # {} => Max(S) \in S
      BY <1>1, <2>1, MaxIsGreatest
    <3>3. S # {} => g.lifted[Max(S)] = fr.lifted[Max(S)]
      BY <1>1, <2>1, <3>2
    <3>4. Carried(g, id) = IF T = {} THEN NoID ELSE g.lifted[Max(T)].res[id]
      BY Zenon DEF Carried
    <3>5. Carried(fr, id) = IF S = {} THEN NoID ELSE fr.lifted[Max(S)].res[id]
      BY Zenon DEF Carried
    <3> HIDE DEF S, T
    <3>6. QED
      BY <2>3, <3>1, <3>3, <3>4, <3>5
  <2>4. QED
    BY <2>2, <2>3
<1>3. LastLevel(g) = IF h.res.Severity # NoText THEN h.res.Severity ELSE LastLevel(fr)
  <2> DEFINE S == LiftedLevels(fr)
             T == LiftedLevels(g)
  <2>1. S \subseteq 1..n
    BY <1>1 DEF LiftedLevels
  <2>2. CASE h.res.Severity # NoText
    <3>1. T = S \cup {n + 1}
      BY <1>1, <2>2 DEF LiftedLevels
    <3>2. Max(T) = n + 1
      BY <1>1, <2>1, <3>1, LastIsGreatest
    <3>3. T # {}
      BY <3>1
    <3>4. LastLevel(g) = g.lifted[Max(T)].res.Severity
      BY <3>3 DEF LastLevel
    <3>5. QED
      BY <1>1, <2>2, <3>2, <3>4
  <2>3. CASE h.res.Severity = NoText
    <3>1. T = S
      BY <1>1, <2>3 DEF LiftedLevels
    <3>2. S # {} => Max(S) \in S
      BY <1>1, <2>1, MaxIsGreatest
    <3>3. S # {} => g.lifted[Max(S)] = fr.lifted[Max(S)]
      BY <1>1, <2>1, <3>2
    <3>4. /\ LastLevel(g) = IF T # {} THEN g.lifted[Max(T)].res.Severity ELSE NoText
          /\ LastLevel(fr) = IF S # {} THEN fr.lifted[Max(S)].res.Severity ELSE NoText
      BY Zenon DEF LastLevel
    <3> HIDE DEF S, T
    <3>5. QED
      BY <2>3, <3>1, <3>3, <3>4
  <2>4. QED
    BY <2>2, <2>3
<1>4. LiftedWords(g) = IF Speaks(h) THEN Words(h) ELSE LiftedWords(fr)
  <2> DEFINE S == Spoken(fr)
             T == Spoken(g)
  <2>1. S \subseteq 1..n
    BY <1>1 DEF Spoken
  <2>2. CASE Speaks(h)
    <3>1. T = S \cup {n + 1}
      BY <1>1, <2>2 DEF Spoken
    <3>2. Max(T) = n + 1
      BY <1>1, <2>1, <3>1, LastIsGreatest
    <3>3. T # {}
      BY <3>1
    <3>4. LiftedWords(g) = Words(g.lifted[Max(T)])
      BY <3>3 DEF LiftedWords
    <3>5. QED
      BY <1>1, <2>2, <3>2, <3>4
  <2>3. CASE ~ Speaks(h)
    <3>1. T = S
      BY <1>1, <2>3 DEF Spoken
    <3>2. S # {} => Max(S) \in S
      BY <1>1, <2>1, MaxIsGreatest
    <3>3. S # {} => g.lifted[Max(S)] = fr.lifted[Max(S)]
      BY <1>1, <2>1, <3>2
    <3>4. /\ LiftedWords(g) = IF T = {} THEN NoText ELSE Words(g.lifted[Max(T)])
          /\ LiftedWords(fr) = IF S = {} THEN NoText ELSE Words(fr.lifted[Max(S)])
      BY Zenon DEF LiftedWords
    <3> HIDE DEF S, T
    <3>5. QED
      BY <2>3, <3>1, <3>3, <3>4
  <2>4. QED
    BY <2>2, <2>3
<1>5. QED
  BY <1>2, <1>3, <1>4

\* The fields of the Result a call starts with.
LEMMA NothingYet ==
  /\ ZeroResult.HTTPStatusCode = 0
  /\ ZeroResult.Severity = NoText /\ ZeroResult.SeverityNumber = 0
  /\ ZeroResult.TraceID = NoID /\ ZeroResult.SpanID = NoID /\ ZeroResult.Message = NoText
BY DEF ZeroResult

\* The first line a record lifts finds a Result that holds nothing, unless a
\* decoded response came before it.
LEMMA FirstLifted ==
  ASSUME NEW fr, Told(fr), fr.line.kind = "json", fr.at \in {"mergeProperties", "mergeLog"}
  PROVE  /\ OneSubject(fr.line.f) => fr.res = ZeroResult
         /\ Silent(fr.line.f) /\ fr.lifted = <<>> => fr.res = ZeroResult
<1>1. Silent(fr.line.f) => fr.line.f.response = Absent
  BY DEF Silent
<1>2. QED
  BY <1>1 DEF Told, Begun, OneSubject

\* What a silent record lifts into nothing, it repeats.
LEMMA MergeEchoes ==
  ASSUME NEW n \in Result, Zoned(n), NEW body \in MessageField
  PROVE  LET q == MergeNested(ZeroResult, n, body)
         IN  /\ Same(n, q, LiftedFields)
             /\ q.Message = LiftedMessage([res |-> n, body |-> body])
<1> DEFINE q == MergeNested(ZeroResult, n, body)
           z == ZeroResult
<1>1. z \in Result
  BY ZeroFine DEF Fine
<1>2. /\ q.Time = IF n.Time # NoTime THEN n.Time ELSE z.Time
      /\ q.TimeHasZone = IF n.Time # NoTime THEN n.TimeHasZone ELSE z.TimeHasZone
      /\ \A x \in {"TraceID", "SpanID", "Severity", "Template", "Service", "SourceContext",
                   "ExceptionType", "ExceptionMessage", "ExceptionStackTrace"} :
           q[x] = SetIfSet(z[x], n[x])
      /\ \A x \in {"SeverityNumber", "HTTPStatusCode"} :
           q[x] = IF n[x] # 0 THEN n[x] ELSE z[x]
      /\ q.Message = IF n.Message # NoText THEN n.Message
                     ELSE IF n.Format # "json" THEN body ELSE z.Message
  BY <1>1, MergeTells
<1> HIDE DEF q
<1>3. /\ z.Time = NoTime /\ z.TimeHasZone = FALSE /\ z.Message = NoText
      /\ \A x \in {"TraceID", "SpanID", "Severity", "Template", "Service", "SourceContext",
                   "ExceptionType", "ExceptionMessage", "ExceptionStackTrace"} : z[x] = NoText
      /\ \A x \in {"SeverityNumber", "HTTPStatusCode"} : z[x] = 0
  BY DEF ZeroResult, NoText, NoID
<1> HIDE DEF z
<1>4. n.TimeHasZone \in BOOLEAN
  BY DEF Result
<1>5. n.Time = NoTime => n.TimeHasZone = FALSE
  BY <1>4, LogfmtAssumption DEF Zoned
<1>6. q.Time = n.Time /\ q.TimeHasZone = n.TimeHasZone
  BY <1>2, <1>3, <1>5
<1>7. \A x \in {"TraceID", "SpanID", "Severity", "Template", "Service", "SourceContext",
                "ExceptionType", "ExceptionMessage", "ExceptionStackTrace"} : q[x] = n[x]
  BY <1>2, <1>3 DEF SetIfSet
<1>8. \A x \in {"SeverityNumber", "HTTPStatusCode"} : q[x] = n[x]
  BY <1>2, <1>3
<1>9. Same(n, q, LiftedFields)
  BY <1>6, <1>7, <1>8 DEF Same, LiftedFields
<1>10. q.Message = LiftedMessage([res |-> n, body |-> body])
  BY <1>2, <1>3 DEF LiftedMessage
<1>11. QED
  BY <1>9, <1>10 DEF q

\* An embedded line is lifted.
LEMMA MergeTold ==
  ASSUME NEW fr \in FrameType, Told(fr), fr.line.kind = "json",
         NEW h \in Handed, Delivered(h), NEW g,
         \/ fr.at = "mergeProperties" /\ g.at = "log"
         \/ fr.at = "mergeLog" /\ g.at = "envelope",
         g.line = fr.line, g.lifted = Append(fr.lifted, h), g.code = fr.code,
         g.res = MergeNested(fr.res, h.res, h.body)
  PROVE  Told(g)
<1> DEFINE f == fr.line.f
           r == fr.res
           q == g.res
           n == h.res
<1>1. r \in Result /\ n \in Result /\ h.body \in MessageField
  BY DEF FrameType, Handed
<1>2. /\ Len(fr.lifted) \in Nat
      /\ DOMAIN g.lifted = 1..(Len(fr.lifted) + 1) /\ Len(g.lifted) = Len(fr.lifted) + 1
      /\ DOMAIN fr.lifted = 1..Len(fr.lifted)
      /\ g.lifted[Len(fr.lifted) + 1] = h
      /\ \A k \in 1..Len(fr.lifted) : g.lifted[k] = fr.lifted[k]
      /\ Len(fr.lifted) = 0 => fr.lifted = <<>>
  BY DEF FrameType
<1>3. /\ \A x \in {"TraceID", "SpanID", "Severity"} : q[x] = SetIfSet(r[x], n[x])
      /\ q.HTTPStatusCode = IF n.HTTPStatusCode # 0 THEN n.HTTPStatusCode ELSE r.HTTPStatusCode
      /\ q.Message = IF n.Message # NoText THEN n.Message
                     ELSE IF n.Format # "json" THEN h.body ELSE r.Message
  BY <1>1, MergeTells
<1>4. /\ fr.at \in Unhinted /\ g.at \in Unhinted \ {"mergeLog", "mergeProperties"}
      /\ g.at \notin {"decode", "properties", "logfmt", "done", "finish", "metadata"}
      /\ g.at \notin Hinted /\ g.at \notin {"codes", "pino", "finish"}
  BY DEF Unhinted, Hinted
<1>5. Lifts(g)
  BY <1>2 DEF Told, Lifts
<1>6. Begun(g)
  <2>1. g.lifted # <<>>
    BY <1>2
  <2>2. g.at = "log" => f.propertiesLog
    BY DEF Told, Begun
  <2>3. QED
    BY <1>4, <2>1, <2>2 DEF Told, Begun
<1>7. Bare(g) /\ Ended(g)
  BY <1>4 DEF Told, Bare, Ended
<1>8. Shown(g)
  <2> SUFFICES ASSUME OneSubject(f), \A k \in DOMAIN g.lifted : Visible(g.lifted[k].res)
               PROVE  Visible(q)
    BY DEF Shown
  <2>1. Visible(n)
    BY <1>2
  <2>2. r.HTTPStatusCode = 0 /\ r.Severity = NoText
    <3>1. fr.at \in {"mergeProperties", "mergeLog"}
      OBVIOUS
    <3>2. r = ZeroResult
      BY <3>1, FirstLifted
    <3>3. QED
      BY <3>2, NothingYet
  <2>3. q.HTTPStatusCode = n.HTTPStatusCode /\ q.Severity = n.Severity
    BY <1>3, <2>2 DEF SetIfSet
  <2>4. QED
    BY <2>1, <2>3 DEF Visible
<1>9. Identified(g)
  <2>1. r.TraceID = Carried(fr, "TraceID") /\ r.SpanID = Carried(fr, "SpanID")
    BY <1>4 DEF Told, Accounted, Identified
  <2>2. /\ Carried(g, "TraceID") = IF n.TraceID # NoID THEN n.TraceID ELSE Carried(fr, "TraceID")
        /\ Carried(g, "SpanID") = IF n.SpanID # NoID THEN n.SpanID ELSE Carried(fr, "SpanID")
    BY OneMoreLifted
  <2>3. q.TraceID = Carried(g, "TraceID") /\ q.SpanID = Carried(g, "SpanID")
    BY <1>3, <2>1, <2>2 DEF SetIfSet, NoText, NoID
  <2>4. QED
    BY <1>4, <2>3 DEF Identified
<1>10. Settled(g)
  <2>1. LastLevel(g) = IF n.Severity # NoText THEN n.Severity ELSE LastLevel(fr)
    BY OneMoreLifted
  <2>2. ~ FailureReported(f) => r.Severity = LastLevel(fr)
    BY <1>4 DEF Told, Accounted, Settled
  <2>3. ~ FailureReported(f) => q.Severity = LastLevel(g)
    BY <1>3, <2>1, <2>2 DEF SetIfSet
  <2>4. QED
    BY <1>4, <2>3 DEF Settled
<1>11. Worded(g)
  <2>1. r.Message = LiftedWords(fr)
    BY <1>4 DEF Told, Accounted, Worded
  <2>2. LiftedWords(g) = IF Speaks(h) THEN Words(h) ELSE LiftedWords(fr)
    BY OneMoreLifted
  <2>3. q.Message = LiftedWords(g)
    BY <1>3, <2>1, <2>2 DEF Speaks, Words
  <2>4. QED
    BY <1>4, <2>3 DEF Worded
<1>12. Echoed(g)
  <2> SUFFICES ASSUME Silent(f), Len(g.lifted) = 1
               PROVE  /\ Same(g.lifted[1].res, q, LiftedFields)
                      /\ q.Message = LiftedMessage(g.lifted[1])
    BY DEF Echoed
  <2>1. g.lifted[1] = h /\ fr.lifted = <<>>
    BY <1>2
  <2>2. r = ZeroResult
    BY <2>1, FirstLifted
  <2>3. Zoned(n)
    BY DEF Delivered
  <2>4. /\ Same(n, q, LiftedFields)
        /\ q.Message = LiftedMessage([res |-> n, body |-> h.body])
    BY <1>1, <2>2, <2>3, MergeEchoes
  <2>5. QED
    BY <2>1, <2>4 DEF LiftedMessage
<1>13. QED
  BY <1>4, <1>5, <1>6, <1>7, <1>8, <1>9, <1>10, <1>11, <1>12 DEF Told, Accounted

-----------------------------------------------------------------------------
(* The stack of calls, and what it can tell *)

\* A call begins with nothing to tell.
LEMMA FrameTold ==
  ASSUME NEW d \in 1..MaxDepth, NEW l \in LinesAt[d]
  PROVE  Told(Frame(l))
<1> DEFINE g == Frame(l)
<1>1. /\ g.line = l /\ g.at = "decode" /\ g.res = ZeroResult /\ g.code = Absent
      /\ g.lifted = <<>> /\ DOMAIN g.lifted = {} /\ Len(g.lifted) = 0
  BY DEF Frame
<1> HIDE DEF g
<1>2. Lifts(g) /\ Begun(g)
  BY <1>1 DEF Lifts, Begun
<1>3. Bare(g)
  BY <1>1, BenignLinesAssumption DEF Bare
<1>4. Shown(g)
  BY <1>1, NothingYet DEF Shown, Visible
<1>5. Ended(g) /\ Plain(g)
  BY <1>1 DEF Ended, Plain
<1>6. /\ LiftedLevels(g) = {} /\ LiftedWords(g) = NoText
      /\ \A id : Carried(g, id) = NoID
  BY <1>1 DEF LiftedLevels, Carried, LiftedWords, Spoken
<1>7. Identified(g)
  BY <1>1, <1>6, NothingYet DEF Identified, Unhinted
<1>8. Settled(g)
  BY <1>1, <1>6, NothingYet DEF Settled, LastLevel, Hinted
<1>9. Worded(g) /\ Echoed(g)
  BY <1>1, <1>6, NothingYet DEF Worded, Echoed, Unhinted
<1>10. Accounted(g)
  BY <1>1, <1>7, <1>8, <1>9 DEF Accounted
<1>11. QED
  BY <1>2, <1>3, <1>4, <1>5, <1>10 DEF Told, g

\* Nothing handed over tells nothing.
LEMMA NothingDelivered == Delivered(NoReturn)
<1>1. NoReturn.res = ZeroResult /\ NoReturn.body = NoText
  BY DEF NoReturn
<1>2. Zoned(ZeroResult) /\ Agrees(ZeroResult)
  BY ZeroFine, NothingYet DEF Fine, Agrees, SeverityFromNumber
<1>3. ~ Benign(ZeroResult) /\ Alarmed(ZeroResult)
  BY DEF Benign, Alarmed, HasException, ZeroResult, NoText
<1>4. QED
  BY <1>1, <1>2, <1>3, BenignTexts DEF Delivered

\* The call on top has told.
LEMMA TopTold ==
  ASSUME HInv
  PROVE  Told(Top) /\ Tidy(Top) /\ Delivered(returned) /\ Top \in FrameType
<1>1. Len(frames) \in DOMAIN frames /\ Top \in FrameType
  BY TopTyped DEF HInv, LInv
<1>2. QED
  BY <1>1 DEF HInv, AllTold, LInv, AllTidy, Top

\* A new top of the stack that has told.
LEMMA TopRetold ==
  ASSUME HInv, NEW fr, Told(fr),
         frames' = [frames EXCEPT ![Len(frames)] = fr], Delivered(returned)'
  PROVE  AllTold'
<1>1. frames \in Seq(FrameType) /\ Len(frames) \in DOMAIN frames
  BY TopTyped DEF HInv, LInv, IInv, TypeOK
<1>2. /\ DOMAIN frames' = DOMAIN frames
      /\ \A j \in DOMAIN frames : frames'[j] = IF j = Len(frames) THEN fr ELSE frames[j]
  BY <1>1
<1>3. QED
  BY <1>2 DEF HInv, AllTold

\* A step of the call on top.
LEMMA StepTold ==
  ASSUME HInv, NEW a, NEW b, NEW r, Step(a, b, r),
         ASSUME NEW g, g.at = b, g.line = Top.line, g.lifted = Top.lifted,
                g.code = Top.code, g.res = r
         PROVE  Told(g)
  PROVE  AllTold'
<1> DEFINE fr == [Top EXCEPT !.at = b, !.res = r]
<1>1. Top \in FrameType /\ Len(frames) \in DOMAIN frames
  BY TopTyped DEF HInv, LInv
<1>2. /\ fr.at = b /\ fr.res = r /\ fr.line = Top.line /\ fr.lifted = Top.lifted
      /\ fr.code = Top.code
  BY <1>1 DEF FrameType
<1>3. frames' = [frames EXCEPT ![Len(frames)] = fr]
  BY <1>1 DEF Step, Top
<1>4. Delivered(returned)'
  BY DEF Step, HInv, AllTold
<1> HIDE DEF fr
<1>5. Told(fr)
  BY <1>2
<1>6. QED
  BY <1>3, <1>4, <1>5, TopRetold

\* applyJSON, paragraph by paragraph.
LEMMA ParagraphsTold ==
  ASSUME HInv,
         \/ PropertiesResponse \/ NoLog \/ Envelope \/ ApplySeverityHints \/ ApplyMetadata
         \/ ApplyResponseCode \/ Pino
  PROVE  AllTold'
<1>1. /\ Top.at \in JsonPlaces /\ Top.line.kind = "json" /\ Top.line.f \in Fields
      /\ Top.code \in Int
  <2>1. Top.at \in JsonPlaces
    BY DEF PropertiesResponse, NoLog, Envelope, ApplySeverityHints, ApplyMetadata,
           ApplyResponseCode, Pino, Step, JsonPlaces
  <2>2. QED
    BY <2>1, TopTyped, LineTyped DEF HInv, LInv, Fits
<1>2. Told(Top) /\ Top \in FrameType
  BY TopTold
<1>3. CASE PropertiesResponse
  <2> DEFINE r == IF IsInt(F.response) THEN SetHTTPResponseCode(Top.res, F.response, "Failure")
                  ELSE Top.res
  <2>1. /\ Step("properties", "log", r) /\ Top.at = "properties"
        /\ ~ F.propertiesLog /\ F.response # Absent
    BY <1>3 DEF PropertiesResponse
  <2>2. ASSUME NEW g, g.at = "log", g.line = Top.line, g.lifted = Top.lifted,
               g.code = Top.code, g.res = r
        PROVE  Told(g)
    BY <1>1, <1>2, <2>1, <2>2, ResponseTold DEF F
  <2> HIDE DEF r
  <2>3. QED
    BY <2>1, <2>2, StepTold
<1>4. CASE NoLog
  <2>1. Step("log", "envelope", Top.res) /\ Top.at = "log"
    BY <1>4 DEF NoLog
  <2>2. ASSUME NEW g, g.at = "envelope", g.line = Top.line, g.lifted = Top.lifted,
               g.code = Top.code, g.res = Top.res
        PROVE  Told(g)
    <3>1. Begun(g)
      BY <1>1, <1>2, <2>1, <2>2 DEF Told, Begun
    <3>2. Top.at \in Unhinted /\ g.at \in Unhinted
      BY <2>1, <2>2 DEF Unhinted
    <3>3. QED
      BY <1>1, <1>2, <2>2, <3>1, <3>2, JsonWaits
  <2>3. QED
    BY <2>1, <2>2, StepTold
<1>5. CASE Envelope
  <2> DEFINE r == EnvelopeTime(EnvelopeStatus(Top.res, F), F)
  <2>1. Step("envelope", "hints", r) /\ Top.at = "envelope"
    BY <1>5 DEF Envelope, Step
  <2>2. ASSUME NEW g, g.at = "hints", g.line = Top.line, g.lifted = Top.lifted,
               g.code = Top.code, g.res = r
        PROVE  Told(g)
    BY <1>1, <1>2, <2>1, <2>2, EnvelopeTold DEF F
  <2> HIDE DEF r
  <2>3. QED
    BY <2>1, <2>2, StepTold
<1>6. CASE ApplySeverityHints
  <2> DEFINE r == GrpcHint(OTLPHint(MongoHint(LevelHint(Top.res, F), F), F), F)
  <2>1. Step("hints", "metadata", r) /\ Top.at = "hints"
    BY <1>6 DEF ApplySeverityHints, Step
  <2>2. ASSUME NEW g, g.at = "metadata", g.line = Top.line, g.lifted = Top.lifted,
               g.code = Top.code, g.res = r
        PROVE  Told(g)
    BY <1>1, <1>2, <2>1, <2>2, HintsTold DEF F
  <2> HIDE DEF r
  <2>3. QED
    BY <2>1, <2>2, StepTold
<1>7. CASE ApplyMetadata
  <2> DEFINE r == ExceptionIsError(Except(Describe(Identify(Top.res, F), F), F))
  <2>1. Step("metadata", "codes", r) /\ Top.at = "metadata"
    BY <1>7 DEF ApplyMetadata, Step
  <2>2. ASSUME NEW g, g.at = "codes", g.line = Top.line, g.lifted = Top.lifted,
               g.code = Top.code, g.res = r
        PROVE  Told(g)
    BY <1>1, <1>2, <2>1, <2>2, MetadataTold DEF F
  <2> HIDE DEF r
  <2>3. QED
    BY <2>1, <2>2, StepTold
<1>8. CASE ApplyResponseCode
  <2> DEFINE code == IF F.ResponseCode # Absent THEN F.ResponseCode ELSE Top.code
             r == ResponseCode(ResultStatus(Top.res, F), F, code)
  <2>1. /\ code \in Int /\ code \in {Top.line.f.ResponseCode, Top.code}
        /\ Top.line.f.ResponseCode = Absent => code = Top.code
    BY <1>1 DEF Fields, F
  <2>2. Step("codes", "pino", r) /\ Top.at = "codes"
    BY <1>8 DEF ApplyResponseCode, Step
  <2> HIDE DEF code
  <2>3. ASSUME NEW g, g.at = "pino", g.line = Top.line, g.lifted = Top.lifted,
               g.code = Top.code, g.res = r
        PROVE  Told(g)
    BY <1>1, <1>2, <2>1, <2>2, <2>3, CodesTold DEF F
  <2> HIDE DEF r
  <2>4. QED
    BY <2>2, <2>3, StepTold
<1>9. CASE Pino
  <2> DEFINE r == Numbered(Top.res, F)
  <2>1. Step("pino", "finish", r) /\ Top.at = "pino"
    BY <1>9, Zenon DEF Pino, Numbered, Step
  <2>2. ASSUME NEW g, g.at = "finish", g.line = Top.line, g.lifted = Top.lifted,
               g.code = Top.code, g.res = r
        PROVE  Told(g)
    BY <1>1, <1>2, <2>1, <2>2, PinoTold DEF F
  <2> HIDE DEF r
  <2>3. QED
    BY <2>1, <2>2, StepTold
<1>10. QED
  BY <1>3, <1>4, <1>5, <1>6, <1>7, <1>8, <1>9

\* The steps of every other line.
LEMMA TextTold ==
  ASSUME HInv, LogFmt \/ Patterns \/ ScanForTraceparent
  PROVE  AllTold'
<1>1. /\ Top.line.kind = "text"
      /\ Top.line.pairs \in Seq(Pair) /\ Top.line.entry \in EntryOutcome
  <2>1. Top.at \in TextPlaces
    BY DEF LogFmt, Patterns, ScanForTraceparent, Step, TextPlaces
  <2>2. QED
    BY <2>1, TopTyped, LineTyped DEF HInv, LInv, Fits
<1>2. Told(Top) /\ Top \in FrameType
  BY TopTold
<1>3. CASE LogFmt
  <2> DEFINE o == Outcome(Top.line.pairs)
             r == Scanned(Top.res, o)
             claimed == [r EXCEPT !.Format = "logfmt"]
  <2>1. /\ Top.at = "logfmt"
        /\ IF o.claimed THEN Step("logfmt", "finish", claimed)
           ELSE Step("logfmt", "patterns", r)
    BY <1>3, Zenon DEF LogFmt, Scanned
  <2>2. ASSUME NEW g, g.line = Top.line, g.lifted = Top.lifted,
               \/ o.claimed /\ g.at = "finish" /\ g.res = claimed
               \/ ~ o.claimed /\ g.at = "patterns" /\ g.res = r
        PROVE  Told(g)
    BY <1>1, <1>2, <2>1, <2>2, LogfmtTold
  <2> HIDE DEF o, r, claimed
  <2>3. CASE o.claimed
    BY <2>1, <2>2, <2>3, StepTold
  <2>4. CASE ~ o.claimed
    BY <2>1, <2>2, <2>4, StepTold
  <2>5. QED
    BY <2>3, <2>4
<1>4. CASE Patterns
  <2> DEFINE r == Matched(Top.res, Top.line.entry)
  <2>1. Step("patterns", "traceparent", r) /\ Top.at = "patterns"
    BY <1>4, Zenon DEF Patterns, Matched, Step
  <2>2. ASSUME NEW g, g.at = "traceparent", g.line = Top.line, g.lifted = Top.lifted,
               g.code = Top.code, g.res = r
        PROVE  Told(g)
    BY <1>1, <1>2, <2>1, <2>2, PatternsTold
  <2> HIDE DEF r
  <2>3. QED
    BY <2>1, <2>2, StepTold
<1>5. CASE ScanForTraceparent
  <2> DEFINE p == ScanTraceparent(Top.line.parent)
             r == Correlated(Top.res, p)
  <2>1. Step("traceparent", "finish", r) /\ Top.at = "traceparent"
    BY <1>5, Zenon DEF ScanForTraceparent, Correlated, Step
  <2> HIDE DEF p
  <2>2. ASSUME NEW g, g.at = "finish", g.line = Top.line, g.lifted = Top.lifted,
               g.code = Top.code, g.res = r
        PROVE  Told(g)
    BY <1>1, <1>2, <2>1, <2>2, ParentScanTold
  <2> HIDE DEF r
  <2>3. QED
    BY <2>1, <2>2, StepTold
<1>6. QED
  BY <1>3, <1>4, <1>5

\* Where a line turns out to be JSON or not, and where the call ends.
LEMMA EndTold ==
  ASSUME HInv, Decode \/ Finish \/ PropertiesStatusCode
  PROVE  AllTold'
<1>1. Told(Top) /\ Tidy(Top) /\ Top \in FrameType /\ Top.line.kind \in {"json", "text"}
  BY TopTold, TopTyped, LineTyped DEF HInv, LInv
<1>2. CASE Decode
  <2> DEFINE b == IF Top.line.kind = "json" THEN "properties" ELSE "logfmt"
  <2>1. Step("decode", b, Top.res) /\ Top.at = "decode"
    BY <1>2 DEF Decode, Step
  <2>2. ASSUME NEW g, g.at = b, g.line = Top.line, g.lifted = Top.lifted,
               g.code = Top.code, g.res = Top.res
        PROVE  Told(g)
    <3>1. Top.res = ZeroResult /\ Top.lifted = <<>> /\ Top.code = Absent
      BY <1>1, <2>1 DEF Told, Begun
    <3>2. CASE Top.line.kind = "json"
      <4>1. g.at = "properties" /\ g.at \in Unhinted /\ Top.at \in Unhinted
        BY <2>1, <2>2, <3>2 DEF Unhinted
      <4>2. Begun(g)
        BY <2>2, <3>1, <3>2, <4>1 DEF Begun
      <4>3. QED
        BY <1>1, <2>2, <3>2, <4>1, <4>2, JsonWaits
    <3>3. CASE Top.line.kind = "text"
      <4>1. g.at = "logfmt"
        BY <2>2, <3>3
      <4>2. Plain(g) /\ Visible(g.res)
        BY <2>2, <3>1, <4>1, NothingYet DEF Plain, Visible
      <4>3. QED
        BY <1>1, <2>2, <3>1, <3>3, <4>1, <4>2, TextMoved
    <3>4. QED
      BY <1>1, <3>2, <3>3
  <2> HIDE DEF b
  <2>3. QED
    BY <2>1, <2>2, StepTold
<1>3. CASE Finish
  <2> DEFINE r == Downgrade(Normalize(Top.res))
  <2>1. Step("finish", "done", r) /\ Top.at = "finish"
    BY <1>3 DEF Finish, Step
  <2>2. ASSUME NEW g, g.at = "done", g.line = Top.line, g.lifted = Top.lifted,
               g.code = Top.code, g.res = r
        PROVE  Told(g)
    BY <1>1, <2>1, <2>2, TextEnds, JsonEnds
  <2> HIDE DEF r
  <2>3. QED
    BY <2>1, <2>2, StepTold
<1>4. CASE PropertiesStatusCode
  <2> DEFINE g == [Top EXCEPT !.at = "log", !.code = F.httpStatusCode]
  <2>1. /\ g.at = "log" /\ g.code = F.httpStatusCode
        /\ g.line = Top.line /\ g.lifted = Top.lifted /\ g.res = Top.res
    BY <1>1 DEF FrameType
  <2>2. frames' = [frames EXCEPT ![Len(frames)] = g] /\ Delivered(returned)'
    BY <1>4, TopTyped DEF PropertiesStatusCode, Top, HInv, LInv, AllTold
  <2>3. Top.at = "properties" /\ Top.line.kind = "json"
    BY <1>4, TopTyped DEF PropertiesStatusCode, HInv, LInv, Fits, JsonPlaces
  <2> HIDE DEF g
  <2>4. Begun(g)
    BY <1>1, <2>1, <2>3 DEF Told, Begun, F
  <2>5. Top.at \in Unhinted /\ g.at \in Unhinted
    BY <2>1, <2>3 DEF Unhinted
  <2>6. Told(g)
    BY <1>1, <2>1, <2>3, <2>4, <2>5, JsonWaits
  <2>7. QED
    BY <2>2, <2>6, TopRetold
<1>5. QED
  BY <1>2, <1>3, <1>4

\* A record calls for a line it embeds, and waits.
LEMMA CallTold ==
  ASSUME HInv, CallPropertiesLog \/ CallLog
  PROVE  AllTold'
<1> DEFINE n == Len(frames)
<1>1. PICK b : /\ Call(Top.at, b)
               /\ \/ Top.at = "properties" /\ b = "mergeProperties" /\ F.propertiesLog
                  \/ Top.at = "log" /\ b = "mergeLog" /\ F.log
  BY DEF CallPropertiesLog, CallLog
<1> DEFINE mid == [frames EXCEPT ![n].at = b]
<1>2. PICK l \in LinesAt[n + 1] : frames' = Append(mid, Frame(l)) /\ returned' = returned
  BY <1>1 DEF Call
<1>3. /\ n \in Nat /\ n \in 1..n /\ frames \in Seq(FrameType) /\ Top \in FrameType
      /\ Told(Top) /\ Top.line.kind = "json" /\ n + 1 \in 1..MaxDepth
  <2>1. /\ n \in Nat /\ n \in 1..n /\ n \in 1..MaxDepth /\ frames \in Seq(FrameType)
        /\ Top \in FrameType /\ Told(Top)
    BY TopTyped, TopTold DEF HInv, LInv, IInv, TypeOK
  <2>2. Top.line.kind = "json"
    BY <1>1, TopTyped DEF HInv, LInv, Fits, JsonPlaces
  <2>3. n < MaxDepth
    BY <1>1 DEF Call
  <2>4. QED
    BY <2>1, <2>2, <2>3, DepthAssumption
<1>4. DOMAIN frames = 1..n /\ frames[n] = Top
  BY <1>3 DEF Top
<1>5. /\ mid[n].at = b /\ mid[n].line = Top.line /\ mid[n].lifted = Top.lifted
      /\ mid[n].code = Top.code /\ mid[n].res = Top.res
      /\ \A j \in 1..n : j # n => mid[j] = frames[j]
      /\ mid \in Seq(FrameType \cup {mid[n]}) /\ Len(mid) = n
  <2>1. mid[n] = [Top EXCEPT !.at = b]
    BY <1>3, <1>4
  <2>2. /\ mid[n].at = b /\ mid[n].line = Top.line /\ mid[n].lifted = Top.lifted
        /\ mid[n].code = Top.code /\ mid[n].res = Top.res
    BY <1>3, <2>1 DEF FrameType
  <2>3. \A j \in 1..n : j # n => mid[j] = frames[j]
    BY <1>3, <1>4
  <2>4. mid = [j \in 1..n |-> mid[j]]
    BY <1>4
  <2>5. \A j \in 1..n : mid[j] \in FrameType \cup {mid[n]}
    BY <1>3, <2>3
  <2> HIDE DEF mid
  <2>6. mid \in Seq(FrameType \cup {mid[n]}) /\ Len(mid) = n
    BY <1>3, <2>4, <2>5
  <2>7. QED
    BY <2>2, <2>3, <2>6
<1> HIDE DEF mid
<1>6. /\ DOMAIN frames' = 1..(n+1)
      /\ \A j \in 1..n : frames'[j] = mid[j]
      /\ frames'[n + 1] = Frame(l)
  BY <1>2, <1>3, <1>5
<1>7. Told(mid[n])
  <2> DEFINE g == mid[n]
  <2>1. Begun(g)
    BY <1>1, <1>3, <1>5 DEF Told, Begun, F
  <2>2. Top.at \in Unhinted /\ g.at \in Unhinted
    BY <1>1, <1>5 DEF Unhinted
  <2> HIDE DEF g
  <2>3. g.line = Top.line /\ g.lifted = Top.lifted /\ g.res = Top.res
    BY <1>5 DEF g
  <2>4. Told(g)
    BY <1>3, <2>1, <2>2, <2>3, JsonWaits
  <2>5. QED
    BY <2>4 DEF g
<1>8. Told(Frame(l))
  BY <1>2, <1>3, FrameTold
<1>9. ASSUME NEW j \in 1..(n+1) PROVE Told(frames'[j])
  <2>1. CASE j = n + 1
    BY <1>6, <1>8, <2>1
  <2>2. CASE j = n
    BY <1>3, <1>6, <1>7, <2>2
  <2>3. CASE j \notin {n, n + 1}
    <3>1. j \in 1..n /\ j # n
      BY <1>3, <2>3
    <3>2. Told(frames[j])
      BY <1>4, <3>1 DEF HInv, AllTold
    <3>3. frames'[j] = frames[j]
      BY <1>5, <1>6, <3>1
    <3>4. QED
      BY <3>2, <3>3
  <2>4. QED
    BY <2>1, <2>2, <2>3
<1>10. QED
  BY <1>2, <1>6, <1>9 DEF HInv, AllTold

\* A finished call is lifted.
LEMMA LiftTold ==
  ASSUME HInv, MergeProperties \/ MergeLog
  PROVE  AllTold'
<1> DEFINE h == returned
           m == MergeNested(Top.res, h.res, h.body)
<1>1. PICK b : /\ Merge(Top.at, b)
               /\ \/ Top.at = "mergeProperties" /\ b = "log"
                  \/ Top.at = "mergeLog" /\ b = "envelope"
  BY DEF MergeProperties, MergeLog, Merge
<1> DEFINE g == [Top EXCEPT !.at = b, !.res = m, !.lifted = Append(@, h)]
<1>2. /\ Top \in FrameType /\ Told(Top) /\ h \in Handed /\ Delivered(h)
      /\ Top.line.kind = "json"
  <2>1. Top \in FrameType /\ Told(Top) /\ h \in Handed /\ Delivered(h)
    BY TopTold DEF HInv, LInv, IInv, TypeOK
  <2>2. Top.line.kind = "json"
    BY <1>1, TopTyped DEF HInv, LInv, Fits, JsonPlaces
  <2>3. QED
    BY <2>1, <2>2
<1>3. frames' = [frames EXCEPT ![Len(frames)] = g]
  BY <1>1, TopTyped DEF Merge, Top, HInv, LInv
<1> HIDE DEF m
<1>4. /\ g.at = b /\ g.res = m /\ g.line = Top.line /\ g.code = Top.code
      /\ g.lifted = Append(Top.lifted, h)
  BY <1>2 DEF FrameType
<1> HIDE DEF g
<1>5. g.res = MergeNested(Top.res, h.res, h.body)
  BY <1>4 DEF m
<1>6. Told(g)
  BY <1>1, <1>2, <1>4, <1>5, MergeTold
<1>7. returned' = NoReturn
  BY <1>1 DEF Merge
<1>8. Delivered(returned)'
  BY <1>7, NothingDelivered
<1>9. QED
  BY <1>3, <1>6, <1>8, TopRetold

\* What a finished call hands to its caller.
LEMMA ReturnTold ==
  ASSUME HInv, Return
  PROVE  AllTold'
<1> DEFINE n == Len(frames)
<1>1. /\ n \in Nat /\ n > 1 /\ frames \in Seq(FrameType)
      /\ frames' = SubSeq(frames, 1, n - 1)
  BY TopTyped DEF Return, HInv, LInv, IInv, TypeOK
<1>2. /\ DOMAIN frames' = 1..(n-1) /\ DOMAIN frames = 1..n
      /\ \A j \in 1..(n-1) : j \in 1..n /\ frames'[j] = frames[j]
  BY <1>1
<1>3. /\ returned'.res = Top.res
      /\ returned'.body = IF Top.line.kind = "text" THEN Top.line.body ELSE NoText
      /\ Top.at = "done"
  BY DEF Return
<1>4. Agrees(Top.res) /\ Zoned(Top.res) /\ Told(Top)
  BY <1>3, TopTyped, TopTidy, TopTold DEF HInv, LInv
<1>5. Delivered(returned')
  BY <1>3, <1>4, BenignTexts DEF Delivered, Told, Ended
<1>6. QED
  BY <1>2, <1>5 DEF HInv, AllTold

\* Every step keeps what every call can tell.
LEMMA ToldStep == HInv /\ [Next]_vars => AllTold'
<1>1. ASSUME HInv, UNCHANGED vars PROVE AllTold'
  BY <1>1 DEF vars, HInv, AllTold
<1>2. QED
  BY <1>1, CallTold, LiftTold, ParagraphsTold, TextTold, EndTold, ReturnTold DEF Next

\* The outermost call begins with nothing to tell.
LEMMA StartsTold == Init => HInv
<1> SUFFICES ASSUME Init PROVE HInv
  OBVIOUS
<1>1. PICK l \in LinesAt[1] : frames = <<Frame(l)>>
  BY DEF Init
<1>2. Told(Frame(l))
  BY FrameTold, DepthAssumption
<1>3. AllTold
  BY <1>1, <1>2, NothingDelivered DEF Init, AllTold
<1>4. QED
  BY <1>3, StartsTidy DEF HInv

\* The history invariant, for every set of lines and every depth.
THEOREM AlwaysHInv == Spec => []HInv
<1>1. HInv /\ [Next]_vars => HInv'
  BY Inductive, TidyStep, ToldStep DEF HInv, LInv
<1>2. QED
  BY <1>1, StartsTold, PTL DEF Spec

-----------------------------------------------------------------------------
(* The properties *)

\* Any call in progress, not only the one on top.
LEMMA AnyCall ==
  ASSUME HInv, NEW i \in DOMAIN frames
  PROVE  /\ frames[i].res \in Result /\ frames[i].line.kind \in {"json", "text"}
         /\ Told(frames[i])
<1>1. frames \in Seq(FrameType)
  BY DEF HInv, LInv, IInv, TypeOK
<1>2. frames[i] \in FrameType
  BY <1>1
<1>3. QED
  BY <1>2, LineTyped DEF FrameType, HInv, AllTold

\* A level a record settles on, other than info, is not overridden by an
\* observed response code, a gRPC status, an OTLP number, an exception or a
\* numeric level, at any depth: without a failure status only the benign list
\* changes it.
THEOREM SettledLevelStays == Spec => []SettledLevelIsKept
<1>1. HInv => SettledLevelIsKept
  <2> SUFFICES ASSUME HInv, NEW i \in DOMAIN frames, DoneAt(i), JsonAt(i),
                      ~ FailureReported(frames[i].line.f)
               PROVE  Kept(frames[i])
    BY DEF SettledLevelIsKept, Kept
  <2>1. Settled(frames[i]) /\ frames[i].at = "done"
    BY DEF HInv, AllTold, Told, Accounted, JsonAt, DoneAt
  <2>2. QED
    BY <2>1 DEF Settled
<1>2. QED
  BY <1>1, AlwaysHInv, PTL

\* A line that reports a 4xx or a 5xx never reads as info, nor as no level at
\* all, however deeply the line that reports it is embedded, if no record
\* between it and the outermost one is about two subjects.
THEOREM FailedCodeShows == Spec => []FailedCodeIsVisible
<1>1. HInv => FailedCodeIsVisible
  BY DEF HInv, AllTold, Told, Shown, FailedCodeIsVisible, JsonAt
<1>2. QED
  BY <1>1, AlwaysHInv, PTL

\* Wrapping a line in a record that says nothing changes none of the fields
\* mergeNested lifts: the second normalization and the second look at the
\* benign list find nothing to do.
THEOREM SilentIsTransparent == Spec => []SilentEnvelopeIsTransparent
<1>1. HInv => SilentEnvelopeIsTransparent
  BY DEF HInv, AllTold, Told, Accounted, Echoed, Same, SilentEnvelopeIsTransparent, JsonAt
<1>2. QED
  BY <1>1, AlwaysHInv, PTL

\* Explicit identifiers of a record win over its traceparent, and both over
\* whatever its embedded lines carry, of which the later one wins.
THEOREM IDsInOrder == Spec => []IDPrecedence
<1>1. HInv => IDPrecedence
  <2> SUFFICES ASSUME HInv, NEW i \in DOMAIN frames, DoneAt(i), JsonAt(i)
               PROVE  InOrder(frames[i])
    BY Zenon DEF IDPrecedence, InOrder
  <2>1. QED
    BY DEF HInv, AllTold, Told, Accounted, Identified, Unhinted, JsonAt, DoneAt
<1>2. QED
  BY <1>1, AlwaysHInv, PTL

\* A line no strategy claimed reports no timestamp, level, trace, status code or
\* exception: all that is left is the message, the logger and the span that the
\* logfmt scan read, as it read them.
THEOREM UnmatchedIsSilent == Spec => []UnmatchedSaysNothing
<1>1. HInv => UnmatchedSaysNothing
  <2> SUFFICES ASSUME HInv, NEW i \in DOMAIN frames, DoneAt(i), frames[i].res.Format = ""
               PROVE  /\ frames[i].res \in Result
                      /\ Leftover(frames[i].res, Outcome(frames[i].line.pairs))
    BY UnreadIsZero DEF UnmatchedSaysNothing
  <2>1. /\ frames[i].res \in Result /\ frames[i].line.kind \in {"json", "text"}
        /\ Told(frames[i])
    BY AnyCall
  <2>2. frames[i].at = "done"
    BY DEF DoneAt
  <2>3. frames[i].line.kind = "text"
    BY <2>1, <2>2 DEF Told, Ended
  <2>4. Leftover(frames[i].res, Outcome(frames[i].line.pairs))
    BY <2>1, <2>2, <2>3 DEF Told, Plain
  <2>5. QED
    BY <2>1, <2>4
<1>2. QED
  BY <1>1, AlwaysHInv, PTL

\* "The embedded line IS the message of the record that wraps it": a record
\* without a message of its own finishes with the words of the last embedded
\* line that has any, verbatim.  As this holds of every call on the stack, the
\* text of a plain line reaches the outermost record through any number of
\* envelopes that say nothing themselves.
THEOREM WrappedIsKept == Spec => []WrappedLineIsNotLost
<1>1. HInv => WrappedLineIsNotLost
  <2> SUFFICES ASSUME HInv, NEW i \in DOMAIN frames, DoneAt(i), JsonAt(i)
               PROVE  InWords(frames[i])
    BY Zenon DEF WrappedLineIsNotLost, InWords
  <2>1. QED
    BY DEF HInv, AllTold, Told, Accounted, Worded, JsonAt, DoneAt
<1>2. QED
  BY <1>1, AlwaysHInv, PTL
=============================================================================
