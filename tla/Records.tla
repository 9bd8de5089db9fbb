------------------------------ MODULE Records -------------------------------
(***************************************************************************)
(* The values the enricher works on: the lines it is given, what the       *)
(* generated decoder leaves in enrichFields, what a pattern-table entry    *)
(* captured, and the Result.                                               *)
(***************************************************************************)
EXTENDS LogfmtLine

CONSTANTS
  WallClocks,        \* timestamps read from a shape that states no offset
  Names,             \* templates, services, resources, exception types, ...
  lower(_),          \* a name in lowercase
  resourceGroupID(_) \* the group prefix of a lowercased Azure resource ID

\* Times, of LogfmtLine, are the instants: every shape that reaches them
\* states its own offset.
Stamps == Times \cup WallClocks \cup {NoTime}

ASSUME RecordsAssumption ==
  /\ Times \cap WallClocks = {}
  /\ NoTime \notin WallClocks
  /\ \A n \in Names : lower(n) \in Names \cup {NoText}
  /\ lower(NoText) = NoText
  /\ \A n \in Names : resourceGroupID(lower(n)) \in Names \cup {NoText}

\* A JSON number as jsonInt reports it.  No code the enricher looks for is
\* negative, so -2 stands for every value that is present but not a usable
\* integer (a fraction, an overflow, a negative).
Absent     == -1
Unreadable == -2
IsInt(code) == code >= 0

\* An exception payload, if there is one, cut where parseException cuts it:
\* typed is "has a ': ' in its first line", hasStack is "has a second line".
Exception == [present : BOOLEAN, typed : BOOLEAN, hasStack : BOOLEAN,
              type : Names, message : Names, stack : Names]

\* enrichFields after a successful decode.  log and propertiesLog say whether
\* the line embeds another one; what that line is, is not decided yet.
\* Fields the enricher treats alike share one here: Template stands for
\* Template, TemplateHash and Version; Service for Service and Product.
\* response is the statusCode of a decoded properties.response, resultCode
\* the resultDescription of an HttpStatusCode resultType, clientGone a
\* response_flags of DR or DC, and pino the number after the first "level":
\* of the raw line (-1 if it has none of one or two digits).
Fields ==
  [propertiesLog : BOOLEAN, response : Int, httpStatusCode : Int,
   log : BOOLEAN, responseStatus : Int,
   Time : Times \cup {NoTime}, MongoTime : Times \cup {NoTime},
   Severity : LevelTexts, MongoSeverity : LevelTexts,
   SeverityNumber : Int, GrpcStatusNumber : Int, pino : Int,
   Traceparent : Traceparent, TraceID : TraceText, SpanID : SpanText,
   Message : Messages, SourceContext : Messages,
   Template : Names, Service : Names, ResourceID : Names, EventCategory : Names,
   exception : Exception,
   ErrorType : Names, ErrorMessage : Names, ErrorStack : Names,
   ResponseCode : Int, resultCode : Int, protocol : BOOLEAN, clientGone : BOOLEAN]

\* The groups of the table a level can come of, and whether c has one.
LevelGroups == {"level", "redis_level", "syslogpri", "response_code", "logaserror"}
HasGroup(c, group) ==
  CASE group = "level"         -> c.level # NoText
    [] group = "redis_level"   -> c.mark # NoText
    [] group = "syslogpri"     -> c.priority # Absent
    [] group = "response_code" -> c.code # Absent
    [] group = "logaserror"    -> c.asError

\* What the winning table entry captured.  No entry has two of the groups; the
\* exception is that of the unhandled group, which is logged as an error.
Captures ==
  {c \in [time : Stamps, level : LevelTexts, mark : {NoText, ".", "-", "*", "#"}, priority : Int,
          code : Int, source : Messages, asError : BOOLEAN, exception : Exception] :
     /\ \A g, h \in LevelGroups : HasGroup(c, g) /\ HasGroup(c, h) => g = h
     /\ c.exception.present => c.asError}

NoCaptures == [matched |-> FALSE]
EntryOutcome == [matched : {FALSE}] \cup [matched : {TRUE}, got : Captures]

JsonLine == [kind : {"json"}, f : Fields]

\* A line that does not decode as a JSON object: the pairs the logfmt reader
\* finds in it, what the pattern table makes of it, its first traceparent, and
\* its body without the trailing newline.
TextLine == [kind : {"text"}, pairs : Seq(Pair), entry : EntryOutcome,
             parent : Traceparent, body : Messages]

Line == JsonLine \cup TextLine

\* What each field of a Result can hold; the empty value is "not found".
Formats       == {"", "json", "logfmt", "pattern"}
SeverityTexts == {NoText} \cup Levels \cup LevelTexts
SeverityNos   == 0..24
StatusCodes   == {0} \cup 100..599
TraceIDField  == TraceIDs \cup {NoID}
SpanIDField   == SpanIDs \cup {NoID}
MessageField  == {NoText} \cup Messages
NameField     == {NoText} \cup Names

Result ==
  [Format : Formats, Time : Stamps, TimeHasZone : BOOLEAN,
   Severity : SeverityTexts, SeverityNumber : SeverityNos,
   Message : MessageField, HTTPStatusCode : StatusCodes,
   TraceID : TraceIDField, SpanID : SpanIDField,
   Template : NameField, Service : NameField, SourceContext : MessageField,
   ResourceID : NameField, ResourceGroupID : NameField, EventCategory : NameField,
   ExceptionType : NameField, ExceptionMessage : NameField, ExceptionStackTrace : NameField]

\* *result = Result{Body: input}
ZeroResult ==
  [Format |-> "", Time |-> NoTime, TimeHasZone |-> FALSE,
   Severity |-> NoText, SeverityNumber |-> 0, Message |-> NoText, HTTPStatusCode |-> 0,
   TraceID |-> NoID, SpanID |-> NoID, Template |-> NoText, Service |-> NoText,
   SourceContext |-> NoText, ResourceID |-> NoText, ResourceGroupID |-> NoText,
   EventCategory |-> NoText, ExceptionType |-> NoText, ExceptionMessage |-> NoText,
   ExceptionStackTrace |-> NoText]
=============================================================================
