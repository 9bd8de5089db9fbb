------------------------------ MODULE MCEnrich ------------------------------
(***************************************************************************)
(* Small instances of Enrich for TLC.  Every line is a blank one with a    *)
(* few fields set; each LinesAt covers one group of fields that compete.   *)
(***************************************************************************)
EXTENDS Enrich

MCTraceIDs == {"T1", "T2", "T3"}
MCSpanIDs  == {"S1", "S2", "S3"}
MCTimes    == {"z1", "z2"}
MCWallClocks == {"w1"}
MCLevelTexts == {"", "bogus", "Notice", "Error", "D2", "warn", "F"}
MCMessages == {"", "hello", "plugins.store", "Failed to get plugin"}
MCNames    == {"", "Shop", "shop", "RG", "rg", "grp", "IOError", "boom", "at main"}

MClower(n) == CASE n = "Shop" -> "shop" [] n = "RG" -> "rg" [] OTHER -> n
MCresourceGroupID(id) == IF id = "rg" THEN "grp" ELSE ""

NoTrace == [id |-> "T1", hex |-> 0, dashes |-> 0, other |-> FALSE, zero |-> FALSE]
NoSpan  == [id |-> "S1", hex |-> 0, dashes |-> 0, other |-> FALSE, zero |-> FALSE]
ATrace(t) == [NoTrace EXCEPT !.id = t, !.hex = 32]
ASpan(s)  == [NoSpan EXCEPT !.id = s, !.hex = 16]
NoParent == [trace |-> NoTrace, span |-> NoSpan, framed |-> FALSE, lower |-> FALSE]
AParent(t, s) == [trace |-> ATrace(t), span |-> ASpan(s), framed |-> TRUE, lower |-> TRUE]

NoException == [present |-> FALSE, typed |-> FALSE, hasStack |-> FALSE,
                type |-> "", message |-> "", stack |-> ""]
AnException == [present |-> TRUE, typed |-> TRUE, hasStack |-> TRUE,
                type |-> "IOError", message |-> "boom", stack |-> "at main"]

Blank ==
  [propertiesLog |-> FALSE, response |-> Absent, httpStatusCode |-> Absent,
   log |-> FALSE, responseStatus |-> Absent, Time |-> NoTime, MongoTime |-> NoTime,
   Severity |-> "", MongoSeverity |-> "", SeverityNumber |-> Absent,
   GrpcStatusNumber |-> Absent, pino |-> Absent,
   Traceparent |-> NoParent, TraceID |-> NoTrace, SpanID |-> NoSpan,
   Message |-> "", SourceContext |-> "", Template |-> "", Service |-> "",
   ResourceID |-> "", EventCategory |-> "", exception |-> NoException,
   ErrorType |-> "", ErrorMessage |-> "", ErrorStack |-> "",
   ResponseCode |-> Absent, resultCode |-> Absent, protocol |-> FALSE, clientGone |-> FALSE]

Json(f) == [kind |-> "json", f |-> f]
Text(pairs, entry, parent, body) ==
  [kind |-> "text", pairs |-> pairs, entry |-> entry, parent |-> parent, body |-> body]

NothingCaptured ==
  [time |-> NoTime, level |-> "", mark |-> "", priority |-> Absent, code |-> Absent, source |-> "",
   asError |-> FALSE, exception |-> NoException]
Entry(c) == [matched |-> TRUE, got |-> c]

TimePair(t)    == [key |-> "ts", time |-> t, bare |-> FALSE]
LevelPair(l)   == [key |-> "level", level |-> l, bare |-> FALSE]
TextPair(k, m) == [key |-> k, text |-> m, bare |-> FALSE]
TracePair(t)   == [key |-> "trace", trace |-> ATrace(t), bare |-> FALSE]
SpanPair(s)    == [key |-> "span", span |-> ASpan(s), bare |-> FALSE]

Logfmt(pairs) == Text(pairs, NoCaptures, NoParent, "hello")
Pattern(c)    == Text(<<>>, Entry(c), NoParent, "hello")
Plain         == Text(<<>>, NoCaptures, NoParent, "hello")

-----------------------------------------------------------------------------
(* Levels and status codes *)

\* Embedded lines that settle on every kind of level: a graded one, a benign
\* error, one from a failed code, a number alone, an unknown spelling, none.
EmbeddedLevels ==
  { Json([Blank EXCEPT !.Severity = "Notice"]),
    Json([Blank EXCEPT !.Severity = "Error", !.SourceContext = "plugins.store",
                       !.Message = "Failed to get plugin"]),
    Json([Blank EXCEPT !.ResponseCode = 404]),
    Json([Blank EXCEPT !.pino = 50]),
    Json([Blank EXCEPT !.SeverityNumber = 24]),
    Json(Blank),
    Logfmt(<<LevelPair("bogus")>>),
    Logfmt(<<LevelPair("bogus"), LevelPair("D2")>>),
    Logfmt(<<TextPair("logger", "plugins.store"), LevelPair("Error"),
             TextPair("msg", "Failed to get plugin")>>),
    Text(<<>>, NoCaptures, NoParent, "Failed to get plugin"),
    Pattern([NothingCaptured EXCEPT !.code = 404]),
    Pattern([NothingCaptured EXCEPT !.priority = 13, !.time = "w1"]),
    Pattern([NothingCaptured EXCEPT !.priority = 192]),
    Pattern([NothingCaptured EXCEPT !.mark = "#"]),
    Pattern([NothingCaptured EXCEPT !.asError = TRUE, !.exception = AnException]),
    Plain }

\* Records whose own level hints, status codes and exception compete.
HintedRecords ==
  { [Blank EXCEPT !.Severity = s, !.SeverityNumber = n, !.GrpcStatusNumber = g,
                  !.responseStatus = st, !.ResponseCode = c, !.pino = p] :
      s \in {"", "Notice", "Error"}, n \in {Absent, 10, 18}, g \in {Absent, 0, 5},
      st \in {Absent, 200, 404}, c \in {Absent, 0, 404, 700}, p \in {Absent, 50} }

CodedRecords ==
  { [Blank EXCEPT !.Severity = s, !.response = rs, !.httpStatusCode = h, !.ResponseCode = c,
                  !.resultCode = rc, !.protocol = pr, !.clientGone = pr /\ g,
                  !.exception = e] :
      s \in {"", "D2"}, rs \in {Absent, Unreadable, 50, 404}, h \in {Absent, 500},
      c \in {Absent, Unreadable, 0, 302}, rc \in {Absent, 404},
      pr \in BOOLEAN, g \in BOOLEAN, e \in {NoException, AnException} }

MongoRecords ==
  { [Blank EXCEPT !.MongoSeverity = s, !.MongoTime = t, !.SeverityNumber = n] :
      s \in {"F", "bogus"}, t \in {NoTime, "z1"}, n \in {Absent, 24} }

FewCodes ==
  { f \in HintedRecords :
      f.SeverityNumber # 18 /\ f.pino = Absent /\ f.ResponseCode # 700 }

MCLevelLines ==
  << { Json(f) : f \in HintedRecords \cup CodedRecords \cup MongoRecords } \cup
     { Json([f EXCEPT !.log = TRUE]) : f \in FewCodes } \cup
     { Json([f EXCEPT !.propertiesLog = TRUE]) : f \in {g \in FewCodes : g.responseStatus = Absent} } \cup
     { Json([Blank EXCEPT !.log = TRUE, !.response = c]) : c \in {200, 404} } \cup
     { Json([Blank EXCEPT !.log = TRUE, !.propertiesLog = TRUE, !.responseStatus = c]) :
         c \in {Absent, 404} } \cup
     EmbeddedLevels,
     EmbeddedLevels >>

-----------------------------------------------------------------------------
(* Timestamps, identifiers, messages and context *)

Identified ==
  { Json([Blank EXCEPT !.Traceparent = tp, !.TraceID = t, !.SpanID = s, !.Time = z,
                       !.Message = m]) :
      tp \in {NoParent, AParent("T2", "S2")}, t \in {NoTrace, ATrace("T1")},
      s \in {NoSpan, ASpan("S1")}, z \in {NoTime, "z1"}, m \in {"", "hello"} }

Described ==
  { Json([Blank EXCEPT !.ResourceID = "RG", !.EventCategory = "grp"]),
    Json([Blank EXCEPT !.Service = "Shop", !.Template = "boom", !.SourceContext = "hello"]),
    Json([Blank EXCEPT !.exception = AnException]),
    Json([Blank EXCEPT !.exception = [AnException EXCEPT !.typed = FALSE, !.hasStack = FALSE],
                       !.ErrorStack = "at main"]) }

TextLines ==
  { Logfmt(<<TimePair("z2"), SpanPair("S3")>>),
    Logfmt(<<TracePair("T3"), TextPair("msg", "hello")>>),
    Logfmt(<<SpanPair("S3"), TextPair("msg", "hello"), TextPair("logger", "hello")>>),
    Text(<<SpanPair("S3")>>, NoCaptures, AParent("T2", "S2"), "hello"),
    Pattern([NothingCaptured EXCEPT !.time = "w1", !.level = "warn", !.source = "hello"]),
    Pattern([NothingCaptured EXCEPT !.time = "z2", !.code = 404]),
    Pattern([NothingCaptured EXCEPT !.asError = TRUE, !.exception = AnException]),
    Plain, Text(<<>>, NoCaptures, NoParent, ""),
    Text(<<>>, NoCaptures, NoParent, "Failed to get plugin") }

Wrappers == { [f EXCEPT !.log = TRUE] : f \in { l.f : l \in Identified \cup Described } }

MCFieldLines ==
  << { Json(f) : f \in Wrappers } \cup
     { Json([f EXCEPT !.propertiesLog = TRUE]) : f \in
         {[Blank EXCEPT !.log = b, !.MongoTime = t] : b \in BOOLEAN, t \in {NoTime, "z1"}} } \cup
     Identified \cup Described \cup TextLines,
     Identified \cup Described \cup TextLines \cup
     { Json([Blank EXCEPT !.log = TRUE, !.Time = t]) : t \in {NoTime, "z1"} },
     TextLines \cup Described >>

-----------------------------------------------------------------------------
\* Both, at every depth that has them.
MCLines ==
  << MCLevelLines[1] \cup MCFieldLines[1], MCLevelLines[2] \cup MCFieldLines[2], MCFieldLines[3] >>
=============================================================================
