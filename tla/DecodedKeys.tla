----------------------------- MODULE DecodedKeys -----------------------------
(***************************************************************************)
(* The generated JSON decoder, fields_unmarshal.go: an object is read      *)
(* member by member into the fields of a struct, several keys into one     *)
(* field, some fields being objects themselves.  It dispatches on the      *)
(* length of a key and then on the key; what it should do is said by the   *)
(* struct tags of fields.go, from which it was generated.                  *)
(*                                                                         *)
(* The values' readers are the library's (external): a value is what they  *)
(* tell apart, and a member's number stands for its contents.              *)
(***************************************************************************)
EXTENDS SequencesExt

CONSTANTS
  Keys,            \* [struct decoded into -> keys of its members, known and unknown]
  Kinds,           \* kinds of their values, see Outcome
  InnerKeys,       \* [struct nested -> keys of its members, known and unknown]
  InnerKinds,      \* kinds of values they have; a broken one makes Malformed
  MaxMembers, MaxInner  \* bounds: the members of a record, of an object in it

VARIABLES
  top,             \* the struct decoded into: enrichFields or httpResponse
  fields,          \* what has been decoded, v
  inner,           \* the nested object being decoded (lax), or NoObject
  status,          \* "reading", "inside", "done" or "failed"
  used,            \* the fields the caller went on with, or NoFields
  record, members  \* history: the members read, of the record, of the object

vars == <<top, fields, inner, status, used, record, members>>

-----------------------------------------------------------------------------
(* fields.go: the structs, each field with the keys of its tag *)

Tag(field, kind, keys) == [field |-> field, kind |-> kind, keys |-> keys]

enrichFields ==
  { Tag("Time", "time", {"@t", "@timestamp", "timestamp", "Timestamp", "ts", "time", "Time"}),
    Tag("Severity", "string", {"severity", "Severity", "severityText", "SeverityText",
          "log.level", "levelname", "@l", "@level", "level"}),
    Tag("SeverityNumber", "number", {"severityNumber", "severity_number"}),
    Tag("Message", "string", {"@m", "message", "Message", "MESSAGE", "msg"}),
    Tag("TraceID", "string", {"traceid", "traceId", "traceID", "TraceId", "TraceID",
          "trace_id", "trace.id", "request_id"}),
    Tag("SpanID", "string", {"spanid", "spanId", "spanID", "SpanId", "SpanID", "span_id", "span.id"}),
    Tag("Traceparent", "string", {"traceparent", "Traceparent", "TraceParent"}),
    Tag("SourceContext", "string", {"sourcecontext", "sourceContext", "SourceContext",
          "logger", "loggerName", "logger_name"}),
    Tag("TemplateHash", "string", {"@i"}), Tag("Template", "string", {"@mt"}),
    Tag("ResourceID", "string", {"resourceID", "resourceId", "ResourceId", "resourceUri", "resourceURI"}),
    Tag("EventCategory", "string", {"eventCategory", "eventcategory", "EventCategory"}),
    Tag("Version", "string", {"@sv", "service.version"}),
    Tag("Service", "string", {"@sn", "service.name"}), Tag("Product", "string", {"@sp"}),
    Tag("Exception", "string", {"@x", "exception"}),
    Tag("ErrorType", "string", {"error.type", "exception.type"}),
    Tag("ErrorMessage", "string", {"error.message", "exception.message"}),
    Tag("ErrorStack", "string", {"error.stack_trace", "exception.stacktrace"}),
    Tag("ResultType", "string", {"resultType"}),
    Tag("ResultDescription", "string", {"resultDescription"}),
    Tag("Log", "string", {"log"}),
    Tag("MongoTime", "mongoDate", {"t"}), Tag("MongoSeverity", "string", {"s"}),
    Tag("ResponseCode", "number", {"response_code", "responseCode", "status_code", "statusCode",
          "StatusCode", "http.response.status_code"}),
    Tag("GrpcStatusNumber", "number", {"grpc_status_number"}),
    Tag("Protocol", "string", {"protocol"}), Tag("ResponseFlags", "string", {"response_flags"}),
    Tag("Properties", "enrichProperties", {"properties", "Properties"}),
    Tag("ResponseStatus", "enrichResponseStatus", {"responseStatus", "ResponseStatus"}) }

enrichProperties ==
  { Tag("Log", "string", {"log"}), Tag("Response", "string", {"response"}),
    Tag("HTTPStatusCode", "number", {"httpStatusCode"}) }

Structs ==
  [enrichFields |-> enrichFields, enrichProperties |-> enrichProperties,
   enrichResponseStatus |-> {Tag("Code", "number", {"code"})},
   mongoDate            |-> {Tag("Date", "time", {"$date"})},
   httpResponse         |-> {Tag("StatusCode", "number", {"statusCode"})}]

-----------------------------------------------------------------------------
(* fields_unmarshal.go: the same keys, by length *)

OfLength1 == {Tag("MongoTime", "mongoDate", {"t"}), Tag("MongoSeverity", "string", {"s"})}
OfLength2 ==
  {Tag("Time", "time", {"@t", "ts"}), Tag("Severity", "string", {"@l"}),
   Tag("Message", "string", {"@m"}), Tag("TemplateHash", "string", {"@i"}),
   Tag("Exception", "string", {"@x"})}
OfLength3 ==
  {Tag("Message", "string", {"msg"}), Tag("Template", "string", {"@mt"}),
   Tag("Version", "string", {"@sv"}), Tag("Service", "string", {"@sn"}),
   Tag("Product", "string", {"@sp"}), Tag("Log", "string", {"log"})}
OfLength4 == {Tag("Time", "time", {"time", "Time"})}
OfLength5 == {Tag("Severity", "string", {"level"})}
OfLength6 ==
  {Tag("Severity", "string", {"@level"}), Tag("SourceContext", "string", {"logger"}),
   Tag("SpanID", "string", {"spanid", "spanId", "spanID", "SpanId", "SpanID"})}
OfLength7 ==
  {Tag("Message", "string", {"message", "Message", "MESSAGE"}),
   Tag("TraceID", "string", {"traceid", "traceId", "traceID", "TraceId", "TraceID"}),
   Tag("SpanID", "string", {"span_id", "span.id"})}
OfLength8 ==
  {Tag("Severity", "string", {"severity", "Severity"}),
   Tag("TraceID", "string", {"trace_id", "trace.id"}), Tag("Protocol", "string", {"protocol"})}
OfLength9 ==
  {Tag("Time", "time", {"timestamp", "Timestamp"}),
   Tag("Severity", "string", {"log.level", "levelname"}), Tag("Exception", "string", {"exception"})}
OfLength10 ==
  {Tag("Time", "time", {"@timestamp"}), Tag("TraceID", "string", {"request_id"}),
   Tag("SourceContext", "string", {"loggerName"}),
   Tag("ResourceID", "string", {"resourceID", "resourceId", "ResourceId"}),
   Tag("ErrorType", "string", {"error.type"}), Tag("ResultType", "string", {"resultType"}),
   Tag("ResponseCode", "number", {"statusCode", "StatusCode"}),
   Tag("Properties", "enrichProperties", {"properties", "Properties"})}
OfLength11 ==
  {Tag("Traceparent", "string", {"traceparent", "Traceparent", "TraceParent"}),
   Tag("SourceContext", "string", {"logger_name"}),
   Tag("ResourceID", "string", {"resourceUri", "resourceURI"}),
   Tag("ResponseCode", "number", {"status_code"})}
OfLength12 ==
  {Tag("Severity", "string", {"severityText", "SeverityText"}),
   Tag("Service", "string", {"service.name"}), Tag("ResponseCode", "number", {"responseCode"})}
OfLength13 ==
  {Tag("SourceContext", "string", {"sourcecontext", "sourceContext", "SourceContext"}),
   Tag("EventCategory", "string", {"eventCategory", "eventcategory", "EventCategory"}),
   Tag("ErrorMessage", "string", {"error.message"}),
   Tag("ResponseCode", "number", {"response_code"})}
OfLength14 ==
  {Tag("SeverityNumber", "number", {"severityNumber"}),
   Tag("ErrorType", "string", {"exception.type"}),
   Tag("ResponseFlags", "string", {"response_flags"}),
   Tag("ResponseStatus", "enrichResponseStatus", {"responseStatus", "ResponseStatus"})}
OfLength15 ==
  {Tag("SeverityNumber", "number", {"severity_number"}), Tag("Version", "string", {"service.version"})}
OfLength17 ==
  {Tag("ErrorMessage", "string", {"exception.message"}),
   Tag("ErrorStack", "string", {"error.stack_trace"}),
   Tag("ResultDescription", "string", {"resultDescription"})}
OfLength18 == {Tag("GrpcStatusNumber", "number", {"grpc_status_number"})}
OfLength20 == {Tag("ErrorStack", "string", {"exception.stacktrace"})}
OfLength25 == {Tag("ResponseCode", "number", {"http.response.status_code"})}

ByLength ==
  [n \in (1..15) \cup {17, 18, 20, 25} |->
     CASE n = 1  -> OfLength1  [] n = 2  -> OfLength2  [] n = 3  -> OfLength3
       [] n = 4  -> OfLength4  [] n = 5  -> OfLength5  [] n = 6  -> OfLength6
       [] n = 7  -> OfLength7  [] n = 8  -> OfLength8  [] n = 9  -> OfLength9
       [] n = 10 -> OfLength10 [] n = 11 -> OfLength11 [] n = 12 -> OfLength12
       [] n = 13 -> OfLength13 [] n = 14 -> OfLength14 [] n = 15 -> OfLength15
       [] n = 17 -> OfLength17 [] n = 18 -> OfLength18 [] n = 20 -> OfLength20
       [] n = 25 -> OfLength25]

\* Every key is under its own length.
ASSUME KeyLengthsAssumption ==
  \A n \in DOMAIN ByLength : \A c \in ByLength[n] : \A key \in c.keys : Len(key) = n

\* The small structs, and httpResponse, by the key alone.
mongoDateCases            == {Tag("Date", "time", {"$date"})}
enrichPropertiesCases     == {Tag("Log", "string", {"log"}), Tag("Response", "string", {"response"}),
                              Tag("HTTPStatusCode", "number", {"httpStatusCode"})}
enrichResponseStatusCases == {Tag("Code", "number", {"code"})}
httpResponseCases         == {Tag("StatusCode", "number", {"statusCode"})}

CasesOf(struct, key) ==
  CASE struct = "enrichFields" -> UNION {ByLength[n] : n \in {Len(key)} \cap DOMAIN ByLength}
    [] struct = "enrichProperties" -> enrichPropertiesCases
    [] struct = "enrichResponseStatus" -> enrichResponseStatusCases
    [] struct = "mongoDate" -> mongoDateCases
    [] struct = "httpResponse" -> httpResponseCases

\* Mutant: the lengths of the dotted keys were counted without the dot.
CasesUndotted(struct, key) ==
  {c \in CasesOf(struct, key) : key \in c.keys \ {"trace.id", "log.level", "service.name"}}

\* The switch on the key: what it is decoded into, if anything.
Cases(struct, key) == {c \in CasesOf(struct, key) : key \in c.keys}

-----------------------------------------------------------------------------
(* Values (external).  "vague" is a string the lenient time reader takes   *)
(* for the zero time.  null is read as the zero value.                     *)
(* A "broken" value can be neither read nor stepped over; a "ragged" object *)
(* cannot be read, but stepped over.                                        *)

Zero  == <<0, 0>>
Fails == <<0, 1>>

Outcome(kind, value, contents) ==
  CASE value = "null"                                            -> Zero
    [] kind = "string" /\ value \in {"string", "vague"} -> contents
    [] kind = "number" /\ value = "number"                       -> contents
    [] kind = "time"   /\ value \in {"string", "number"}         -> contents
    [] kind = "time"   /\ value = "vague"                        -> Zero
    [] OTHER                                                      -> Fails

IsStruct(kind) == kind \in DOMAIN Structs
ZeroOf(struct) ==
  [f \in {t.field : t \in Structs[struct]} |-> Zero]
Initial(kind) == IF IsStruct(kind) THEN ZeroOf(kind) ELSE Zero
TagOf(struct, f) == CHOOSE t \in Structs[struct] : t.field = f
ZeroFields(struct) ==
  [f \in {t.field : t \in Structs[struct]} |-> Initial(TagOf(struct, f).kind)]

NoFields == << >>
NoObject == [field |-> "", kind |-> "", read |-> << >>]

Init ==
  /\ top \in {"enrichFields", "httpResponse"}
  /\ fields = ZeroFields(top)
  /\ inner = NoObject
  /\ status = "reading"
  /\ used = NoFields
  /\ record = << >> /\ members = << >>

\* What the next member's contents are called: its place in the record.  A
\* nested object is called by its members.
Contents == <<Len(record) + 1, Len(members) + 1>>
ObjectOf(read) == <<read>>
Found(value) == IF value = "object" THEN ObjectOf(<< >>) ELSE Contents

-----------------------------------------------------------------------------
(* Decoding *)

Member(key, value, contents) == [key |-> key, value |-> value, contents |-> contents]

\* A value that its field cannot take, or of an unknown key, is stepped over.
Skip(value) ==
  /\ status' = IF value = "broken" THEN "failed" ELSE status
  /\ UNCHANGED <<fields, inner>>

Scalar(value, case) ==
  LET got == Outcome(case.kind, value, Contents)
  IN  IF got = Fails THEN Skip(value)
      ELSE fields' = [fields EXCEPT ![case.field] = got] /\ UNCHANGED <<inner, status>>

Object(value, case) ==
  CASE value = "object" ->
         /\ status' = "inside"
         /\ inner' = [field |-> case.field, kind |-> case.kind, read |-> ZeroOf(case.kind)]
         /\ UNCHANGED fields
    [] value = "null" ->
         fields' = [fields EXCEPT ![case.field] = ZeroOf(case.kind)] /\ UNCHANGED <<inner, status>>
    [] OTHER -> Skip(value)

ReadMember ==
  /\ status = "reading" /\ Len(record) < MaxMembers
  /\ \E key \in Keys[top], value \in Kinds :
       /\ record' = Append(record, Member(key, value, Found(value)))
       /\ IF Cases(top, key) = {} THEN Skip(value)
          ELSE \E case \in Cases(top, key) :
                 IF IsStruct(case.kind) THEN Object(value, case) ELSE Scalar(value, case)
  /\ UNCHANGED <<top, used, members>>

InnerMember(key, value) ==
  /\ members' = Append(members, Member(key, value, Contents))
  /\ IF Cases(inner.kind, key) = {} THEN UNCHANGED inner
     ELSE \E case \in Cases(inner.kind, key) :
            LET got == Outcome(case.kind, value, Contents)
            IN  inner' = IF got = Fails THEN inner ELSE [inner EXCEPT !.read[case.field] = got]

\* Mutant: members go into the struct as they are read, not into a copy.
ReadInnerMemberInPlace ==
  /\ status = "inside" /\ Len(members) < MaxInner
  /\ \E key \in InnerKeys[inner.kind], value \in InnerKinds : InnerMember(key, value)
  /\ fields' = [fields EXCEPT ![inner.field] = inner'.read]
  /\ UNCHANGED <<top, status, used, record>>

\* A member of a nested object; one that cannot be read at all is Malformed.
ReadInnerMember ==
  /\ status = "inside" /\ Len(members) < MaxInner
  /\ \E key \in InnerKeys[inner.kind], value \in InnerKinds : InnerMember(key, value)
  /\ UNCHANGED <<top, fields, status, used, record>>

LeaveObject(value, contents) ==
  /\ record' = [record EXCEPT ![Len(record)].value = value, ![Len(record)].contents = contents]
  /\ inner' = NoObject /\ members' = << >>

CloseInner ==
  /\ status = "inside"
  /\ fields' = [fields EXCEPT ![inner.field] = inner.read]
  /\ LeaveObject("object", ObjectOf(members))
  /\ status' = "reading"
  /\ UNCHANGED <<top, used>>

\* The nested object is malformed: what was read of it is dropped, and it is
\* stepped over as a whole, if the library's skipping gets past it.
Malformed ==
  /\ status = "inside"
  /\ \/ status' = "reading" /\ LeaveObject("ragged", ObjectOf(members))
     \/ status' = "failed" /\ LeaveObject("broken", ObjectOf(members))
  /\ UNCHANGED <<top, fields, used>>

\* The record ends, or breaks off, or has something after it.
Close == status = "reading" /\ status' = "done" /\ UNCHANGED <<top, fields, inner, used, record, members>>
Break == status = "reading" /\ status' = "failed" /\ UNCHANGED <<top, fields, inner, used, record, members>>

\* enrichFromJSON and applyProperties go on only without an error.
Use ==
  /\ status = "done" /\ used = NoFields
  /\ used' = fields
  /\ UNCHANGED <<top, fields, inner, status, record, members>>

Next == ReadMember \/ ReadInnerMember \/ CloseInner \/ Malformed \/ Close \/ Break \/ Use
Spec == Init /\ [][Next]_vars

-----------------------------------------------------------------------------
(* Properties *)

\* The last member, among those whose key is one of the tag's and whose value
\* can be read, says what the field is.
Value(tag, m) ==
  IF IsStruct(tag.kind) /\ m.value = "object" THEN m.contents ELSE Outcome(tag.kind, m.value, m.contents)
LastReadable(read, tag) ==
  LET hits == {i \in DOMAIN read : read[i].key \in tag.keys /\ Value(tag, read[i]) # Fails}
  IN  IF hits = {} THEN Zero ELSE Value(tag, read[Max(hits)])
LastOf(struct, read) ==
  [f \in {t.field : t \in Structs[struct]} |-> LastReadable(read, TagOf(struct, f))]
Meaning(struct, read) ==
  [f \in {t.field : t \in Structs[struct]} |->
     LET tag == TagOf(struct, f)
         got == LastReadable(read, tag)
     IN  IF IsStruct(tag.kind) THEN LastOf(tag.kind, IF got = Zero THEN << >> ELSE got[1]) ELSE got]

\* The enricher is given what the struct tags say of the record, every key of
\* every tag included, and nothing of a record that did not decode.
LastReadableWins == used # NoFields => status = "done" /\ used = Meaning(top, record)

\* What a nested object left behind comes from one object that was read to its
\* end: neither from a malformed one nor from two.
WholeObjectsOnly ==
  \A tag \in Structs[top] : IsStruct(tag.kind) =>
    LET left == {fields[tag.field][f] : f \in DOMAIN fields[tag.field]} \ {Zero}
    IN  left # {} => \E i \in DOMAIN record :
                        /\ record[i].key \in tag.keys /\ record[i].value = "object"
                        /\ left \subseteq {m.contents : m \in Range(record[i].contents[1])}
=============================================================================
