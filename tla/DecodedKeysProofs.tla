-------------------------- MODULE DecodedKeysProofs --------------------------
(***************************************************************************)
(* The decoder leaves what the struct tags say of a record, for records    *)
(* and nested objects of any length, keys and kinds of values.  Proofs.    *)
(***************************************************************************)
EXTENDS DecodedKeys, WellFoundedInduction, TLAPS

-----------------------------------------------------------------------------
(* The switches against the tags *)

\* What each length has.
LEMMA LengthsOf ==
  /\ DOMAIN ByLength = (1..15) \cup {17, 18, 20, 25}
  /\ ByLength[1] = OfLength1 /\ ByLength[2] = OfLength2 /\ ByLength[3] = OfLength3
  /\ ByLength[4] = OfLength4 /\ ByLength[5] = OfLength5 /\ ByLength[6] = OfLength6
  /\ ByLength[7] = OfLength7 /\ ByLength[8] = OfLength8 /\ ByLength[9] = OfLength9
  /\ ByLength[10] = OfLength10 /\ ByLength[11] = OfLength11 /\ ByLength[12] = OfLength12
  /\ ByLength[13] = OfLength13 /\ ByLength[14] = OfLength14 /\ ByLength[15] = OfLength15
  /\ ByLength[17] = OfLength17 /\ ByLength[18] = OfLength18 /\ ByLength[20] = OfLength20
  /\ ByLength[25] = OfLength25
BY DEF ByLength

\* A case of the switch decodes into the field a tag names with its keys.
Known(c) == \E t \in enrichFields : t.field = c.field /\ t.kind = c.kind /\ c.keys \subseteq t.keys

\* Every case does.
LEMMA CasesKnown == \A n \in DOMAIN ByLength : \A c \in ByLength[n] : Known(c)
<1>1. \A c \in OfLength1 \cup OfLength2 \cup OfLength3 \cup OfLength4 \cup OfLength5 : Known(c)
  BY DEF Known, enrichFields, Tag, OfLength1, OfLength2, OfLength3, OfLength4, OfLength5
<1>2. \A c \in OfLength6 \cup OfLength7 \cup OfLength8 \cup OfLength9 : Known(c)
  BY DEF Known, enrichFields, Tag, OfLength6, OfLength7, OfLength8, OfLength9
<1>3. \A c \in OfLength10 \cup OfLength11 \cup OfLength12 : Known(c)
  BY DEF Known, enrichFields, Tag, OfLength10, OfLength11, OfLength12
<1>4. \A c \in OfLength13 \cup OfLength14 \cup OfLength15 \cup OfLength17 : Known(c)
  BY DEF Known, enrichFields, Tag, OfLength13, OfLength14, OfLength15, OfLength17
<1>5. \A c \in OfLength18 \cup OfLength20 \cup OfLength25 : Known(c)
  BY DEF Known, enrichFields, Tag, OfLength18, OfLength20, OfLength25
<1>6. QED
  BY <1>1, <1>2, <1>3, <1>4, <1>5, LengthsOf

\* There is a case for each of the keys.
Switched(keys, cases) == \A key \in keys : \E c \in cases : key \in c.keys

\* The keys of up to eight bytes.
LEMMA ShortKeysSwitched ==
  /\ Switched({"t", "s"}, OfLength1)
  /\ Switched({"@t", "ts", "@l", "@m", "@i", "@x"}, OfLength2)
  /\ Switched({"msg", "@mt", "@sv", "@sn", "@sp", "log"}, OfLength3)
  /\ Switched({"time", "Time"}, OfLength4)
  /\ Switched({"level"}, OfLength5)
  /\ Switched({"@level", "logger", "spanid", "spanId", "spanID", "SpanId", "SpanID"}, OfLength6)
  /\ Switched({"message", "Message", "MESSAGE", "traceid", "traceId", "traceID", "TraceId",
               "TraceID", "span_id", "span.id"}, OfLength7)
  /\ Switched({"severity", "Severity", "trace_id", "trace.id", "protocol"}, OfLength8)
<1>1. Switched({"t", "s"}, OfLength1)
  BY DEF Switched, OfLength1, Tag
<1>2. Switched({"@t", "ts", "@l", "@m", "@i", "@x"}, OfLength2)
  BY DEF Switched, OfLength2, Tag
<1>3. Switched({"msg", "@mt", "@sv", "@sn", "@sp", "log"}, OfLength3)
  BY DEF Switched, OfLength3, Tag
<1>4. Switched({"time", "Time"}, OfLength4) /\ Switched({"level"}, OfLength5)
  BY DEF Switched, OfLength4, OfLength5, Tag
<1>5. Switched({"@level", "logger", "spanid", "spanId", "spanID", "SpanId", "SpanID"}, OfLength6)
  BY DEF Switched, OfLength6, Tag
<1>6. Switched({"message", "Message", "MESSAGE", "traceid", "traceId", "traceID", "TraceId",
                "TraceID", "span_id", "span.id"}, OfLength7)
  BY DEF Switched, OfLength7, Tag
<1>7. Switched({"severity", "Severity", "trace_id", "trace.id", "protocol"}, OfLength8)
  BY DEF Switched, OfLength8, Tag
<1>8. QED
  BY <1>1, <1>2, <1>3, <1>4, <1>5, <1>6, <1>7

\* Those of nine to twelve.
LEMMA MiddleKeysSwitched ==
  /\ Switched({"timestamp", "Timestamp", "log.level", "levelname", "exception"}, OfLength9)
  /\ Switched({"@timestamp", "request_id", "loggerName", "resourceID", "resourceId", "ResourceId",
               "error.type", "resultType", "statusCode", "StatusCode", "properties",
               "Properties"}, OfLength10)
  /\ Switched({"traceparent", "Traceparent", "TraceParent", "logger_name", "resourceUri",
               "resourceURI", "status_code"}, OfLength11)
  /\ Switched({"severityText", "SeverityText", "service.name", "responseCode"}, OfLength12)
<1>1. Switched({"timestamp", "Timestamp", "log.level", "levelname", "exception"}, OfLength9)
  BY DEF Switched, OfLength9, Tag
<1>2. Switched({"@timestamp", "request_id", "loggerName", "resourceID", "resourceId", "ResourceId",
                "error.type", "resultType", "statusCode", "StatusCode", "properties",
                "Properties"}, OfLength10)
  BY DEF Switched, OfLength10, Tag
<1>3. Switched({"traceparent", "Traceparent", "TraceParent", "logger_name", "resourceUri",
                "resourceURI", "status_code"}, OfLength11)
  BY DEF Switched, OfLength11, Tag
<1>4. Switched({"severityText", "SeverityText", "service.name", "responseCode"}, OfLength12)
  BY DEF Switched, OfLength12, Tag
<1>5. QED
  BY <1>1, <1>2, <1>3, <1>4

\* The longer ones.
LEMMA LongKeysSwitched ==
  /\ Switched({"sourcecontext", "sourceContext", "SourceContext", "eventCategory",
               "eventcategory", "EventCategory", "error.message", "response_code"}, OfLength13)
  /\ Switched({"severityNumber", "exception.type", "response_flags", "responseStatus",
               "ResponseStatus"}, OfLength14)
  /\ Switched({"severity_number", "service.version"}, OfLength15)
  /\ Switched({"exception.message", "error.stack_trace", "resultDescription"}, OfLength17)
  /\ Switched({"grpc_status_number"}, OfLength18)
  /\ Switched({"exception.stacktrace"}, OfLength20)
  /\ Switched({"http.response.status_code"}, OfLength25)
<1>1. Switched({"sourcecontext", "sourceContext", "SourceContext", "eventCategory",
                "eventcategory", "EventCategory", "error.message", "response_code"}, OfLength13)
  BY DEF Switched, OfLength13, Tag
<1>2. Switched({"severityNumber", "exception.type", "response_flags", "responseStatus",
                "ResponseStatus"}, OfLength14)
  BY DEF Switched, OfLength14, Tag
<1>3. Switched({"severity_number", "service.version"}, OfLength15)
  BY DEF Switched, OfLength15, Tag
<1>4. Switched({"exception.message", "error.stack_trace", "resultDescription"}, OfLength17)
  BY DEF Switched, OfLength17, Tag
<1>5. /\ Switched({"grpc_status_number"}, OfLength18)
      /\ Switched({"exception.stacktrace"}, OfLength20)
      /\ Switched({"http.response.status_code"}, OfLength25)
  BY DEF Switched, OfLength18, OfLength20, OfLength25, Tag
<1>6. QED
  BY <1>1, <1>2, <1>3, <1>4, <1>5

\* There is a case for a key, under some length.
Listed(key) == \E n \in DOMAIN ByLength : \E c \in ByLength[n] : key \in c.keys

\* There is one for every key of every tag.
LEMMA TagsListed == \A t \in enrichFields : \A key \in t.keys : Listed(key)
<1>1. ASSUME NEW n \in DOMAIN ByLength, NEW keys, Switched(keys, ByLength[n])
      PROVE  \A key \in keys : Listed(key)
  BY <1>1 DEF Switched, Listed
<1>2. /\ \A key \in {"t", "s"} : Listed(key)
      /\ \A key \in {"@t", "ts", "@l", "@m", "@i", "@x"} : Listed(key)
      /\ \A key \in {"msg", "@mt", "@sv", "@sn", "@sp", "log"} : Listed(key)
      /\ \A key \in {"time", "Time"} : Listed(key)
      /\ \A key \in {"level"} : Listed(key)
      /\ \A key \in {"@level", "logger", "spanid", "spanId", "spanID", "SpanId", "SpanID"} : Listed(key)
      /\ \A key \in {"message", "Message", "MESSAGE", "traceid", "traceId", "traceID", "TraceId",
                     "TraceID", "span_id", "span.id"} : Listed(key)
      /\ \A key \in {"severity", "Severity", "trace_id", "trace.id", "protocol"} : Listed(key)
  <2>1. \A n \in 1..8 : n \in DOMAIN ByLength
    BY LengthsOf
  <2>2. QED
    BY <1>1, <2>1, LengthsOf, ShortKeysSwitched
<1>3. /\ \A key \in {"timestamp", "Timestamp", "log.level", "levelname", "exception"} : Listed(key)
      /\ \A key \in {"@timestamp", "request_id", "loggerName", "resourceID", "resourceId", "ResourceId",
                     "error.type", "resultType", "statusCode", "StatusCode", "properties",
                     "Properties"} : Listed(key)
      /\ \A key \in {"traceparent", "Traceparent", "TraceParent", "logger_name", "resourceUri",
                     "resourceURI", "status_code"} : Listed(key)
      /\ \A key \in {"severityText", "SeverityText", "service.name", "responseCode"} : Listed(key)
  <2>1. \A n \in 9..12 : n \in DOMAIN ByLength
    BY LengthsOf
  <2>2. QED
    BY <1>1, <2>1, LengthsOf, MiddleKeysSwitched
<1>4. /\ \A key \in {"sourcecontext", "sourceContext", "SourceContext", "eventCategory",
                     "eventcategory", "EventCategory", "error.message", "response_code"} : Listed(key)
      /\ \A key \in {"severityNumber", "exception.type", "response_flags", "responseStatus",
                     "ResponseStatus"} : Listed(key)
      /\ \A key \in {"severity_number", "service.version"} : Listed(key)
      /\ \A key \in {"exception.message", "error.stack_trace", "resultDescription"} : Listed(key)
      /\ \A key \in {"grpc_status_number"} : Listed(key)
      /\ \A key \in {"exception.stacktrace"} : Listed(key)
      /\ \A key \in {"http.response.status_code"} : Listed(key)
  <2>1. \A n \in {13, 14, 15, 17, 18, 20, 25} : n \in DOMAIN ByLength
    BY LengthsOf
  <2>2. QED
    BY <1>1, <2>1, LengthsOf, LongKeysSwitched
<1>5. QED
  BY <1>2, <1>3, <1>4 DEF enrichFields, Tag

\* No two tags of a struct share a field or a key.
LEMMA TagsApart ==
  ASSUME NEW struct \in DOMAIN Structs, NEW t \in Structs[struct], NEW u \in Structs[struct]
  PROVE  /\ t.field = u.field => t = u
         /\ \A key \in t.keys : key \in u.keys => t = u
<1>1. \A x, y \in enrichFields : x.field = y.field => x = y
  BY DEF enrichFields, Tag
<1>2. \A x, y \in enrichFields : \A key \in x.keys : key \in y.keys => x = y
  BY DEF enrichFields, Tag
<1>3. CASE struct = "enrichFields"
  BY <1>1, <1>2, <1>3 DEF Structs
<1>4. CASE struct = "enrichProperties"
  BY <1>4 DEF Structs, enrichProperties, Tag
<1>5. CASE struct \in {"enrichResponseStatus", "mongoDate", "httpResponse"}
  <2>1. \E x : Structs[struct] = {x}
    BY <1>5 DEF Structs
  <2>2. QED
    BY <2>1
<1>6. QED
  BY <1>3, <1>4, <1>5 DEF Structs

\* The tag of a field is the one that has it.
LEMMA TagOfField ==
  ASSUME NEW struct \in DOMAIN Structs, NEW t \in Structs[struct]
  PROVE  TagOf(struct, t.field) = t
BY TagsApart DEF TagOf

\* Only a record has fields that are structs, and these have none.
LEMMA Nested ==
  ASSUME NEW struct \in DOMAIN Structs, NEW t \in Structs[struct]
  PROVE  /\ IsStruct(t.kind) => t.kind \in {"enrichProperties", "enrichResponseStatus", "mongoDate"}
         /\ struct \in {"enrichProperties", "enrichResponseStatus", "mongoDate", "httpResponse"}
              => ~ IsStruct(t.kind)
<1>1. DOMAIN Structs = {"enrichFields", "enrichProperties", "enrichResponseStatus", "mongoDate", "httpResponse"}
  BY DEF Structs
<1>2. CASE struct = "enrichFields"
  <2>1. \A x \in enrichFields :
          x.kind \in {"time", "string", "number", "enrichProperties", "enrichResponseStatus", "mongoDate"}
    BY DEF enrichFields, Tag
  <2>2. QED
    BY <1>1, <1>2, <2>1 DEF Structs, IsStruct
<1>3. CASE struct = "enrichProperties"
  BY <1>1, <1>3 DEF Structs, enrichProperties, Tag, IsStruct
<1>4. CASE struct \in {"enrichResponseStatus", "mongoDate", "httpResponse"}
  BY <1>1, <1>4 DEF Structs, Tag, IsStruct
<1>5. QED
  BY <1>1, <1>2, <1>3, <1>4

\* The switches on length and key take a key where the tags say, and no key
\* of a tag is missed.
LEMMA SwitchIsTags ==
  ASSUME NEW struct \in DOMAIN Structs, NEW key
  PROVE  /\ \A c \in Cases(struct, key) : \E t \in Structs[struct] :
              t.field = c.field /\ t.kind = c.kind /\ key \in t.keys
         /\ \A t \in Structs[struct] : key \in t.keys => Cases(struct, key) # {}
<1>1. CASE struct = "enrichFields"
  <2>1. Cases(struct, key) =
          {c \in UNION {ByLength[n] : n \in {Len(key)} \cap DOMAIN ByLength} : key \in c.keys}
    BY <1>1 DEF Cases, CasesOf
  <2>2. Structs[struct] = enrichFields
    BY <1>1 DEF Structs
  <2>3. ASSUME NEW t \in enrichFields, key \in t.keys PROVE Cases(struct, key) # {}
    <3>1. PICK n \in DOMAIN ByLength : \E c \in ByLength[n] : key \in c.keys
      BY <2>3, TagsListed DEF Listed
    <3>2. Len(key) = n
      BY <3>1, KeyLengthsAssumption
    <3>3. QED
      BY <2>1, <3>1, <3>2
  <2>4. QED
    BY <2>1, <2>2, <2>3, CasesKnown DEF Known
<1>2. CASE struct # "enrichFields"
  <2>1. CasesOf(struct, key) = Structs[struct]
    BY <1>2 DEF Structs, CasesOf, enrichProperties, enrichPropertiesCases,
         enrichResponseStatusCases, mongoDateCases, httpResponseCases
  <2>2. QED
    BY <2>1 DEF Cases
<1>3. QED
  BY <1>1, <1>2

-----------------------------------------------------------------------------
(* The last of the readable members *)

\* A non-empty set of positions up to n has a greatest one, and Max is it.
LEMMA MaxIsGreatest ==
  ASSUME NEW n \in Nat, NEW S \in SUBSET (1..n), S # {}
  PROVE  Max(S) \in S /\ \A y \in S : Max(S) >= y
<1> DEFINE R == OpToRel(<, Nat)
           D == {n - x : x \in S}
<1>1. IsWellFoundedOn(R, Nat)
  BY NatLessThanWellFounded
<1>2. D \in SUBSET Nat /\ D # {}
  <2>1. \A x \in S : n - x \in Nat
    OBVIOUS
  <2>2. PICK x \in S : TRUE
    OBVIOUS
  <2>3. n - x \in D
    OBVIOUS
  <2> HIDE DEF R
  <2>4. QED
    BY <2>1, <2>3
<1>3. PICK d \in D : \A e \in D : ~ (<<e, d>> \in R)
  <2> HIDE DEF R, D
  <2> QED BY <1>1, <1>2, WFMin
<1>4. \A x, y \in Nat : x < y => <<x, y>> \in R
  BY Zenon DEF R, OpToRel
<1>5. \A e \in D : d <= e
  <2> HIDE DEF R, D
  <2>1. \A e \in D : e \in Nat /\ d \in Nat /\ ~ (e < d)
    BY <1>2, <1>3, <1>4
  <2>2. QED
    BY <2>1
<1>6. PICK x \in S : d = n - x
  BY <1>3
<1>7. \A y \in S : x >= y
  <2>1. TAKE y \in S
  <2>2. d <= n - y
    BY <1>5
  <2>3. QED
    BY <1>6, <2>2
<1>8. QED
  BY <1>7 DEF Max

\* Among the first n members, those that say something of the tag's field.
Hits(read, n, tag) == {i \in 1..n : read[i].key \in tag.keys /\ Value(tag, read[i]) # Fails}

\* What the last of them says.
LastUpTo(read, n, tag) ==
  IF Hits(read, n, tag) = {} THEN Zero ELSE Value(tag, read[Max(Hits(read, n, tag))])

\* LastReadable is that of the whole record.
LEMMA LastOfAll ==
  ASSUME NEW S, NEW read \in Seq(S), NEW tag
  PROVE  LastReadable(read, tag) = LastUpTo(read, Len(read), tag)
<1>1. DOMAIN read = 1..Len(read)
  OBVIOUS
<1>2. {i \in DOMAIN read : read[i].key \in tag.keys /\ Value(tag, read[i]) # Fails}
        = Hits(read, Len(read), tag)
  BY <1>1 DEF Hits
<1>3. QED
  BY <1>2 DEF LastReadable, LastUpTo

\* It depends on no later member.
LEMMA SameSoFar ==
  ASSUME NEW read, NEW other, NEW n \in Nat, NEW tag, \A i \in 1..n : read[i] = other[i]
  PROVE  LastUpTo(read, n, tag) = LastUpTo(other, n, tag)
<1>1. Hits(read, n, tag) = Hits(other, n, tag)
  BY DEF Hits
<1>2. Hits(read, n, tag) \in SUBSET (1..n)
  BY DEF Hits
<1>3. Hits(read, n, tag) # {} => Max(Hits(read, n, tag)) \in 1..n
  BY <1>2, MaxIsGreatest
<1>4. QED
  BY <1>1, <1>3 DEF LastUpTo

\* One member more.
LEMMA OneMore ==
  ASSUME NEW read, NEW n \in Nat, NEW tag
  PROVE  LastUpTo(read, n + 1, tag) =
           IF read[n + 1].key \in tag.keys /\ Value(tag, read[n + 1]) # Fails
           THEN Value(tag, read[n + 1]) ELSE LastUpTo(read, n, tag)
<1> DEFINE H == Hits(read, n, tag)
           G == Hits(read, n + 1, tag)
<1>1. n + 1 \in Nat /\ G \in SUBSET (1..n + 1) /\ H \in SUBSET (1..n)
  BY DEF Hits
<1>2. CASE read[n + 1].key \in tag.keys /\ Value(tag, read[n + 1]) # Fails
  <2>1. n + 1 \in G
    BY <1>2 DEF Hits
  <2>2. Max(G) \in G /\ Max(G) >= n + 1
    BY <1>1, <2>1, MaxIsGreatest
  <2>3. Max(G) = n + 1
    BY <1>1, <2>2
  <2>4. QED
    BY <1>2, <2>1, <2>3 DEF LastUpTo
<1>3. CASE ~ (read[n + 1].key \in tag.keys /\ Value(tag, read[n + 1]) # Fails)
  <2>1. G = H
    BY <1>3 DEF Hits
  <2>2. QED
    BY <1>3, <2>1 DEF LastUpTo
<1>4. QED
  BY <1>2, <1>3

\* What a field holds when got was the last for it.
Taken(tag, got) ==
  IF IsStruct(tag.kind) THEN LastOf(tag.kind, IF got = Zero THEN << >> ELSE got[1]) ELSE got

\* What the tags say of the first n members.
MeaningUpTo(struct, read, n) ==
  [f \in {t.field : t \in Structs[struct]} |->
     Taken(TagOf(struct, f), LastUpTo(read, n, TagOf(struct, f)))]

\* Meaning is that of the whole record, and so is LastOf, of a nested object.
LEMMA MeaningOfAll ==
  ASSUME NEW S, NEW read \in Seq(S), NEW struct \in DOMAIN Structs
  PROVE  /\ Meaning(struct, read) = MeaningUpTo(struct, read, Len(read))
         /\ struct \in {"enrichProperties", "enrichResponseStatus", "mongoDate"} =>
              LastOf(struct, read) = MeaningUpTo(struct, read, Len(read))
<1>1. Meaning(struct, read) = MeaningUpTo(struct, read, Len(read))
  BY LastOfAll DEF Meaning, MeaningUpTo, Taken
<1>2. ASSUME struct \in {"enrichProperties", "enrichResponseStatus", "mongoDate"}
      PROVE  LastOf(struct, read) = MeaningUpTo(struct, read, Len(read))
  <2>1. \A t \in Structs[struct] : TagOf(struct, t.field) = t /\ ~ IsStruct(t.kind)
    BY <1>2, TagOfField, Nested
  <2>2. QED
    BY <2>1, LastOfAll DEF LastOf, MeaningUpTo, Taken
<1>3. QED
  BY <1>1, <1>2

\* Records that agree on their first n members mean the same so far.
LEMMA SameMeaning ==
  ASSUME NEW read, NEW other, NEW n \in Nat, NEW struct, \A i \in 1..n : read[i] = other[i]
  PROVE  MeaningUpTo(struct, read, n) = MeaningUpTo(struct, other, n)
BY SameSoFar DEF MeaningUpTo

\* A member no tag can read changes nothing.
LEMMA NothingRead ==
  ASSUME NEW read, NEW n \in Nat, NEW struct \in DOMAIN Structs,
         \A t \in Structs[struct] : read[n + 1].key \in t.keys => Value(t, read[n + 1]) = Fails
  PROVE  MeaningUpTo(struct, read, n + 1) = MeaningUpTo(struct, read, n)
<1>1. \A t \in Structs[struct] : LastUpTo(read, n + 1, t) = LastUpTo(read, n, t)
  BY OneMore
<1>2. \A t \in Structs[struct] : TagOf(struct, t.field) = t
  BY TagOfField
<1>3. QED
  BY <1>1, <1>2 DEF MeaningUpTo

\* A member a tag can read replaces what that tag's field held, and no other.
LEMMA OneRead ==
  ASSUME NEW read, NEW n \in Nat, NEW struct \in DOMAIN Structs, NEW t \in Structs[struct],
         read[n + 1].key \in t.keys, Value(t, read[n + 1]) # Fails
  PROVE  MeaningUpTo(struct, read, n + 1) =
           [MeaningUpTo(struct, read, n) EXCEPT ![t.field] = Taken(t, Value(t, read[n + 1]))]
<1>1. LastUpTo(read, n + 1, t) = Value(t, read[n + 1])
  BY OneMore
<1>2. \A u \in Structs[struct] : u # t => LastUpTo(read, n + 1, u) = LastUpTo(read, n, u)
  BY OneMore, TagsApart
<1>3. \A u \in Structs[struct] : TagOf(struct, u.field) = u /\ (u.field = t.field => u = t)
  BY TagOfField, TagsApart
<1>4. QED
  BY <1>1, <1>2, <1>3 DEF MeaningUpTo

\* Before the first member every field has its zero value.
LEMMA NothingYet ==
  ASSUME NEW struct \in DOMAIN Structs, NEW read
  PROVE  /\ MeaningUpTo(struct, read, 0) = ZeroFields(struct)
         /\ struct \in {"enrichProperties", "enrichResponseStatus", "mongoDate"} =>
              ZeroOf(struct) = MeaningUpTo(struct, read, 0) /\ ZeroOf(struct) = LastOf(struct, << >>)
<1>1. \A tag : LastUpTo(read, 0, tag) = Zero /\ LastReadable(<< >>, tag) = Zero
  BY DEF LastUpTo, Hits, LastReadable
<1>2. \A kind : ZeroOf(kind) = LastOf(kind, << >>)
  BY <1>1 DEF ZeroOf, LastOf
<1>3. \A tag : Taken(tag, Zero) = Initial(tag.kind)
  BY <1>2 DEF Taken, Initial
<1>4. MeaningUpTo(struct, read, 0) = ZeroFields(struct)
  BY <1>1, <1>3 DEF MeaningUpTo, ZeroFields
<1>5. ASSUME struct \in {"enrichProperties", "enrichResponseStatus", "mongoDate"}
      PROVE  ZeroOf(struct) = MeaningUpTo(struct, read, 0)
  <2>1. \A t \in Structs[struct] : TagOf(struct, t.field) = t /\ ~ IsStruct(t.kind)
    BY <1>5, TagOfField, Nested
  <2>2. QED
    BY <1>1, <2>1 DEF MeaningUpTo, Taken, ZeroOf
<1>6. QED
  BY <1>2, <1>4, <1>5

-----------------------------------------------------------------------------
(* The invariant *)

NestedKinds == {"enrichProperties", "enrichResponseStatus", "mongoDate"}

\* What the members of an object and of a record are.
Places       == (Nat \ {0}) \X (Nat \ {0})
InnerMembers == [key : UNION {InnerKeys[kind] : kind \in NestedKinds}, value : InnerKinds, contents : Places]
Objects      == {ObjectOf(read) : read \in Seq(InnerMembers)}
Members      ==
  {m \in [key : Keys["enrichFields"] \cup Keys["httpResponse"],
          value : Kinds \cup {"object", "ragged", "broken"}, contents : Places \cup Objects] :
     m.value = "object" => m.contents \in Objects}

\* The members that have been read to their end.
Finished == IF status = "inside" THEN Len(record) - 1 ELSE Len(record)

\* The object being read is that of the last member's field.
Entered ==
  /\ record # << >>
  /\ \E t \in Structs[top] :
       /\ t.field = inner.field /\ t.kind = inner.kind /\ IsStruct(t.kind)
       /\ record[Len(record)].key \in t.keys
  /\ inner.read = LastOf(inner.kind, members)

DInv ==
  /\ top \in {"enrichFields", "httpResponse"}
  /\ record \in Seq(Members) /\ members \in Seq(InnerMembers)
  /\ IF status = "inside" THEN Entered ELSE members = << >>
  /\ fields = MeaningUpTo(top, record, Finished)
  /\ used # NoFields => status = "done" /\ used = fields

\* A reader answers the zero value, an error or the text it was given; that
\* of a struct is none of the scalar ones, and none of them reads an object.
LEMMA Outcomes ==
  ASSUME NEW kind, NEW value, NEW contents
  PROVE  /\ Outcome(kind, value, contents) \in {Zero, Fails, contents}
         /\ value = "null" => Outcome(kind, value, contents) = Zero
         /\ kind \in NestedKinds /\ value # "null" => Outcome(kind, value, contents) = Fails
         /\ value = "object" => Outcome(kind, value, contents) = Fails
BY DEF Outcome, NestedKinds

\* No text is one of the two answers.
LEMMA TextsAreTexts ==
  /\ Zero # Fails
  /\ \A place \in Places : place # Zero /\ place # Fails
  /\ \A read : ObjectOf(read) # Zero /\ ObjectOf(read) # Fails /\ ObjectOf(read)[1] = read
<1>1. Len(Zero) = 2 /\ Len(Fails) = 2 /\ \A read : Len(ObjectOf(read)) = 1 /\ ObjectOf(read)[1] = read
  BY DEF Zero, Fails, ObjectOf
<1>2. Zero # Fails /\ \A place \in Places : place # Zero /\ place # Fails
  BY DEF Zero, Fails, Places
<1>3. QED
  BY <1>1, <1>2

\* The invariant holds at the start.
LEMMA StartsDecoded == Init => DInv
<1> SUFFICES ASSUME Init PROVE DInv
  OBVIOUS
<1>1. top \in DOMAIN Structs
  BY DEF Init, Structs
<1>2. fields = MeaningUpTo(top, record, 0)
  BY <1>1, NothingYet DEF Init
<1>3. Finished = 0
  BY DEF Init, Finished
<1>4. QED
  BY <1>2, <1>3 DEF Init, DInv

\* A member of the record leaves the fields what the tags say.
LEMMA MemberDecoded == DInv /\ ReadMember => DInv'
<1> SUFFICES ASSUME DInv, ReadMember PROVE DInv'
  OBVIOUS
<1>1. PICK key \in Keys[top], value \in Kinds :
        /\ record' = Append(record, Member(key, value, Found(value)))
        /\ IF Cases(top, key) = {} THEN Skip(value)
           ELSE \E case \in Cases(top, key) :
                  IF IsStruct(case.kind) THEN Object(value, case) ELSE Scalar(value, case)
  BY DEF ReadMember
<1> DEFINE m == Member(key, value, Found(value))
           n == Len(record)
<1>2. /\ status = "reading" /\ used = NoFields /\ members = << >>
      /\ UNCHANGED <<top, used, members>> /\ top \in DOMAIN Structs
      /\ record \in Seq(Members) /\ n \in Nat
      /\ top \in {"enrichFields", "httpResponse"}
  BY DEF DInv, ReadMember, Structs
<1>3. Contents \in Places /\ Found(value) = (IF value = "object" THEN ObjectOf(<< >>) ELSE Contents)
  BY <1>2 DEF Contents, Found, Places
<1>4. m \in Members
  <2>1. ObjectOf(<< >>) \in Objects
    <3>1. << >> \in Seq(InnerMembers)
      OBVIOUS
    <3>2. QED
      BY <3>1 DEF Objects
  <2>2. key \in Keys["enrichFields"] \cup Keys["httpResponse"]
    BY <1>2
  <2>3. QED
    BY <1>3, <2>1, <2>2 DEF Members, Member
<1>5. /\ record' \in Seq(Members) /\ Len(record') = n + 1 /\ record'[n + 1] = m
      /\ \A i \in 1..n : record'[i] = record[i]
  <2> HIDE DEF m
  <2> QED BY <1>1, <1>2, <1>4 DEF m
<1>6. fields = MeaningUpTo(top, record', n)
  <2>1. fields = MeaningUpTo(top, record, n)
    BY <1>2 DEF DInv, Finished
  <2>2. QED
    BY <1>2, <1>5, <2>1, SameMeaning
<1>7. m.key = key /\ m.value = value /\ m.contents = Found(value)
  BY DEF Member
<1> HIDE DEF m, n
<1>8. ASSUME \A t \in Structs[top] : key \in t.keys => Value(t, m) = Fails, Skip(value)
      PROVE  DInv'
  <2>1. fields = MeaningUpTo(top, record', n + 1)
    BY <1>2, <1>5, <1>6, <1>7, <1>8, NothingRead
  <2>2. fields' = fields /\ status' # "inside"
    BY <1>2, <1>8 DEF Skip
  <2>3. QED
    BY <1>2, <1>5, <2>1, <2>2 DEF DInv, Finished
<1>9. CASE Cases(top, key) = {}
  BY <1>1, <1>2, <1>8, <1>9, SwitchIsTags
<1>10. CASE Cases(top, key) # {}
  <2>1. PICK case \in Cases(top, key) :
          IF IsStruct(case.kind) THEN Object(value, case) ELSE Scalar(value, case)
    BY <1>1, <1>10
  <2>2. PICK t \in Structs[top] : t.field = case.field /\ t.kind = case.kind /\ key \in t.keys
    BY <1>2, SwitchIsTags
  <2>3. \A u \in Structs[top] : key \in u.keys => u = t
    BY <1>2, <2>2, TagsApart
  <2>4. ASSUME Value(t, m) # Fails, status' = status,
               fields' = [fields EXCEPT ![t.field] = Taken(t, Value(t, m))]
        PROVE  DInv'
    <3>1. record'[n + 1].key \in t.keys /\ Value(t, record'[n + 1]) # Fails
      BY <1>5, <1>7, <2>2, <2>4
    <3>2. MeaningUpTo(top, record', n + 1) =
            [MeaningUpTo(top, record', n) EXCEPT ![t.field] = Taken(t, Value(t, record'[n + 1]))]
      BY <1>2, <3>1, OneRead
    <3>3. fields' = MeaningUpTo(top, record', n + 1)
      BY <1>5, <1>6, <2>4, <3>2
    <3>4. QED
      BY <1>2, <1>5, <2>4, <3>3 DEF DInv, Finished
  <2>5. CASE ~ IsStruct(case.kind)
    <3>1. Scalar(value, case)
      BY <2>1, <2>5
    <3>2. Value(t, m) = Outcome(case.kind, value, Contents)
      BY <1>3, <1>7, <2>2, <2>5, Outcomes DEF Value
    <3>3. CASE Outcome(case.kind, value, Contents) = Fails
      BY <1>8, <2>3, <3>1, <3>2, <3>3 DEF Scalar
    <3>4. CASE Outcome(case.kind, value, Contents) # Fails
      BY <2>2, <2>4, <2>5, <3>1, <3>2, <3>4 DEF Scalar, Taken
    <3>5. QED
      BY <3>3, <3>4
  <2>6. CASE IsStruct(case.kind)
    <3>1. Object(value, case)
      BY <2>1, <2>6
    <3>2. t.kind \in NestedKinds
      BY <1>2, <2>2, <2>6, Nested DEF NestedKinds
    <3>3. t.kind \in DOMAIN Structs
      BY <3>2 DEF NestedKinds, Structs
    <3>4. CASE value = "object"
      <4>1. /\ status' = "inside" /\ fields' = fields
            /\ inner' = [field |-> t.field, kind |-> t.kind, read |-> ZeroOf(t.kind)]
        BY <2>2, <3>1, <3>4 DEF Object
      <4>2. ZeroOf(t.kind) = LastOf(t.kind, members')
        BY <1>2, <3>2, <3>3, NothingYet DEF NestedKinds
      <4>3. Entered'
        <5>1. record' # << >> /\ record'[Len(record')].key = key
          BY <1>2, <1>5, <1>7
        <5>2. /\ t \in Structs[top'] /\ t.field = inner'.field /\ t.kind = inner'.kind
              /\ IsStruct(t.kind) /\ key \in t.keys
          BY <1>2, <2>2, <2>6, <4>1
        <5>3. inner'.read = LastOf(inner'.kind, members')
          BY <4>1, <4>2
        <5>4. QED
          BY <5>1, <5>2, <5>3 DEF Entered
      <4>4. fields' = MeaningUpTo(top', record', Finished')
        BY <1>2, <1>5, <1>6, <4>1 DEF Finished
      <4>5. members' \in Seq(InnerMembers)
        BY <1>2
      <4>6. QED
        BY <1>2, <1>5, <4>1, <4>3, <4>4, <4>5 DEF DInv
    <3>5. CASE value = "null"
      <4>1. fields' = [fields EXCEPT ![t.field] = ZeroOf(t.kind)] /\ status' = status
        BY <2>2, <3>1, <3>5 DEF Object
      <4>2. Value(t, m) = Zero
        BY <1>7, <3>5, Outcomes DEF Value
      <4>3. Taken(t, Zero) = ZeroOf(t.kind)
        BY <2>2, <2>6, <3>2, <3>3, NothingYet DEF Taken, NestedKinds
      <4>4. QED
        BY <2>4, <4>1, <4>2, <4>3, TextsAreTexts
    <3>6. CASE value \notin {"object", "null"}
      <4>1. Skip(value)
        BY <3>1, <3>6 DEF Object
      <4>2. Value(t, m) = Fails
        BY <1>7, <3>2, <3>6, Outcomes DEF Value
      <4>3. QED
        BY <1>8, <2>3, <4>1, <4>2
    <3>7. QED
      BY <3>4, <3>5, <3>6
  <2>7. QED
    BY <2>5, <2>6
<1>11. QED
  BY <1>9, <1>10

\* A member of a nested object leaves the copy what the tags say of it.
LEMMA InnerMemberDecoded == DInv /\ ReadInnerMember => DInv'
<1> SUFFICES ASSUME DInv, ReadInnerMember PROVE DInv'
  OBVIOUS
<1> DEFINE n == Len(members)
<1>1. /\ status = "inside" /\ UNCHANGED <<top, fields, status, used, record>>
      /\ record \in Seq(Members) /\ members \in Seq(InnerMembers) /\ n \in Nat
      /\ top \in {"enrichFields", "httpResponse"} /\ top \in DOMAIN Structs
  BY DEF DInv, ReadInnerMember, Structs
<1>2. PICK t \in Structs[top] :
        /\ t.field = inner.field /\ t.kind = inner.kind /\ IsStruct(t.kind)
        /\ record[Len(record)].key \in t.keys
  BY <1>1 DEF DInv, Entered
<1>3. record # << >> /\ inner.read = LastOf(inner.kind, members)
  BY <1>1 DEF DInv, Entered
<1>4. inner.kind \in NestedKinds
  BY <1>1, <1>2, Nested DEF NestedKinds
<1>5. inner.kind \in DOMAIN Structs
  BY <1>4 DEF NestedKinds, Structs
<1>6. PICK key \in InnerKeys[inner.kind], value \in InnerKinds : InnerMember(key, value)
  BY DEF ReadInnerMember
<1> DEFINE m == Member(key, value, Contents)
<1>7. m.key = key /\ m.value = value /\ m.contents = Contents
  BY DEF Member
<1>8. m \in InnerMembers
  <2>1. Contents \in Places
    BY <1>1 DEF Contents, Places
  <2>2. QED
    BY <1>4, <2>1 DEF Member, InnerMembers
<1>9. members' = Append(members, m)
  BY <1>6 DEF InnerMember
<1> HIDE DEF m
<1>10. /\ members' \in Seq(InnerMembers) /\ Len(members') = n + 1 /\ members'[n + 1] = m
       /\ \A i \in 1..n : members'[i] = members[i]
  BY <1>1, <1>8, <1>9
<1> HIDE DEF n
<1>11. inner.read = MeaningUpTo(inner.kind, members', n)
  <2>1. inner.read = MeaningUpTo(inner.kind, members, n)
    BY <1>1, <1>3, <1>4, <1>5, MeaningOfAll DEF NestedKinds, n
  <2>2. QED
    BY <1>1, <1>10, <2>1, SameMeaning
<1>12. LastOf(inner.kind, members') = MeaningUpTo(inner.kind, members', n + 1)
  BY <1>4, <1>5, <1>10, MeaningOfAll DEF NestedKinds
<1>13. inner'.read = LastOf(inner.kind, members') /\ inner'.field = inner.field /\ inner'.kind = inner.kind
  <2>1. CASE Cases(inner.kind, key) = {}
    <3>1. inner' = inner
      BY <1>6, <2>1 DEF InnerMember
    <3>2. \A u \in Structs[inner.kind] : members'[n + 1].key \notin u.keys
      BY <1>5, <1>7, <1>10, <2>1, SwitchIsTags
    <3>3. MeaningUpTo(inner.kind, members', n + 1) = MeaningUpTo(inner.kind, members', n)
      BY <1>1, <1>5, <3>2, NothingRead
    <3>4. QED
      BY <1>11, <1>12, <3>1, <3>3
  <2>2. CASE Cases(inner.kind, key) # {}
    <3>1. PICK case \in Cases(inner.kind, key) :
            LET got == Outcome(case.kind, value, Contents)
            IN  inner' = IF got = Fails THEN inner ELSE [inner EXCEPT !.read[case.field] = got]
      BY <1>6, <2>2 DEF InnerMember
    <3>2. PICK u \in Structs[inner.kind] : u.field = case.field /\ u.kind = case.kind /\ key \in u.keys
      BY <1>5, SwitchIsTags
    <3>3. \A w \in Structs[inner.kind] : key \in w.keys => w = u
      BY <1>5, <3>2, TagsApart
    <3>4. ~ IsStruct(u.kind)
      BY <1>4, <1>5, Nested DEF NestedKinds
    <3>5. Value(u, members'[n + 1]) = Outcome(case.kind, value, Contents)
      BY <1>7, <1>10, <3>2, <3>4 DEF Value
    <3>6. CASE Outcome(case.kind, value, Contents) = Fails
      <4>1. inner' = inner
        BY <3>1, <3>6
      <4>2. \A w \in Structs[inner.kind] :
              members'[n + 1].key \in w.keys => Value(w, members'[n + 1]) = Fails
        BY <1>7, <1>10, <3>3, <3>5, <3>6
      <4>3. MeaningUpTo(inner.kind, members', n + 1) = MeaningUpTo(inner.kind, members', n)
        BY <1>1, <1>5, <4>2, NothingRead
      <4>4. QED
        BY <1>11, <1>12, <4>1, <4>3
    <3>7. CASE Outcome(case.kind, value, Contents) # Fails
      <4>1. inner' = [inner EXCEPT !.read[u.field] = Outcome(case.kind, value, Contents)]
        BY <3>1, <3>2, <3>7
      <4>2. members'[n + 1].key \in u.keys /\ Value(u, members'[n + 1]) # Fails
        BY <1>7, <1>10, <3>2, <3>5, <3>7
      <4>3. MeaningUpTo(inner.kind, members', n + 1) =
              [MeaningUpTo(inner.kind, members', n) EXCEPT
                 ![u.field] = Taken(u, Value(u, members'[n + 1]))]
        BY <1>1, <1>5, <4>2, OneRead
      <4>4. Taken(u, Value(u, members'[n + 1])) = Outcome(case.kind, value, Contents)
        BY <3>4, <3>5 DEF Taken
      <4>5. QED
        BY <1>11, <1>12, <4>1, <4>3, <4>4
    <3>8. QED
      BY <3>6, <3>7
  <2>3. QED
    BY <2>1, <2>2
<1>14. Entered'
  BY <1>1, <1>2, <1>3, <1>13 DEF Entered
<1>15. fields' = MeaningUpTo(top', record', Finished')
  BY <1>1 DEF DInv, Finished
<1>16. QED
  BY <1>1, <1>10, <1>14, <1>15 DEF DInv

\* What the last member is called once its object is left.
LEMMA LastMemberRenamed ==
  ASSUME DInv, status = "inside", NEW value \in {"object", "ragged", "broken"},
         LeaveObject(value, ObjectOf(members)), UNCHANGED top
  PROVE  LET n == Len(record) - 1
         IN  /\ n \in Nat /\ record' \in Seq(Members) /\ Len(record') = n + 1
             /\ record'[n + 1].value = value
             /\ record'[n + 1].key = record[n + 1].key
             /\ record'[n + 1].contents = ObjectOf(members)
             /\ fields = MeaningUpTo(top, record', n)
<1> DEFINE n == Len(record) - 1
           m == [record[n + 1] EXCEPT !.value = value, !.contents = ObjectOf(members)]
<1>1. /\ record \in Seq(Members) /\ record # << >> /\ members \in Seq(InnerMembers)
      /\ fields = MeaningUpTo(top, record, n)
  BY DEF DInv, Entered, Finished
<1>2. n \in Nat /\ n + 1 \in 1..Len(record) /\ Len(record) = n + 1
  BY <1>1
<1>3. record[n + 1] \in Members
  BY <1>1, <1>2
<1>4. /\ m \in Members
      /\ m.value = value /\ m.key = record[n + 1].key /\ m.contents = ObjectOf(members)
  <2>1. ObjectOf(members) \in Objects
    BY <1>1 DEF Objects
  <2>2. QED
    BY <1>3, <2>1 DEF Members
<1>5. record' = [record EXCEPT ![n + 1] = m]
  BY <1>1, <1>2, <1>3 DEF LeaveObject, Members
<1> HIDE DEF m, n
<1>6. /\ record' \in Seq(Members) /\ Len(record') = n + 1 /\ record'[n + 1] = m
      /\ \A i \in 1..n : record'[i] = record[i]
  <2>1. m \in Members
    BY <1>4
  <2>2. QED
    BY <1>1, <1>2, <1>5, <2>1
<1>7. fields = MeaningUpTo(top, record', n)
  BY <1>1, <1>2, <1>6, SameMeaning
<1>8. QED
  BY <1>2, <1>4, <1>6, <1>7 DEF n

\* A whole object becomes its field.
LEMMA ObjectDecoded == DInv /\ CloseInner => DInv'
<1> SUFFICES ASSUME DInv, CloseInner PROVE DInv'
  OBVIOUS
<1> DEFINE n == Len(record) - 1
<1>1. /\ status = "inside" /\ status' = "reading" /\ UNCHANGED <<top, used>>
      /\ fields' = [fields EXCEPT ![inner.field] = inner.read]
      /\ LeaveObject("object", ObjectOf(members)) /\ members' = << >>
      /\ members \in Seq(InnerMembers)
      /\ top \in {"enrichFields", "httpResponse"} /\ top \in DOMAIN Structs
  BY DEF DInv, CloseInner, LeaveObject, Structs
<1>2. /\ n \in Nat /\ record' \in Seq(Members) /\ Len(record') = n + 1
      /\ record'[n + 1].value = "object"
      /\ record'[n + 1].key = record[n + 1].key
      /\ record'[n + 1].contents = ObjectOf(members)
      /\ fields = MeaningUpTo(top, record', n)
  BY <1>1, LastMemberRenamed
<1>3. PICK t \in Structs[top] :
        /\ t.field = inner.field /\ t.kind = inner.kind /\ IsStruct(t.kind)
        /\ record[Len(record)].key \in t.keys
  BY <1>1 DEF DInv, Entered
<1>4. inner.read = LastOf(inner.kind, members) /\ record # << >> /\ record \in Seq(Members)
  BY <1>1 DEF DInv, Entered
<1>5. Len(record) = n + 1
  BY <1>4
<1> HIDE DEF n
<1>6. Value(t, record'[n + 1]) = ObjectOf(members)
  BY <1>2, <1>3 DEF Value
<1>7. record'[n + 1].key \in t.keys /\ Value(t, record'[n + 1]) # Fails
  BY <1>2, <1>3, <1>5, <1>6, TextsAreTexts
<1>8. MeaningUpTo(top, record', n + 1) =
        [MeaningUpTo(top, record', n) EXCEPT ![t.field] = Taken(t, Value(t, record'[n + 1]))]
  <2>1. n \in Nat /\ top \in DOMAIN Structs
    BY <1>1, <1>2
  <2>2. QED
    BY <1>7, <2>1, OneRead
<1>9. Taken(t, ObjectOf(members)) = inner.read
  BY <1>3, <1>4, TextsAreTexts DEF Taken
<1>10. fields' = MeaningUpTo(top, record', n + 1)
  BY <1>1, <1>2, <1>3, <1>6, <1>8, <1>9
<1>11. used' = NoFields
  BY <1>1 DEF DInv
<1>12. QED
  BY <1>1, <1>2, <1>10, <1>11 DEF DInv, Finished

\* A malformed one leaves the field alone.
LEMMA MalformedDropped == DInv /\ Malformed => DInv'
<1> SUFFICES ASSUME DInv, Malformed PROVE DInv'
  OBVIOUS
<1> DEFINE n == Len(record) - 1
<1>1. /\ status = "inside" /\ status' # "inside" /\ UNCHANGED <<top, fields, used>>
      /\ top \in {"enrichFields", "httpResponse"} /\ top \in DOMAIN Structs
      /\ record # << >> /\ record \in Seq(Members)
  BY DEF DInv, Malformed, Entered, Structs
<1>2. PICK value \in {"ragged", "broken"} : LeaveObject(value, ObjectOf(members))
  BY DEF Malformed
<1>3. /\ n \in Nat /\ record' \in Seq(Members) /\ Len(record') = n + 1
      /\ record'[n + 1].value = value
      /\ record'[n + 1].key = record[n + 1].key
      /\ fields = MeaningUpTo(top, record', n)
  BY <1>1, <1>2, LastMemberRenamed
<1>4. PICK t \in Structs[top] : IsStruct(t.kind) /\ record[Len(record)].key \in t.keys
  BY <1>1 DEF DInv, Entered
<1>5. Len(record) = n + 1
  BY <1>1
<1> HIDE DEF n
<1>6. \A u \in Structs[top] : record'[n + 1].key \in u.keys => Value(u, record'[n + 1]) = Fails
  <2>1. t.kind \in NestedKinds
    BY <1>1, <1>4, Nested DEF NestedKinds
  <2>2. Value(t, record'[n + 1]) = Fails
    BY <1>3, <2>1, Outcomes DEF Value
  <2>3. QED
    BY <1>1, <1>3, <1>4, <1>5, <2>2, TagsApart
<1>7. fields = MeaningUpTo(top, record', n + 1)
  BY <1>1, <1>3, <1>6, NothingRead
<1>8. used' = NoFields /\ members' = << >>
  BY <1>1, <1>2 DEF DInv, LeaveObject
<1>9. members' \in Seq(InnerMembers)
  BY <1>8
<1>10. QED
  BY <1>1, <1>3, <1>7, <1>8, <1>9 DEF DInv, Finished

\* No step breaks the invariant.
LEMMA StepDecoded == DInv /\ [Next]_vars => DInv'
<1> SUFFICES ASSUME DInv, [Next]_vars PROVE DInv'
  OBVIOUS
<1>1. CASE Close
  BY <1>1 DEF Close, DInv, Finished
<1>2. CASE Break
  BY <1>2 DEF Break, DInv, Finished
<1>3. CASE Use
  BY <1>3 DEF Use, DInv, Finished
<1>4. CASE UNCHANGED vars
  BY <1>4 DEF vars, DInv, Finished, Entered
<1>5. QED
  BY <1>1, <1>2, <1>3, <1>4, MemberDecoded, InnerMemberDecoded, ObjectDecoded, MalformedDropped DEF Next

\* The decoder's invariant, for records of any length.
THEOREM AlwaysDecoded == Spec => []DInv
BY StartsDecoded, StepDecoded, PTL DEF Spec

-----------------------------------------------------------------------------
(* The properties *)

\* The enricher is given what the struct tags say of the record: each field the
\* last of its values that can be read, whatever the keys, their number and
\* their order; and nothing of a record that did not decode.
THEOREM LastOneWins == Spec => []LastReadableWins
<1>1. DInv => LastReadableWins
  <2> SUFFICES ASSUME DInv, used # NoFields PROVE status = "done" /\ used = Meaning(top, record)
    BY DEF LastReadableWins
  <2>1. /\ status = "done" /\ used = MeaningUpTo(top, record, Len(record))
        /\ record \in Seq(Members) /\ top \in DOMAIN Structs
    BY DEF DInv, Finished, Structs
  <2>2. QED
    BY <2>1, MeaningOfAll
<1>2. QED
  BY <1>1, AlwaysDecoded, PTL

\* A nested object is taken whole or not at all: no field ever mixes members of
\* two objects, or has members of a malformed one.
THEOREM WholeOrNothing == Spec => []WholeObjectsOnly
<1>1. DInv => WholeObjectsOnly
  <2> SUFFICES ASSUME DInv, NEW tag \in Structs[top], IsStruct(tag.kind),
                      NEW f \in DOMAIN fields[tag.field], fields[tag.field][f] # Zero
               PROVE  \E i \in DOMAIN record :
                        /\ record[i].key \in tag.keys /\ record[i].value = "object"
                        /\ ({fields[tag.field][g] : g \in DOMAIN fields[tag.field]} \ {Zero})
                             \subseteq {m.contents : m \in Range(record[i].contents[1])}
    BY DEF WholeObjectsOnly
  <2> DEFINE n == Finished
             got == LastUpTo(record, n, tag)
             i == Max(Hits(record, n, tag))
  <2>1. /\ top \in DOMAIN Structs /\ record \in Seq(Members)
        /\ n \in Nat /\ n <= Len(record) /\ fields = MeaningUpTo(top, record, n)
    BY DEF DInv, Finished, Entered, Structs
  <2>2. fields[tag.field] = LastOf(tag.kind, IF got = Zero THEN << >> ELSE got[1])
    BY <2>1, TagOfField DEF MeaningUpTo, Taken
  <2>3. \A g \in DOMAIN LastOf(tag.kind, << >>) : LastOf(tag.kind, << >>)[g] = Zero
    BY DEF LastOf, LastReadable
  <2> HIDE DEF n
  <2>4. got # Zero
    BY <2>2, <2>3
  <2>5. Hits(record, n, tag) # {} /\ got = Value(tag, record[i])
    BY <2>4 DEF LastUpTo
  <2>6. i \in Hits(record, n, tag)
    BY <2>1, <2>5, MaxIsGreatest DEF Hits
  <2>7. i \in 1..n /\ record[i].key \in tag.keys /\ Value(tag, record[i]) # Fails
    BY <2>6 DEF Hits
  <2>8. i \in DOMAIN record /\ record[i] \in Members
    BY <2>1, <2>7
  <2> HIDE DEF i
  <2>9. record[i].value = "object"
    <3>1. tag.kind \in NestedKinds
      BY <2>1, Nested DEF NestedKinds
    <3>2. QED
      BY <2>4, <2>5, <2>7, <3>1, Outcomes DEF Value
  <2>10. got = record[i].contents
    BY <2>5, <2>9 DEF Value
  <2>11. PICK read \in Seq(InnerMembers) : record[i].contents = ObjectOf(read)
    BY <2>8, <2>9 DEF Members, Objects
  <2>12. fields[tag.field] = LastOf(tag.kind, read) /\ record[i].contents[1] = read
    BY <2>2, <2>4, <2>10, <2>11, TextsAreTexts
  <2>13. ASSUME NEW g \in DOMAIN LastOf(tag.kind, read), LastOf(tag.kind, read)[g] # Zero
         PROVE  LastOf(tag.kind, read)[g] \in {m.contents : m \in Range(read)}
    <3>1. PICK u \in Structs[tag.kind] : g = u.field
      BY <2>13 DEF LastOf
    <3>2. tag.kind \in NestedKinds
      BY <2>1, Nested DEF NestedKinds
    <3>3. ~ IsStruct(u.kind) /\ TagOf(tag.kind, g) = u
      BY <3>1, <3>2, Nested, TagOfField DEF NestedKinds, Structs
    <3> DEFINE k == Max(Hits(read, Len(read), u))
    <3>4. LastOf(tag.kind, read)[g] = LastUpTo(read, Len(read), u)
      BY <2>13, <3>3, LastOfAll DEF LastOf
    <3>5. Hits(read, Len(read), u) # {} /\ LastUpTo(read, Len(read), u) = Value(u, read[k])
      BY <2>13, <3>4 DEF LastUpTo
    <3>6. k \in Hits(read, Len(read), u)
      <4>1. Len(read) \in Nat /\ Hits(read, Len(read), u) \in SUBSET (1..Len(read))
        BY DEF Hits
      <4>2. QED
        BY <3>5, <4>1, MaxIsGreatest
    <3>7. k \in 1..Len(read) /\ Value(u, read[k]) # Fails
      BY <3>6 DEF Hits
    <3> HIDE DEF k
    <3>8. Value(u, read[k]) = read[k].contents
      BY <2>13, <3>3, <3>4, <3>5, <3>7, Outcomes DEF Value
    <3>9. read[k] \in Range(read)
      BY <3>7 DEF Range
    <3>10. QED
      BY <3>4, <3>5, <3>8, <3>9
  <2>14. QED
    BY <2>7, <2>8, <2>9, <2>12, <2>13
<1>2. QED
  BY <1>1, AlwaysDecoded, PTL
=============================================================================
