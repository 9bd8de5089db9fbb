---------------------------- MODULE Identifiers -----------------------------
(***************************************************************************)
(* Trace correlation identifiers (enrich.go): which texts are trace IDs,   *)
(* span IDs and W3C traceparent values.                                    *)
(*                                                                         *)
(* A text is represented by the facts the validators read off its bytes:   *)
(* how many hex digits and dashes it has, whether any other byte occurs,   *)
(* and whether every hex digit is a zero.  Its "id" is the identifier that *)
(* is left when the dashes are dropped.                                    *)
(***************************************************************************)
EXTENDS Integers

CONSTANTS
  TraceIDs,          \* what a trace-ID text can denote
  SpanIDs            \* what a span-ID text can denote

NoID == ""

ASSUME IdentifierAssumption == NoID \notin TraceIDs /\ NoID \notin SpanIDs

IDText(ids) ==
  [id : ids, hex : Nat, dashes : Nat, other : BOOLEAN, zero : BOOLEAN]

TraceText == IDText(TraceIDs)
SpanText  == IDText(SpanIDs)

\* The 55 bytes of a traceparent value: framed is "right length, dashes at 2,
\* 35 and 52"; lower is "every other byte is a lowercase hex digit".
Traceparent == [trace : TraceText, span : SpanText, framed : BOOLEAN, lower : BOOLEAN]

ByteLen(s) == s.hex + s.dashes + (IF s.other THEN 1 ELSE 0)

ValidTraceID(s) ==
  /\ ByteLen(s) \in 32..36
  /\ ~ s.other
  /\ s.hex = 32
  /\ ~ s.zero

ValidSpanID(s) ==
  /\ ByteLen(s) = 16
  /\ s.hex = 16
  /\ ~ s.zero

\* removeDashesASCII
Undashed(s) == s.id

NoIDs == [trace |-> NoID, span |-> NoID]

\* The version and the flags are only framed, never read.
ParseTraceparent(v) ==
  IF v.framed /\ ValidTraceID(v.trace) /\ ValidSpanID(v.span)
    THEN [trace |-> v.trace.id, span |-> v.span.id]
    ELSE NoIDs

\* The scan of a plain-text line also insists on lowercase throughout.
ScanTraceparent(v) == IF v.lower THEN ParseTraceparent(v) ELSE NoIDs
=============================================================================
