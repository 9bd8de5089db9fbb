----------------------------- MODULE LogfmtScan -----------------------------
(***************************************************************************)
(* enrichFromLogFmt as it runs: the logfmt reader calls back once per      *)
(* key/value pair, the callback keeps nine local variables, and it ends    *)
(* the scan as soon as every signal it looks for has been found.  The      *)
(* question is whether what it reports is still what the whole line says.  *)
(***************************************************************************)
EXTENDS LogfmtLine

CONSTANT Lines          \* the lines that can arrive

ASSUME LinesAssumption == Lines \subseteq Seq(Pair)

VARIABLES
  line,        \* the pairs of the line being read
  pos,         \* how many of them the callback has been given
  local,       \* the callback's captured variables
  pc,          \* "gate", "scan", "write" or "done"
  answer       \* the result fields, once written

vars == <<line, pos, local, pc, answer>>

\* "var tsFound, levelGood bool; var levelNo int; var level, msg, ... string".
\* level carries levelNo; tsFound is ts # NoTime; an ID's text has passed its
\* validator, so only what it denotes is kept.
NoLocals ==
  [ts |-> NoTime, level |-> NoSeverity, levelGood |-> FALSE, msg |-> NoText,
   logger |-> NoText, trace |-> NoID, span |-> NoID, tp |-> NoIDs]

NotYet == [answered |-> FALSE, value |-> NothingRead]
Answer(o) == [answered |-> TRUE, value |-> o]

Init ==
  /\ line \in Lines
  /\ pos = 0
  /\ local = NoLocals
  /\ pc = "gate"
  /\ answer = NotYet

\* Mutant: the test that ends the scan forgets the span ID.
MissingButSpan(l) ==
  ~ l.levelGood \/ l.ts = NoTime \/ l.msg = NoText \/ l.logger = NoText \/ l.trace = NoID

\* "Keep scanning while any signal is still missing."  A traceparent is not
\* among them: a later explicit ID would still win over it.
Missing(l) ==
  \/ ~ l.levelGood
  \/ l.ts = NoTime
  \/ l.msg = NoText
  \/ l.logger = NoText
  \/ l.trace = NoID
  \/ l.span = NoID

\* Mutant: the gate turns a line away without reporting on it.
GateWithoutAnswer ==
  /\ pc = "gate"
  /\ pc' = IF HasEquals(line) THEN "scan" ELSE "done"
  /\ UNCHANGED <<line, pos, local, answer>>

\* memo.has(message, '='): a line without one is not scanned at all.
Gate ==
  /\ pc = "gate"
  /\ IF HasEquals(line)
       THEN pc' = "scan" /\ UNCHANGED answer
       ELSE pc' = "done" /\ answer' = Answer(NothingRead)
  /\ UNCHANGED <<line, pos, local>>

-----------------------------------------------------------------------------
(* The callback: one action per case of its switch.  Each returns the test *)
(* that decides whether the reader goes on.                                *)

Called(key, l) ==
  /\ pc = "scan"
  /\ pos < Len(line)
  /\ line[pos + 1].key = key
  /\ local' = l
  /\ pos' = pos + 1
  /\ pc' = IF Missing(l) THEN "scan" ELSE "write"
  /\ UNCHANGED <<line, answer>>

This == line[pos + 1]

OnTime ==
  Called("ts", [local EXCEPT !.ts = IF @ = NoTime THEN This.time ELSE @])

\* Mutant: a later level that normalizes replaces an earlier one.
OnLevelLastWins ==
  LET s == SeverityFromText(This.level) IN
  Called("level",
         IF s.text # NoText THEN [local EXCEPT !.level = s, !.levelGood = TRUE]
         ELSE IF local.level.text = NoText
           THEN [local EXCEPT !.level = Graded(This.level, 0)]
         ELSE local)

OnLevel ==
  LET s == SeverityFromText(This.level) IN
  Called("level",
         IF local.levelGood THEN local
         ELSE IF s.text # NoText
           THEN [local EXCEPT !.level = s, !.levelGood = TRUE]
         ELSE IF local.level.text = NoText
           THEN [local EXCEPT !.level = Graded(This.level, 0)]
         ELSE local)

OnMsg ==
  Called("msg", [local EXCEPT !.msg = IF @ = NoText THEN This.text ELSE @])

OnLogger ==
  Called("logger", [local EXCEPT !.logger = IF @ = NoText THEN This.text ELSE @])

OnTrace ==
  Called("trace", [local EXCEPT !.trace =
                     IF @ = NoID /\ ValidTraceID(This.trace) THEN Undashed(This.trace) ELSE @])

OnSpan ==
  Called("span", [local EXCEPT !.span =
                    IF @ = NoID /\ ValidSpanID(This.span) THEN This.span.id ELSE @])

\* Mutant: only the trace half of a traceparent is kept from being replaced.
OnTraceparentSplits ==
  LET p == ParseTraceparent(This.tp) IN
  Called("traceparent", [local EXCEPT
           !.tp.trace = IF @ = NoID THEN p.trace ELSE @,
           !.tp.span = IF p = NoIDs THEN @ ELSE p.span])

OnTraceparent ==
  Called("traceparent", [local EXCEPT !.tp =
                           IF @.trace = NoID THEN ParseTraceparent(This.tp) ELSE @])

\* logfmtKeyGate turned the key away: "return true", whatever is missing.
OnOther ==
  /\ pc = "scan"
  /\ pos < Len(line)
  /\ This.key = "other"
  /\ pos' = pos + 1
  /\ UNCHANGED <<line, local, pc, answer>>

EndOfLine ==
  /\ pc = "scan"
  /\ pos = Len(line)
  /\ pc' = "write"
  /\ UNCHANGED <<line, pos, local, answer>>

-----------------------------------------------------------------------------
(* After the scan: the result fields, and the claim                        *)

\* An explicit ID wins; a traceparent fills the side left empty.

\* Mutant: the traceparent wins.
ParentFirst(explicit, parent) == IF parent = NoID THEN explicit ELSE parent
ExplicitFirst(explicit, parent) == IF explicit = NoID THEN parent ELSE explicit

Written(l) ==
  LET trace == ExplicitFirst(l.trace, l.tp.trace)
  IN  [time    |-> l.ts,
       level   |-> l.level,
       msg     |-> l.msg,
       logger  |-> l.logger,
       trace   |-> trace,
       span    |-> ExplicitFirst(l.span, l.tp.span),
       claimed |-> Claims(l.ts, l.level, trace)]

Write ==
  /\ pc = "write"
  /\ answer' = Answer(Written(local))
  /\ pc' = "done"
  /\ UNCHANGED <<line, pos, local>>

Callback ==
  OnTime \/ OnLevel \/ OnMsg \/ OnLogger \/ OnTrace \/ OnSpan \/ OnTraceparent \/ OnOther

Next == Gate \/ Callback \/ EndOfLine \/ Write

\* One goroutine runs the function to its end.
Spec == Init /\ [][Next]_vars /\ WF_vars(Next)

-----------------------------------------------------------------------------
(* Properties *)

Locals ==
  [ts : Times \cup {NoTime},
   level : [text : Levels \cup LevelTexts \cup {NoText}, no : 0..24],
   levelGood : BOOLEAN,
   msg : Messages \cup {NoText}, logger : Messages \cup {NoText},
   trace : TraceIDs \cup {NoID}, span : SpanIDs \cup {NoID},
   tp : [trace : TraceIDs \cup {NoID}, span : SpanIDs \cup {NoID}]]

Outcomes ==
  [time : Times \cup {NoTime},
   level : [text : Levels \cup LevelTexts \cup {NoText}, no : 0..24],
   msg : Messages \cup {NoText}, logger : Messages \cup {NoText},
   trace : TraceIDs \cup {NoID}, span : SpanIDs \cup {NoID},
   claimed : BOOLEAN]

\* The types of the state: the captured variables of the callback and the
\* result fields hold only what their Go types and validators let through.
TypeOK ==
  /\ line \in Seq(Pair)
  /\ pos \in 0..Len(line)
  /\ local \in Locals
  /\ pc \in {"gate", "scan", "write", "done"}
  /\ answer \in [answered : BOOLEAN, value : Outcomes]
  /\ answer.answered <=> pc = "done"

\* The part of the line the callback has been given.
Seen == SubSeq(line, 1, pos)

\* After each callback the captured variables hold what the pairs read so far
\* say, in whatever order they came: the invariant of the scan loop.
PrefixFaithful ==
  /\ local.ts = LineTime(Seen)
  /\ local.level = LineLevel(Seen)
  /\ local.levelGood <=> Some(Seen, HasLevel)
  /\ local.msg = LineMessage(Seen)
  /\ local.logger = LineLogger(Seen)
  /\ local.trace = (IF Some(Seen, HasTrace) THEN First(Seen, HasTrace).trace.id ELSE NoID)
  /\ local.span = (IF Some(Seen, HasSpan) THEN First(Seen, HasSpan).span.id ELSE NoID)
  /\ local.tp = LineParent(Seen)

\* The scan stops before the end of a line only when nothing in the rest of it
\* could change any field: what is written is what the WHOLE line says,
\* including a traceparent or a level that comes after the last missing signal.
EarlyExitLosesNothing ==
  pc = "write" => Written(local) = Outcome(line)

\* When neither ID is spelled out by a key of its own, both come from one and
\* the same traceparent of the line, never one from each of two.
ParentIDsStayTogether ==
  ( /\ answer.answered
    /\ answer.value.trace # NoID
    /\ \A i \in DOMAIN line : ~ HasTrace(line[i]) /\ ~ HasSpan(line[i]) )
  => \E i \in DOMAIN line :
       /\ line[i].key = "traceparent"
       /\ ParseTraceparent(line[i].tp) = [trace |-> answer.value.trace,
                                         span |-> answer.value.span]

\* What enrichFromLogFmt promises for a line, as an answer.
Promised(l) == Answer(Outcome(l))

Whole == INSTANCE OneShot WITH
           F <- Promised, NoAnswer <- NotYet,
           input <- line, answer <- answer

\* The scan implements the whole-line specification: it answers once, with
\* exactly what the whole line says, and it does answer.
ImplementsWholeLine == Whole!Spec
=============================================================================
