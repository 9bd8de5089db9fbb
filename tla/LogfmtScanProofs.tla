-------------------------- MODULE LogfmtScanProofs --------------------------
(***************************************************************************)
(* The logfmt scan loses nothing by stopping early: proofs, for every set  *)
(* of lines of any length.                                                 *)
(*                                                                         *)
(* Every signal has the set of positions that can supply it.  What the     *)
(* callback has captured is decided by the part of each set below pos; a   *)
(* signal that is no longer missing has a position there, and that is then *)
(* the first of the whole set.                                             *)
(***************************************************************************)
EXTENDS LogfmtScan, LogfmtLineProofs

TimeHits   == Hits(line, HasTime)
LevelHits  == Hits(line, HasLevel)
RawHits    == Hits(line, HasRawLevel)
MsgHits    == Hits(line, HasMsg)
LoggerHits == Hits(line, HasLogger)
TraceHits  == Hits(line, HasTrace)
SpanHits   == Hits(line, HasSpan)
ParentHits == Hits(line, HasParent)

\* The part of a set of positions the callback has been given.
UpTo(H) == H \cap (1..pos)

\* What the captured variables hold.
TimeTold  == local.ts = IF UpTo(TimeHits) = {} THEN NoTime
                        ELSE line[Min(UpTo(TimeHits))].time
LevelTold ==
  /\ local.levelGood = (UpTo(LevelHits) # {})
  /\ local.level =
       IF UpTo(LevelHits) # {} THEN SeverityFromText(line[Min(UpTo(LevelHits))].level)
       ELSE IF UpTo(RawHits) # {} THEN Graded(line[Min(UpTo(RawHits))].level, 0)
       ELSE NoSeverity
MsgTold    == local.msg = IF UpTo(MsgHits) = {} THEN NoText
                          ELSE line[Min(UpTo(MsgHits))].text
LoggerTold == local.logger = IF UpTo(LoggerHits) = {} THEN NoText
                             ELSE line[Min(UpTo(LoggerHits))].text
TraceTold  == local.trace = IF UpTo(TraceHits) = {} THEN NoID
                            ELSE line[Min(UpTo(TraceHits))].trace.id
SpanTold   == local.span = IF UpTo(SpanHits) = {} THEN NoID
                           ELSE line[Min(UpTo(SpanHits))].span.id
ParentTold == local.tp = IF UpTo(ParentHits) = {} THEN NoIDs
                         ELSE ParseTraceparent(line[Min(UpTo(ParentHits))].tp)

Told ==
  /\ TimeTold /\ LevelTold /\ MsgTold /\ LoggerTold
  /\ TraceTold /\ SpanTold /\ ParentTold

\* Where the machine is: a line that is scanned has a '=', the scan ends only
\* with nothing missing or nothing left, nothing is reported before the end, and
\* what is reported then is what the line promises.
Controlled ==
  /\ pc \in {"scan", "write"} => HasEquals(line)
  /\ pc = "write" => ~ Missing(local) \/ pos = Len(line)
  /\ pc # "done" => answer = NotYet
  /\ pc = "done" => answer = Promised(line)

IInv == TypeOK /\ Told /\ Controlled

-----------------------------------------------------------------------------
(* Sets of positions *)

\* How the part below n of a set of positions grows by one position.
LEMMA UpToGrows ==
  ASSUME NEW H \in SUBSET Nat, NEW n \in Nat
  PROVE  /\ n+1 \notin H => H \cap (1..(n+1)) = H \cap (1..n)
         /\ n+1 \in H => H \cap (1..(n+1)) # {}
         /\ n+1 \in H /\ H \cap (1..n) = {} => Min(H \cap (1..(n+1))) = n+1
         /\ H \cap (1..n) # {} => Min(H \cap (1..(n+1))) = Min(H \cap (1..n))
<1> DEFINE A == H \cap (1..n)
           B == H \cap (1..(n+1))
<1>1. A \in SUBSET Nat /\ B \in SUBSET Nat
  OBVIOUS
<1>2. n+1 \notin H => B = A
  OBVIOUS
<1>3. n+1 \in H => B = A \cup {n+1}
  OBVIOUS
<1>4. \A i \in A : i <= n /\ i \in Nat
  OBVIOUS
<1> HIDE DEF A, B
<1>5. n+1 \in H => B # {}
  BY <1>3
<1>6. n+1 \in H /\ A = {} => Min(B) = n+1
  <2>1. SUFFICES ASSUME n+1 \in H, A = {} PROVE Min(B) = n+1
    OBVIOUS
  <2>2. n+1 \in B /\ \A y \in B : n+1 <= y
    BY <1>3, <2>1
  <2>3. QED
    BY <1>1, <2>2, LeastIsMin
<1>7. A # {} => Min(B) = Min(A)
  <2>1. SUFFICES ASSUME A # {} PROVE Min(B) = Min(A)
    OBVIOUS
  <2>2. Min(A) \in A /\ \A y \in A : Min(A) <= y
    BY <1>1, <2>1, MinIsLeast
  <2>3. Min(A) \in B /\ \A y \in B : Min(A) <= y
    BY <1>2, <1>3, <1>4, <2>2
  <2>4. QED
    BY <1>1, <2>3, LeastIsMin
<1>8. QED
  BY <1>2, <1>5, <1>6, <1>7 DEF A, B

\* The first position of a part below n is the first of the whole set.
LEMMA UpToIsFirst ==
  ASSUME NEW H \in SUBSET Nat, 0 \notin H, NEW n \in Nat, H \cap (1..n) # {}
  PROVE  /\ H # {}
         /\ Min(H) = Min(H \cap (1..n))
         /\ Min(H \cap (1..n)) \in H
<1> DEFINE A == H \cap (1..n)
<1>1. A \in SUBSET Nat
  OBVIOUS
<1>2. Min(A) \in A /\ \A y \in A : Min(A) <= y
  BY <1>1, MinIsLeast
<1>3. ASSUME NEW y \in H PROVE Min(A) <= y
  <2>1. CASE y <= n
    BY <1>2, <2>1
  <2>2. CASE ~ (y <= n)
    <3>1. Min(A) \in Nat /\ Min(A) <= n /\ y \in Nat
      BY <1>2
    <3>2. QED
      BY <2>2, <3>1
  <2>3. QED
    BY <2>1, <2>2
<1>4. Min(H) = Min(A)
  BY <1>2, <1>3, LeastIsMin
<1>5. QED
  BY <1>2, <1>4

-----------------------------------------------------------------------------
(* The position sets *)

\* The position sets are sets of positions.
LEMMA HitsTyped ==
  ASSUME TypeOK
  PROVE  \A H \in {TimeHits, LevelHits, RawHits, MsgHits, LoggerHits, TraceHits, SpanHits,
                   ParentHits} : H \in SUBSET Nat /\ H \subseteq 1..Len(line) /\ 0 \notin H
BY DEF TypeOK, TimeHits, LevelHits, RawHits, MsgHits, LoggerHits, TraceHits, SpanHits,
       ParentHits, Hits

-----------------------------------------------------------------------------
(* One callback.  Advanced is what all of them share: one more pair read.  *)

Advanced == pos < Len(line) /\ line' = line /\ pos' = pos + 1

\* The pair that is read, and what happens to the part of a set below pos.
LEMMA AdvancedFacts ==
  ASSUME TypeOK, Advanced
  PROVE  /\ This \in Pair
         /\ pos + 1 \in DOMAIN line
         /\ \A H \in {TimeHits, LevelHits, RawHits, MsgHits, LoggerHits, TraceHits,
                      SpanHits, ParentHits} :
              /\ pos + 1 \notin H => H \cap (1..(pos+1)) = UpTo(H)
              /\ pos + 1 \in H => H \cap (1..(pos+1)) # {}
              /\ pos + 1 \in H /\ UpTo(H) = {} => Min(H \cap (1..(pos+1))) = pos + 1
              /\ UpTo(H) # {} => /\ H \cap (1..(pos+1)) # {}
                                /\ Min(H \cap (1..(pos+1))) = Min(UpTo(H))
<1>1. pos \in Nat /\ pos + 1 \in 1..Len(line) /\ line \in Seq(Pair)
  BY DEF TypeOK, Advanced
<1>2. This \in Pair /\ pos + 1 \in DOMAIN line
  BY <1>1 DEF This
<1>3. ASSUME NEW H \in SUBSET Nat
      PROVE  /\ pos + 1 \notin H => H \cap (1..(pos+1)) = UpTo(H)
             /\ pos + 1 \in H => H \cap (1..(pos+1)) # {}
             /\ pos + 1 \in H /\ UpTo(H) = {} => Min(H \cap (1..(pos+1))) = pos + 1
             /\ UpTo(H) # {} => /\ H \cap (1..(pos+1)) # {}
                               /\ Min(H \cap (1..(pos+1))) = Min(UpTo(H))
  <2>1. UpTo(H) \subseteq H \cap (1..(pos+1))
    BY <1>1 DEF UpTo
  <2>2. QED
    BY <1>1, <2>1, UpToGrows DEF UpTo
<1>4. QED
  BY <1>2, <1>3, HitsTyped

\* A pair of another key leaves a signal as it was told.
LEMMA TimeKept ==
  ASSUME TypeOK, TimeTold, Advanced, This.key # "ts", local'.ts = local.ts
  PROVE  TimeTold'
<1>1. pos + 1 \notin TimeHits
  BY DEF TimeHits, Hits, HasTime, This
<1>2. UpTo(TimeHits)' = UpTo(TimeHits)
  BY <1>1, AdvancedFacts DEF Advanced, UpTo, TimeHits
<1>3. QED
  BY <1>2 DEF TimeTold, Advanced

\* A good level read so far is the line's: a later pair cannot change it.
LEMMA LevelKept ==
  ASSUME TypeOK, LevelTold, Advanced, This.key # "level",
         local'.level = local.level, local'.levelGood = local.levelGood
  PROVE  LevelTold'
<1>1. pos + 1 \notin LevelHits /\ pos + 1 \notin RawHits
  BY DEF LevelHits, RawHits, Hits, HasLevel, HasRawLevel, This
<1>2. UpTo(LevelHits)' = UpTo(LevelHits) /\ UpTo(RawHits)' = UpTo(RawHits)
  BY <1>1, AdvancedFacts DEF Advanced, UpTo, LevelHits, RawHits
<1>3. QED
  BY <1>2 DEF LevelTold, Advanced

\* The same of the first non-empty message.
LEMMA MsgKept ==
  ASSUME TypeOK, MsgTold, Advanced, This.key # "msg", local'.msg = local.msg
  PROVE  MsgTold'
<1>1. pos + 1 \notin MsgHits
  BY DEF MsgHits, Hits, HasMsg, This
<1>2. UpTo(MsgHits)' = UpTo(MsgHits)
  BY <1>1, AdvancedFacts DEF Advanced, UpTo, MsgHits
<1>3. QED
  BY <1>2 DEF MsgTold, Advanced

\* The same of the first non-empty logger.
LEMMA LoggerKept ==
  ASSUME TypeOK, LoggerTold, Advanced, This.key # "logger", local'.logger = local.logger
  PROVE  LoggerTold'
<1>1. pos + 1 \notin LoggerHits
  BY DEF LoggerHits, Hits, HasLogger, This
<1>2. UpTo(LoggerHits)' = UpTo(LoggerHits)
  BY <1>1, AdvancedFacts DEF Advanced, UpTo, LoggerHits
<1>3. QED
  BY <1>2 DEF LoggerTold, Advanced

\* The same of the first valid trace ID.
LEMMA TraceKept ==
  ASSUME TypeOK, TraceTold, Advanced, This.key # "trace", local'.trace = local.trace
  PROVE  TraceTold'
<1>1. pos + 1 \notin TraceHits
  BY DEF TraceHits, Hits, HasTrace, This
<1>2. UpTo(TraceHits)' = UpTo(TraceHits)
  BY <1>1, AdvancedFacts DEF Advanced, UpTo, TraceHits
<1>3. QED
  BY <1>2 DEF TraceTold, Advanced

\* The same of the first valid span ID.
LEMMA SpanKept ==
  ASSUME TypeOK, SpanTold, Advanced, This.key # "span", local'.span = local.span
  PROVE  SpanTold'
<1>1. pos + 1 \notin SpanHits
  BY DEF SpanHits, Hits, HasSpan, This
<1>2. UpTo(SpanHits)' = UpTo(SpanHits)
  BY <1>1, AdvancedFacts DEF Advanced, UpTo, SpanHits
<1>3. QED
  BY <1>2 DEF SpanTold, Advanced

\* The same of the first valid traceparent.
LEMMA ParentKept ==
  ASSUME TypeOK, ParentTold, Advanced, This.key # "traceparent", local'.tp = local.tp
  PROVE  ParentTold'
<1>1. pos + 1 \notin ParentHits
  BY DEF ParentHits, Hits, HasParent, This
<1>2. UpTo(ParentHits)' = UpTo(ParentHits)
  BY <1>1, AdvancedFacts DEF Advanced, UpTo, ParentHits
<1>3. QED
  BY <1>2 DEF ParentTold, Advanced

-----------------------------------------------------------------------------
(* The cases of the callback's switch                                      *)

Callbacked == Advanced /\ local' \in Locals /\ Told'

\* The callback of a timestamp key leaves every variable as the longer prefix
\* says.
LEMMA OnTimeTells == ASSUME IInv, OnTime PROVE Callbacked
<1>1. /\ Advanced /\ TypeOK /\ Told /\ This.key = "ts" /\ local \in Locals
      /\ local' = [local EXCEPT !.ts = IF @ = NoTime THEN This.time ELSE @]
  BY DEF IInv, TypeOK, OnTime, Called, Advanced, This
<1>2. This.time \in Times \cup {NoTime}
  BY <1>1, AdvancedFacts, PairTyped
<1>3. local' \in Locals
  BY <1>1, <1>2 DEF Locals
<1>4. LevelTold' /\ MsgTold' /\ LoggerTold' /\ TraceTold' /\ SpanTold' /\ ParentTold'
  BY <1>1, LevelKept, MsgKept, LoggerKept, TraceKept, SpanKept, ParentKept DEF Told, Locals
<1>5. TimeTold'
  <2>1. UpTo(TimeHits)' = TimeHits \cap (1..(pos+1))
    BY <1>1 DEF UpTo, TimeHits, Advanced
  <2>2. pos + 1 \in TimeHits <=> This.time # NoTime
    BY <1>1, AdvancedFacts DEF TimeHits, Hits, HasTime, This
  <2>3. UpTo(TimeHits) # {} => line[Min(UpTo(TimeHits))].time # NoTime
    <3>1. UpTo(TimeHits) # {} => Min(UpTo(TimeHits)) \in TimeHits
      BY <1>1, HitsTyped, UpToIsFirst DEF UpTo, TypeOK
    <3>2. QED
      BY <3>1 DEF TimeHits, Hits, HasTime
  <2>4. local'.ts = IF local.ts = NoTime THEN This.time ELSE local.ts
    BY <1>1 DEF Locals
  <2>5. line' = line /\ This = line[pos + 1]
    BY <1>1 DEF Advanced, This
  <2>6. QED
    BY <1>1, <2>1, <2>2, <2>3, <2>4, <2>5, AdvancedFacts DEF TimeTold, Told
<1>6. QED
  BY <1>1, <1>3, <1>4, <1>5 DEF Told, Callbacked

\* The callback of a level key does: a level that normalizes replaces one that
\* does not, never the other way round.
LEMMA OnLevelTells == ASSUME IInv, OnLevel PROVE Callbacked
<1> DEFINE g == SeverityFromText(This.level)
<1>1. /\ Advanced /\ TypeOK /\ Told /\ This.key = "level" /\ local \in Locals
      /\ local' = IF local.levelGood THEN local
                  ELSE IF g.text # NoText
                    THEN [local EXCEPT !.level = g, !.levelGood = TRUE]
                  ELSE IF local.level.text = NoText
                    THEN [local EXCEPT !.level = Graded(This.level, 0)]
                  ELSE local
  BY DEF IInv, TypeOK, OnLevel, Called, Advanced, This
<1>2. This.level \in LevelTexts
  BY <1>1, AdvancedFacts, PairTyped
<1>3. /\ g \in [text : Levels \cup {NoText}, no : 0..24]
      /\ g.text = NoText <=> g = NoSeverity
  BY SeverityRoundTrip
<1>4. Graded(This.level, 0) \in [text : Levels \cup LevelTexts \cup {NoText}, no : 0..24]
  BY <1>2 DEF Graded
<1> HIDE DEF g
<1>5. local' \in Locals
  BY <1>1, <1>3, <1>4 DEF Locals
<1>6. TimeTold' /\ MsgTold' /\ LoggerTold' /\ TraceTold' /\ SpanTold' /\ ParentTold'
  BY <1>1, TimeKept, MsgKept, LoggerKept, TraceKept, SpanKept, ParentKept DEF Told, Locals
<1>7. LevelTold'
  <2>1. /\ UpTo(LevelHits)' = LevelHits \cap (1..(pos+1))
        /\ UpTo(RawHits)' = RawHits \cap (1..(pos+1))
    BY <1>1 DEF UpTo, LevelHits, RawHits, Advanced
  <2>2. /\ pos + 1 \in LevelHits <=> g.text # NoText
        /\ pos + 1 \in RawHits <=> This.level # NoText
    BY <1>1, <1>3, AdvancedFacts DEF LevelHits, RawHits, Hits, HasLevel, HasRawLevel, This, g
  <2>3. UpTo(RawHits) # {} => line[Min(UpTo(RawHits))].level # NoText
    <3>1. UpTo(RawHits) # {} => Min(UpTo(RawHits)) \in RawHits
      BY <1>1, HitsTyped, UpToIsFirst DEF UpTo, TypeOK
    <3>2. QED
      BY <3>1 DEF RawHits, Hits, HasRawLevel
  <2>4. /\ local.levelGood = (UpTo(LevelHits) # {})
        /\ local.level =
             IF UpTo(LevelHits) # {} THEN SeverityFromText(line[Min(UpTo(LevelHits))].level)
             ELSE IF UpTo(RawHits) # {} THEN Graded(line[Min(UpTo(RawHits))].level, 0)
             ELSE NoSeverity
    BY <1>1 DEF Told, LevelTold
  <2>5. line' = line /\ This = line[pos + 1]
    BY <1>1 DEF Advanced, This
  <2>6. CASE local.levelGood
    <3>1. UpTo(LevelHits) # {} /\ local' = local
      BY <1>1, <2>4, <2>6
    <3>2. QED
      BY <1>1, <2>1, <2>4, <2>5, <3>1, AdvancedFacts DEF LevelTold
  <2>7. CASE ~ local.levelGood /\ g.text # NoText
    <3>1. /\ UpTo(LevelHits) = {} /\ pos + 1 \in LevelHits
          /\ local'.level = g /\ local'.levelGood = TRUE
      BY <1>1, <2>2, <2>4, <2>7 DEF Locals
    <3>2. /\ LevelHits \cap (1..(pos+1)) # {}
          /\ Min(LevelHits \cap (1..(pos+1))) = pos + 1
      BY <1>1, <3>1, AdvancedFacts
    <3>3. g = SeverityFromText(line'[pos + 1].level)
      BY <2>5 DEF g
    <3>4. QED
      BY <2>1, <3>1, <3>2, <3>3 DEF LevelTold
  <2>8. CASE ~ local.levelGood /\ g.text = NoText
    <3>1. /\ UpTo(LevelHits) = {} /\ LevelHits \cap (1..(pos+1)) = {}
          /\ local'.levelGood = FALSE
      BY <1>1, <2>2, <2>4, <2>8, AdvancedFacts DEF Locals
    <3>2. local.level.text = NoText <=> UpTo(RawHits) = {}
      BY <2>3, <2>4, <3>1 DEF Graded, NoSeverity
    <3>3. local'.level = IF UpTo(RawHits) = {} THEN Graded(This.level, 0) ELSE local.level
      BY <1>1, <2>8, <3>2 DEF Locals
    <3>4. CASE UpTo(RawHits) # {}
      <4>1. /\ RawHits \cap (1..(pos+1)) # {}
            /\ Min(RawHits \cap (1..(pos+1))) = Min(UpTo(RawHits))
        BY <1>1, <3>4, AdvancedFacts
      <4>2. QED
        BY <2>1, <2>4, <2>5, <3>1, <3>3, <3>4, <4>1 DEF LevelTold
    <3>5. CASE UpTo(RawHits) = {} /\ This.level # NoText
      <4>1. /\ RawHits \cap (1..(pos+1)) # {}
            /\ Min(RawHits \cap (1..(pos+1))) = pos + 1
        BY <1>1, <2>2, <3>5, AdvancedFacts
      <4>2. QED
        BY <2>1, <2>5, <3>1, <3>3, <3>5, <4>1 DEF LevelTold
    <3>6. CASE UpTo(RawHits) = {} /\ This.level = NoText
      <4>1. RawHits \cap (1..(pos+1)) = {}
        BY <1>1, <2>2, <3>6, AdvancedFacts
      <4>2. local'.level = NoSeverity
        BY <3>3, <3>6 DEF Graded, NoSeverity
      <4>3. QED
        BY <2>1, <3>1, <4>1, <4>2 DEF LevelTold
    <3>7. QED
      BY <3>4, <3>5, <3>6
  <2>9. QED
    BY <2>6, <2>7, <2>8
<1>8. QED
  BY <1>1, <1>5, <1>6, <1>7 DEF Told, Callbacked

\* The callback of a message key does.
LEMMA OnMsgTells == ASSUME IInv, OnMsg PROVE Callbacked
<1>1. /\ Advanced /\ TypeOK /\ Told /\ This.key = "msg" /\ local \in Locals
      /\ local' = [local EXCEPT !.msg = IF @ = NoText THEN This.text ELSE @]
  BY DEF IInv, TypeOK, OnMsg, Called, Advanced, This
<1>2. This.text \in Messages
  BY <1>1, AdvancedFacts, PairTyped
<1>3. local' \in Locals
  BY <1>1, <1>2 DEF Locals
<1>4. TimeTold' /\ LevelTold' /\ LoggerTold' /\ TraceTold' /\ SpanTold' /\ ParentTold'
  BY <1>1, TimeKept, LevelKept, LoggerKept, TraceKept, SpanKept, ParentKept DEF Told, Locals
<1>5. MsgTold'
  <2>1. UpTo(MsgHits)' = MsgHits \cap (1..(pos+1))
    BY <1>1 DEF UpTo, MsgHits, Advanced
  <2>2. pos + 1 \in MsgHits <=> This.text # NoText
    BY <1>1, AdvancedFacts DEF MsgHits, Hits, HasMsg, This
  <2>3. UpTo(MsgHits) # {} => line[Min(UpTo(MsgHits))].text # NoText
    <3>1. UpTo(MsgHits) # {} => Min(UpTo(MsgHits)) \in MsgHits
      BY <1>1, HitsTyped, UpToIsFirst DEF UpTo, TypeOK
    <3>2. QED
      BY <3>1 DEF MsgHits, Hits, HasMsg
  <2>4. local'.msg = IF local.msg = NoText THEN This.text ELSE local.msg
    BY <1>1 DEF Locals
  <2>5. line' = line /\ This = line[pos + 1]
    BY <1>1 DEF Advanced, This
  <2>6. QED
    BY <1>1, <2>1, <2>2, <2>3, <2>4, <2>5, AdvancedFacts DEF MsgTold, Told
<1>6. QED
  BY <1>1, <1>3, <1>4, <1>5 DEF Told, Callbacked

\* The callback of a logger key does.
LEMMA OnLoggerTells == ASSUME IInv, OnLogger PROVE Callbacked
<1>1. /\ Advanced /\ TypeOK /\ Told /\ This.key = "logger" /\ local \in Locals
      /\ local' = [local EXCEPT !.logger = IF @ = NoText THEN This.text ELSE @]
  BY DEF IInv, TypeOK, OnLogger, Called, Advanced, This
<1>2. This.text \in Messages
  BY <1>1, AdvancedFacts, PairTyped
<1>3. local' \in Locals
  BY <1>1, <1>2 DEF Locals
<1>4. TimeTold' /\ LevelTold' /\ MsgTold' /\ TraceTold' /\ SpanTold' /\ ParentTold'
  BY <1>1, TimeKept, LevelKept, MsgKept, TraceKept, SpanKept, ParentKept DEF Told, Locals
<1>5. LoggerTold'
  <2>1. UpTo(LoggerHits)' = LoggerHits \cap (1..(pos+1))
    BY <1>1 DEF UpTo, LoggerHits, Advanced
  <2>2. pos + 1 \in LoggerHits <=> This.text # NoText
    BY <1>1, AdvancedFacts DEF LoggerHits, Hits, HasLogger, This
  <2>3. UpTo(LoggerHits) # {} => line[Min(UpTo(LoggerHits))].text # NoText
    <3>1. UpTo(LoggerHits) # {} => Min(UpTo(LoggerHits)) \in LoggerHits
      BY <1>1, HitsTyped, UpToIsFirst DEF UpTo, TypeOK
    <3>2. QED
      BY <3>1 DEF LoggerHits, Hits, HasLogger
  <2>4. local'.logger = IF local.logger = NoText THEN This.text ELSE local.logger
    BY <1>1 DEF Locals
  <2>5. line' = line /\ This = line[pos + 1]
    BY <1>1 DEF Advanced, This
  <2>6. QED
    BY <1>1, <2>1, <2>2, <2>3, <2>4, <2>5, AdvancedFacts DEF LoggerTold, Told
<1>6. QED
  BY <1>1, <1>3, <1>4, <1>5 DEF Told, Callbacked

\* The text of a hit among the IDs of a line denotes an identifier.
LEMMA HitDenotes ==
  ASSUME TypeOK
  PROVE  /\ \A i \in TraceHits : line[i].trace.id # NoID
         /\ \A i \in SpanHits : line[i].span.id # NoID
         /\ \A i \in ParentHits : ParseTraceparent(line[i].tp).trace # NoID
<1>1. \A i \in DOMAIN line : line[i] \in Pair
  BY DEF TypeOK
<1>2. \A i \in TraceHits : line[i].trace.id # NoID
  BY <1>1, PairTyped, IDsTyped DEF TraceHits, Hits, HasTrace
<1>3. \A i \in SpanHits : line[i].span.id # NoID
  BY <1>1, PairTyped, IDsTyped DEF SpanHits, Hits, HasSpan
<1>4. \A i \in ParentHits : ParseTraceparent(line[i].tp).trace # NoID
  BY <1>1, PairTyped, ParentTyped DEF ParentHits, Hits, HasParent
<1>5. QED
  BY <1>2, <1>3, <1>4

\* The callback of a trace-ID key does, valid or not.
LEMMA OnTraceTells == ASSUME IInv, OnTrace PROVE Callbacked
<1>1. /\ Advanced /\ TypeOK /\ Told /\ This.key = "trace" /\ local \in Locals
      /\ local' = [local EXCEPT !.trace = IF @ = NoID /\ ValidTraceID(This.trace) THEN Undashed(This.trace) ELSE @]
  BY DEF IInv, TypeOK, OnTrace, Called, Advanced, This
<1>2. This.trace \in TraceText
  BY <1>1, AdvancedFacts, PairTyped
<1>3. local' \in Locals
  BY <1>1, <1>2, IDsTyped DEF Locals, Undashed
<1>4. TimeTold' /\ LevelTold' /\ MsgTold' /\ LoggerTold' /\ SpanTold' /\ ParentTold'
  BY <1>1, TimeKept, LevelKept, MsgKept, LoggerKept, SpanKept, ParentKept DEF Told, Locals
<1>5. TraceTold'
  <2>1. UpTo(TraceHits)' = TraceHits \cap (1..(pos+1))
    BY <1>1 DEF UpTo, TraceHits, Advanced
  <2>2. pos + 1 \in TraceHits <=> ValidTraceID(This.trace)
    BY <1>1, AdvancedFacts DEF TraceHits, Hits, HasTrace, This
  <2>3. UpTo(TraceHits) # {} => line[Min(UpTo(TraceHits))].trace.id # NoID
    <3>1. UpTo(TraceHits) # {} => Min(UpTo(TraceHits)) \in TraceHits
      BY <1>1, HitsTyped, UpToIsFirst DEF UpTo, TypeOK
    <3>2. QED
      BY <3>1, <1>1, HitDenotes DEF TraceHits, Hits, HasTrace
  <2>4. local'.trace = IF local.trace = NoID /\ ValidTraceID(This.trace) THEN This.trace.id
                      ELSE local.trace
    BY <1>1 DEF Locals, Undashed
  <2>5. line' = line /\ This = line[pos + 1]
    BY <1>1 DEF Advanced, This
  <2>6. QED
    BY <1>1, <2>1, <2>2, <2>3, <2>4, <2>5, AdvancedFacts DEF TraceTold, Told
<1>6. QED
  BY <1>1, <1>3, <1>4, <1>5 DEF Told, Callbacked

\* The callback of a span-ID key does, valid or not.
LEMMA OnSpanTells == ASSUME IInv, OnSpan PROVE Callbacked
<1>1. /\ Advanced /\ TypeOK /\ Told /\ This.key = "span" /\ local \in Locals
      /\ local' = [local EXCEPT !.span = IF @ = NoID /\ ValidSpanID(This.span) THEN This.span.id ELSE @]
  BY DEF IInv, TypeOK, OnSpan, Called, Advanced, This
<1>2. This.span \in SpanText
  BY <1>1, AdvancedFacts, PairTyped
<1>3. local' \in Locals
  BY <1>1, <1>2, IDsTyped DEF Locals
<1>4. TimeTold' /\ LevelTold' /\ MsgTold' /\ LoggerTold' /\ TraceTold' /\ ParentTold'
  BY <1>1, TimeKept, LevelKept, MsgKept, LoggerKept, TraceKept, ParentKept DEF Told, Locals
<1>5. SpanTold'
  <2>1. UpTo(SpanHits)' = SpanHits \cap (1..(pos+1))
    BY <1>1 DEF UpTo, SpanHits, Advanced
  <2>2. pos + 1 \in SpanHits <=> ValidSpanID(This.span)
    BY <1>1, AdvancedFacts DEF SpanHits, Hits, HasSpan, This
  <2>3. UpTo(SpanHits) # {} => line[Min(UpTo(SpanHits))].span.id # NoID
    <3>1. UpTo(SpanHits) # {} => Min(UpTo(SpanHits)) \in SpanHits
      BY <1>1, HitsTyped, UpToIsFirst DEF UpTo, TypeOK
    <3>2. QED
      BY <3>1, <1>1, HitDenotes DEF SpanHits, Hits, HasSpan
  <2>4. local'.span = IF local.span = NoID /\ ValidSpanID(This.span) THEN This.span.id
                     ELSE local.span
    BY <1>1 DEF Locals
  <2>5. line' = line /\ This = line[pos + 1]
    BY <1>1 DEF Advanced, This
  <2>6. QED
    BY <1>1, <2>1, <2>2, <2>3, <2>4, <2>5, AdvancedFacts DEF SpanTold, Told
<1>6. QED
  BY <1>1, <1>3, <1>4, <1>5 DEF Told, Callbacked

\* The callback of a traceparent key takes both halves of the first valid one.
LEMMA OnTraceparentTells == ASSUME IInv, OnTraceparent PROVE Callbacked
<1>1. /\ Advanced /\ TypeOK /\ Told /\ This.key = "traceparent" /\ local \in Locals
      /\ local' = [local EXCEPT !.tp = IF @.trace = NoID THEN ParseTraceparent(This.tp) ELSE @]
  BY DEF IInv, TypeOK, OnTraceparent, Called, Advanced, This
<1>2. This.tp \in Traceparent
  BY <1>1, AdvancedFacts, PairTyped
<1>3. local' \in Locals
  BY <1>1, <1>2, ParentTyped DEF Locals
<1>4. TimeTold' /\ LevelTold' /\ MsgTold' /\ LoggerTold' /\ TraceTold' /\ SpanTold'
  BY <1>1, TimeKept, LevelKept, MsgKept, LoggerKept, TraceKept, SpanKept DEF Told, Locals
<1>5. ParentTold'
  <2>1. UpTo(ParentHits)' = ParentHits \cap (1..(pos+1))
    BY <1>1 DEF UpTo, ParentHits, Advanced
  <2>2. pos + 1 \in ParentHits <=> ParseTraceparent(This.tp) # NoIDs
    BY <1>1, AdvancedFacts DEF ParentHits, Hits, HasParent, This
  <2>3. UpTo(ParentHits) # {} => ParseTraceparent(line[Min(UpTo(ParentHits))].tp).trace # NoID
    <3>1. UpTo(ParentHits) # {} => Min(UpTo(ParentHits)) \in ParentHits
      BY <1>1, HitsTyped, UpToIsFirst DEF UpTo, TypeOK
    <3>2. QED
      BY <3>1, <1>1, HitDenotes DEF ParentHits, Hits, HasParent
  <2>4. local'.tp = IF local.tp.trace = NoID THEN ParseTraceparent(This.tp) ELSE local.tp
    BY <1>1 DEF Locals
  <2>5. line' = line /\ This = line[pos + 1]
    BY <1>1 DEF Advanced, This
  <2>6. QED
    BY <1>1, <2>1, <2>2, <2>3, <2>4, <2>5, AdvancedFacts DEF ParentTold, Told, NoIDs
<1>6. QED
  BY <1>1, <1>3, <1>4, <1>5 DEF Told, Callbacked

\* A key the gate turns away contributes nothing.
LEMMA OnOtherTells == ASSUME IInv, OnOther PROVE Callbacked
<1>1. /\ Advanced /\ TypeOK /\ Told /\ This.key = "other" /\ local \in Locals
      /\ local' = local
  BY DEF IInv, TypeOK, OnOther, Advanced, This
<1>2. QED
  BY <1>1, TimeKept, LevelKept, MsgKept, LoggerKept, TraceKept, SpanKept, ParentKept
     DEF Told, Callbacked

-----------------------------------------------------------------------------
(* The scan ends with what the whole line says                             *)

\* A signal that was found is the whole line's, and so is every signal when
\* nothing of the line is left.
LEMMA SignalIsWhole ==
  ASSUME TypeOK,
         NEW H \in {TimeHits, LevelHits, RawHits, MsgHits, LoggerHits, TraceHits, SpanHits,
                   ParentHits},
         UpTo(H) # {} \/ pos = Len(line)
  PROVE  /\ UpTo(H) = {} <=> H = {}
         /\ H # {} => Min(H) = Min(UpTo(H))
<1>1. pos \in Nat /\ Len(line) \in Nat
  BY DEF TypeOK
<1>2. H \in SUBSET Nat /\ H \subseteq 1..Len(line) /\ 0 \notin H
  BY HitsTyped
<1>3. CASE UpTo(H) # {}
  BY <1>1, <1>2, <1>3, UpToIsFirst DEF UpTo
<1>4. CASE pos = Len(line)
  <2>1. UpTo(H) = H
    BY <1>1, <1>2, <1>4 DEF UpTo
  <2>2. QED
    BY <2>1
<1>5. QED
  BY <1>3, <1>4

\* The result written at the end of the scan is the Outcome of the whole line.
LEMMA WrittenIsOutcome ==
  ASSUME IInv, pc = "write"
  PROVE  Written(local) = Outcome(line)
<1>1. /\ TypeOK /\ Told /\ HasEquals(line)
      /\ ~ Missing(local) \/ pos = Len(line)
  BY DEF IInv, Controlled
<1>2. /\ UpTo(TraceHits) # {} => line[Min(UpTo(TraceHits))].trace.id # NoID
      /\ UpTo(SpanHits) # {} => line[Min(UpTo(SpanHits))].span.id # NoID
  <2>1. ASSUME NEW H \in {TraceHits, SpanHits}, UpTo(H) # {} PROVE Min(UpTo(H)) \in H
    <3>1. H \in SUBSET Nat /\ 0 \notin H /\ pos \in Nat
      BY <1>1, HitsTyped DEF TypeOK
    <3>2. QED
      BY <2>1, <3>1, UpToIsFirst DEF UpTo
  <2>2. QED
    BY <1>1, <2>1, HitDenotes
<1>3. /\ UpTo(TimeHits) # {} \/ pos = Len(line)
      /\ UpTo(LevelHits) # {} \/ pos = Len(line)
      /\ UpTo(MsgHits) # {} \/ pos = Len(line)
      /\ UpTo(LoggerHits) # {} \/ pos = Len(line)
      /\ UpTo(TraceHits) # {} \/ pos = Len(line)
      /\ UpTo(SpanHits) # {} \/ pos = Len(line)
  <2>1. CASE pos = Len(line)
    BY <2>1
  <2>2. CASE ~ Missing(local)
    <3>1. /\ local.ts # NoTime /\ local.levelGood /\ local.msg # NoText
          /\ local.logger # NoText /\ local.trace # NoID /\ local.span # NoID
      BY <2>2 DEF Missing
    <3>2. UpTo(LevelHits) # {}
      BY <1>1, <3>1 DEF Told, LevelTold
    <3>3. /\ UpTo(TimeHits) # {} /\ UpTo(MsgHits) # {} /\ UpTo(LoggerHits) # {}
          /\ UpTo(TraceHits) # {} /\ UpTo(SpanHits) # {}
      BY <1>1, <3>1 DEF Told, TimeTold, MsgTold, LoggerTold, TraceTold, SpanTold
    <3>4. QED
      BY <3>2, <3>3
  <2>3. QED
    BY <1>1, <2>1, <2>2
<1>4. local.ts = LineTime(line)
  BY <1>1, <1>3, SignalIsWhole DEF Told, TimeTold, LineTime, Some, First, TimeHits
<1>5. local.level = LineLevel(line)
  <2>1. CASE UpTo(LevelHits) # {}
    BY <1>1, <2>1, SignalIsWhole DEF Told, LevelTold, LineLevel, Some, First, LevelHits
  <2>2. CASE UpTo(LevelHits) = {}
    <3>1. pos = Len(line)
      BY <1>3, <2>2
    <3>2. /\ LevelHits = {}
          /\ UpTo(RawHits) = {} <=> RawHits = {}
          /\ RawHits # {} => Min(RawHits) = Min(UpTo(RawHits))
      BY <1>1, <2>2, <3>1, SignalIsWhole
    <3>3. local.level = IF RawHits # {} THEN Graded(line[Min(RawHits)].level, 0)
                        ELSE NoSeverity
      BY <1>1, <2>2, <3>2 DEF Told, LevelTold
    <3>4. ~ Some(line, HasLevel)
      BY <3>2 DEF Some, LevelHits
    <3>5. Some(line, HasRawLevel) <=> RawHits # {}
      BY DEF Some, RawHits
    <3>6. First(line, HasRawLevel) = line[Min(RawHits)]
      BY DEF First, RawHits
    <3>7. QED
      BY <3>3, <3>4, <3>5, <3>6 DEF LineLevel
  <2>3. QED
    BY <2>1, <2>2
<1>6. local.msg = LineMessage(line)
  BY <1>1, <1>3, SignalIsWhole DEF Told, MsgTold, LineMessage, Some, First, MsgHits
<1>7. local.logger = LineLogger(line)
  BY <1>1, <1>3, SignalIsWhole DEF Told, LoggerTold, LineLogger, Some, First, LoggerHits
<1>8. pos = Len(line) => local.tp = LineParent(line)
  BY <1>1, SignalIsWhole DEF Told, ParentTold, LineParent, Some, First, ParentHits
<1>9. ExplicitFirst(local.trace, local.tp.trace) = LineTrace(line)
  <2>1. CASE UpTo(TraceHits) # {}
    <3>1. local.trace = line[Min(TraceHits)].trace.id /\ local.trace # NoID /\ TraceHits # {}
      BY <1>1, <1>2, <2>1, SignalIsWhole DEF Told, TraceTold
    <3>2. QED
      BY <3>1 DEF ExplicitFirst, LineTrace, Some, First, TraceHits, Undashed
  <2>2. CASE UpTo(TraceHits) = {}
    <3>1. local.trace = NoID /\ TraceHits = {} /\ local.tp = LineParent(line)
      BY <1>1, <1>3, <1>8, <2>2, SignalIsWhole DEF Told, TraceTold
    <3>2. QED
      BY <3>1 DEF ExplicitFirst, LineTrace, Some, TraceHits
  <2>3. QED
    BY <2>1, <2>2
<1>10. ExplicitFirst(local.span, local.tp.span) = LineSpan(line)
  <2>1. CASE UpTo(SpanHits) # {}
    <3>1. local.span = line[Min(SpanHits)].span.id /\ local.span # NoID /\ SpanHits # {}
      BY <1>1, <1>2, <2>1, SignalIsWhole DEF Told, SpanTold
    <3>2. QED
      BY <3>1 DEF ExplicitFirst, LineSpan, Some, First, SpanHits
  <2>2. CASE UpTo(SpanHits) = {}
    <3>1. local.span = NoID /\ SpanHits = {} /\ local.tp = LineParent(line)
      BY <1>1, <1>3, <1>8, <2>2, SignalIsWhole DEF Told, SpanTold
    <3>2. QED
      BY <3>1 DEF ExplicitFirst, LineSpan, Some, SpanHits
  <2>3. QED
    BY <2>1, <2>2
<1>11. QED
  BY <1>1, <1>4, <1>5, <1>6, <1>7, <1>9, <1>10 DEF Written, Outcome

\* What is written is of the types of the result fields.
LEMMA WrittenTyped ==
  ASSUME TypeOK
  PROVE  Written(local) \in Outcomes
<1>1. /\ local \in Locals
      /\ local.tp \in [trace : TraceIDs \cup {NoID}, span : SpanIDs \cup {NoID}]
  BY DEF TypeOK, Locals
<1>2. /\ ExplicitFirst(local.trace, local.tp.trace) \in TraceIDs \cup {NoID}
      /\ ExplicitFirst(local.span, local.tp.span) \in SpanIDs \cup {NoID}
  BY <1>1 DEF Locals, ExplicitFirst
<1>3. Claims(local.ts, local.level, ExplicitFirst(local.trace, local.tp.trace)) \in BOOLEAN
  BY DEF Claims
<1>4. QED
  BY <1>1, <1>2, <1>3 DEF Written, Outcomes, Locals

\* The answer of a line without '=' is well typed.
LEMMA NothingReadTyped == NothingRead \in Outcomes
BY DEF NothingRead, Outcomes, NoSeverity

-----------------------------------------------------------------------------
(* The inductive invariant                                                 *)

\* The scan starts in the invariant.
LEMMA Starts == Init => IInv
<1> SUFFICES ASSUME Init PROVE IInv
  OBVIOUS
<1>1. line \in Seq(Pair) /\ Len(line) \in Nat /\ pos = 0 /\ local = NoLocals
  BY LinesAssumption DEF Init
<1>2. local \in Locals
  BY <1>1 DEF NoLocals, Locals, NoSeverity, NoIDs
<1>3. TypeOK
  BY <1>1, <1>2, NothingReadTyped DEF Init, TypeOK, NotYet
<1>4. \A H : UpTo(H) = {}
  BY <1>1 DEF UpTo
<1>5. Told
  BY <1>1, <1>4 DEF Told, TimeTold, LevelTold, MsgTold, LoggerTold, TraceTold, SpanTold,
                    ParentTold, NoLocals
<1>6. Controlled
  BY DEF Init, Controlled
<1>7. QED
  BY <1>3, <1>5, <1>6 DEF IInv

\* Every case of the switch reads its pair, and ends the scan only when
\* nothing is missing.
LEMMA CallbackTells ==
  ASSUME IInv, Callback
  PROVE  /\ Callbacked /\ pc = "scan" /\ answer' = answer
         /\ pc' \in {"scan", "write"} /\ (pc' = "write" => ~ Missing(local'))
<1>1. ASSUME NEW key, NEW STATE l, Called(key, l)
      PROVE  /\ pc = "scan" /\ answer' = answer /\ local' = l
             /\ pc' = IF Missing(l) THEN "scan" ELSE "write"
  BY <1>1 DEF Called
<1>2. CASE OnTime
  BY <1>2, OnTimeTells DEF OnTime, Called
<1>3. CASE OnLevel
  BY <1>3, OnLevelTells DEF OnLevel, Called
<1>4. CASE OnMsg
  BY <1>4, OnMsgTells DEF OnMsg, Called
<1>5. CASE OnLogger
  BY <1>5, OnLoggerTells DEF OnLogger, Called
<1>6. CASE OnTrace
  BY <1>6, OnTraceTells DEF OnTrace, Called
<1>7. CASE OnSpan
  BY <1>7, OnSpanTells DEF OnSpan, Called
<1>8. CASE OnTraceparent
  BY <1>8, OnTraceparentTells DEF OnTraceparent, Called
<1>9. CASE OnOther
  BY <1>9, OnOtherTells DEF OnOther
<1>10. QED
  BY <1>2, <1>3, <1>4, <1>5, <1>6, <1>7, <1>8, <1>9 DEF Callback

\* Whichever key the callback is given, the invariant holds after it.
LEMMA CallbackKeeps == ASSUME IInv, Callback PROVE IInv'
<1>1. /\ Callbacked /\ pc = "scan" /\ answer' = answer
      /\ pc' \in {"scan", "write"} /\ (pc' = "write" => ~ Missing(local'))
  BY CallbackTells
<1>2. line' = line /\ pos' \in 0..Len(line)
  BY <1>1 DEF Callbacked, Advanced, IInv, TypeOK
<1>3. TypeOK'
  BY <1>1, <1>2 DEF Callbacked, IInv, TypeOK
<1>4. Controlled'
  BY <1>1, <1>2 DEF IInv, Controlled
<1>5. QED
  BY <1>1, <1>3, <1>4 DEF Callbacked, IInv

\* The other three steps leave what was told alone.
LEMMA ToldStays ==
  ASSUME Told, UNCHANGED <<line, pos, local>>
  PROVE  Told'
BY DEF Told, TimeTold, LevelTold, MsgTold, LoggerTold, TraceTold, SpanTold, ParentTold, UpTo,
       TimeHits, LevelHits, RawHits, MsgHits, LoggerHits, TraceHits, SpanHits, ParentHits

\* The two steps that report give the answer the line promises.
LEMMA AnswerIsPromised ==
  ASSUME IInv, Gate \/ EndOfLine \/ Write
  PROVE  /\ UNCHANGED <<line, pos, local>>
         /\ IF pc' = "done" THEN answer' = Promised(line) ELSE answer' = answer
         /\ pc # "done" /\ answer = NotYet
<1>1. CASE Gate
  BY <1>1 DEF Gate, Promised, Outcome, IInv, Controlled
<1>2. CASE EndOfLine
  BY <1>2 DEF EndOfLine, IInv, Controlled
<1>3. CASE Write
  BY <1>3, WrittenIsOutcome DEF Write, Promised, IInv, Controlled
<1>4. QED
  BY <1>1, <1>2, <1>3

\* Every step of the scan preserves the invariant.
LEMMA Inductive == IInv /\ [Next]_vars => IInv'
<1>1. ASSUME IInv, Callback PROVE IInv'
  BY <1>1, CallbackKeeps
<1>2. ASSUME IInv, Gate PROVE IInv'
  <2>1. Told'
    BY <1>2, ToldStays DEF Gate, IInv
  <2>2. TypeOK'
    <3>1. TypeOK /\ answer = NotYet /\ UNCHANGED <<line, pos, local>>
      BY <1>2 DEF Gate, IInv, Controlled
    <3>2. CASE HasEquals(line)
      <4>1. pc' = "scan" /\ answer' = answer /\ ~ answer.answered
        BY <1>2, <3>1, <3>2 DEF Gate, NotYet
      <4>2. QED
        BY <3>1, <4>1 DEF TypeOK
    <3>3. CASE ~ HasEquals(line)
      <4>1. pc' = "done" /\ answer' = [answered |-> TRUE, value |-> NothingRead]
        BY <1>2, <3>3 DEF Gate, Answer
      <4>2. QED
        BY <3>1, <4>1, NothingReadTyped DEF TypeOK
    <3>4. QED
      BY <3>2, <3>3
  <2>3. Controlled'
    BY <1>2, AnswerIsPromised DEF Gate, IInv, Controlled
  <2>4. QED
    BY <2>1, <2>2, <2>3 DEF IInv
<1>3. ASSUME IInv, EndOfLine PROVE IInv'
  <2>1. Told'
    BY <1>3, ToldStays DEF EndOfLine, IInv
  <2>2. TypeOK' /\ Controlled'
    BY <1>3 DEF EndOfLine, IInv, TypeOK, Controlled
  <2>3. QED
    BY <2>1, <2>2 DEF IInv
<1>4. ASSUME IInv, Write PROVE IInv'
  <2>1. Told'
    BY <1>4, ToldStays DEF Write, IInv
  <2>2. Written(local) \in Outcomes
    BY <1>4, WrittenTyped DEF IInv
  <2>3. TypeOK'
    BY <1>4, <2>2 DEF Write, IInv, TypeOK, Answer
  <2>4. Controlled'
    BY <1>4, AnswerIsPromised DEF Write, IInv, Controlled
  <2>5. QED
    BY <2>1, <2>3, <2>4 DEF IInv
<1>5. ASSUME IInv, UNCHANGED vars PROVE IInv'
  <2>1. Told'
    BY <1>5, ToldStays DEF vars, IInv
  <2>2. TypeOK' /\ Controlled'
    BY <1>5 DEF vars, IInv, TypeOK, Controlled, HasEquals, Missing, Promised
  <2>3. QED
    BY <2>1, <2>2 DEF IInv
<1>6. QED
  BY <1>1, <1>2, <1>3, <1>4, <1>5 DEF Next

\* The invariant of the scan, for every set of lines.
THEOREM AlwaysIInv == Spec => []IInv
BY Starts, Inductive, PTL DEF Spec

-----------------------------------------------------------------------------
(* What the captured variables say of the part of the line read so far     *)

\* The part of the line the callback has been given, position by position.
LEMMA SeenIs ==
  ASSUME TypeOK
  PROVE  /\ DOMAIN Seen = 1..pos
         /\ \A i \in 1..pos : i \in DOMAIN line /\ Seen[i] = line[i]
<1>1. line \in Seq(Pair) /\ pos \in Nat /\ pos <= Len(line)
  BY DEF TypeOK
<1>2. QED
  BY <1>1 DEF Seen

\* The pairs of that part that supply a signal.
LEMMA SeenHits ==
  ASSUME TypeOK
  PROVE  /\ Hits(Seen, HasTime) = UpTo(TimeHits)
         /\ Hits(Seen, HasLevel) = UpTo(LevelHits)
         /\ Hits(Seen, HasRawLevel) = UpTo(RawHits)
         /\ Hits(Seen, HasMsg) = UpTo(MsgHits)
         /\ Hits(Seen, HasLogger) = UpTo(LoggerHits)
         /\ Hits(Seen, HasTrace) = UpTo(TraceHits)
         /\ Hits(Seen, HasSpan) = UpTo(SpanHits)
         /\ Hits(Seen, HasParent) = UpTo(ParentHits)
BY SeenIs DEF Hits, UpTo, TimeHits, LevelHits, RawHits, MsgHits, LoggerHits, TraceHits,
              SpanHits, ParentHits

\* The first of them is the pair a captured variable was told by.
LEMMA SeenFirst ==
  ASSUME TypeOK
  PROVE  \A H \in {TimeHits, LevelHits, RawHits, MsgHits, LoggerHits, TraceHits, SpanHits,
                   ParentHits} :
           UpTo(H) # {} => Seen[Min(UpTo(H))] = line[Min(UpTo(H))]
<1>1. SUFFICES ASSUME NEW H \in {TimeHits, LevelHits, RawHits, MsgHits, LoggerHits,
                                 TraceHits, SpanHits, ParentHits},
                      UpTo(H) # {}
               PROVE  Seen[Min(UpTo(H))] = line[Min(UpTo(H))]
  OBVIOUS
<1>2. UpTo(H) \in SUBSET Nat /\ UpTo(H) \subseteq 1..pos
  BY HitsTyped DEF UpTo
<1>3. Min(UpTo(H)) \in 1..pos
  BY <1>1, <1>2, MinIsLeast
<1>4. QED
  BY <1>3, SeenIs

\* The invariant of the callback says what PrefixFaithful says.
LEMMA ToldIsFaithful == ASSUME TypeOK, Told PROVE PrefixFaithful
<1>1. local.ts = LineTime(Seen)
  BY SeenHits, SeenFirst DEF Told, TimeTold, LineTime, Some, First
<1>2. local.level = LineLevel(Seen)
  BY SeenHits, SeenFirst DEF Told, LevelTold, LineLevel, Some, First
<1>3. local.levelGood <=> Some(Seen, HasLevel)
  BY SeenHits DEF Told, LevelTold, Some
<1>4. local.msg = LineMessage(Seen)
  BY SeenHits, SeenFirst DEF Told, MsgTold, LineMessage, Some, First
<1>5. local.logger = LineLogger(Seen)
  BY SeenHits, SeenFirst DEF Told, LoggerTold, LineLogger, Some, First
<1>6. local.trace = (IF Some(Seen, HasTrace) THEN First(Seen, HasTrace).trace.id ELSE NoID)
  BY SeenHits, SeenFirst DEF Told, TraceTold, Some, First
<1>7. local.span = (IF Some(Seen, HasSpan) THEN First(Seen, HasSpan).span.id ELSE NoID)
  BY SeenHits, SeenFirst DEF Told, SpanTold, Some, First
<1>8. local.tp = LineParent(Seen)
  BY SeenHits, SeenFirst DEF Told, ParentTold, LineParent, Some, First
<1>9. QED
  BY <1>1, <1>2, <1>3, <1>4, <1>5, <1>6, <1>7, <1>8 DEF PrefixFaithful

\* Without a key of its own for either, both identifiers of a line that has a
\* trace come from its first valid traceparent.
LEMMA PromiseKeepsParent ==
  ASSUME TypeOK, answer = Promised(line)
  PROVE  ParentIDsStayTogether
<1>1. SUFFICES ASSUME answer.value.trace # NoID,
                      \A i \in DOMAIN line : ~ HasTrace(line[i]) /\ ~ HasSpan(line[i])
               PROVE  \E i \in DOMAIN line :
                        /\ line[i].key = "traceparent"
                        /\ ParseTraceparent(line[i].tp) = [trace |-> answer.value.trace,
                                                          span |-> answer.value.span]
  BY DEF ParentIDsStayTogether
<1>2. answer.value = Outcome(line)
  BY DEF Promised, Answer
<1>3. HasEquals(line)
  BY <1>1, <1>2 DEF Outcome, NothingRead
<1>4. answer.value.trace = LineTrace(line) /\ answer.value.span = LineSpan(line)
  BY <1>2, <1>3 DEF Outcome
<1>5. ~ Some(line, HasTrace) /\ ~ Some(line, HasSpan)
  BY <1>1 DEF Some, Hits
<1>6. answer.value.trace = LineParent(line).trace /\ answer.value.span = LineParent(line).span
  BY <1>4, <1>5 DEF LineTrace, LineSpan
<1>7. ParentHits # {} /\ LineParent(line) = ParseTraceparent(line[Min(ParentHits)].tp)
  BY <1>1, <1>6 DEF LineParent, Some, First, ParentHits, NoIDs
<1>8. Min(ParentHits) \in ParentHits
  BY <1>7, HitsTyped, MinIsLeast
<1>9. Min(ParentHits) \in DOMAIN line /\ HasParent(line[Min(ParentHits)])
  BY <1>8 DEF ParentHits, Hits
<1>10. line[Min(ParentHits)] \in Pair /\ line[Min(ParentHits)].key = "traceparent"
  BY <1>9 DEF HasParent, TypeOK
<1>11. LineParent(line) = [trace |-> LineParent(line).trace, span |-> LineParent(line).span]
  <2>1. line[Min(ParentHits)].tp \in Traceparent
    BY <1>10, PairTyped
  <2>2. LineParent(line) \in [trace : TraceIDs \cup {NoID}, span : SpanIDs \cup {NoID}]
    BY <1>7, <2>1, ParentTyped
  <2>3. QED
    BY <2>2
<1>12. QED
  BY <1>6, <1>7, <1>9, <1>10, <1>11

-----------------------------------------------------------------------------
(* The results                                                             *)

\* The state of the scan is typed at every step, for lines of any length.
THEOREM ScanTyped == Spec => []TypeOK
<1>1. IInv => TypeOK
  BY DEF IInv
<1>2. QED
  BY <1>1, AlwaysIInv, PTL

\* After each callback the captured variables hold what the pairs read so far
\* say, for lines of any length and pairs in any order.
THEOREM PrefixIsFaithful == Spec => []PrefixFaithful
<1>1. IInv => PrefixFaithful
  BY ToldIsFaithful DEF IInv
<1>2. QED
  BY <1>1, AlwaysIInv, PTL

\* The two identifiers of a traceparent are never parted, and never paired with
\* another traceparent's.
THEOREM ParentsTogether == Spec => []ParentIDsStayTogether
<1>1. IInv => ParentIDsStayTogether
  <2>1. CASE pc = "done"
    BY <2>1, PromiseKeepsParent DEF IInv, Controlled
  <2>2. CASE pc # "done"
    BY <2>2 DEF IInv, Controlled, ParentIDsStayTogether, NotYet
  <2>3. QED
    BY <2>1, <2>2
<1>2. QED
  BY <1>1, AlwaysIInv, PTL

\* Stopping as soon as no signal is missing writes what the whole line says,
\* however long the line and whatever follows: no level, timestamp, ID or
\* traceparent behind the stop could have changed a field.
THEOREM NothingLost == Spec => []EarlyExitLosesNothing
<1>1. IInv => EarlyExitLosesNothing
  BY WrittenIsOutcome DEF EarlyExitLosesNothing
<1>2. QED
  BY <1>1, AlwaysIInv, PTL

\* The scan implements the whole-line specification (the safety half of
\* ImplementsWholeLine): the only answer it ever gives is Promised(line).
THEOREM WholeLine == Spec => Whole!Safe
<1>1. Init => Whole!Init
  BY DEF Init, Whole!Init
<1>2. IInv /\ [Next]_vars => [Whole!Return]_(Whole!vars)
  <2>1. ASSUME IInv, Callback PROVE [Whole!Return]_(Whole!vars)
    BY <2>1, CallbackTells DEF Whole!vars, Callbacked, Advanced
  <2>2. ASSUME IInv, Gate \/ EndOfLine \/ Write PROVE [Whole!Return]_(Whole!vars)
    BY <2>2, AnswerIsPromised DEF Whole!vars, Whole!Return
  <2>3. ASSUME UNCHANGED vars PROVE [Whole!Return]_(Whole!vars)
    BY <2>3 DEF vars, Whole!vars
  <2>4. QED
    BY <2>1, <2>2, <2>3 DEF Next
<1>3. QED
  BY <1>1, <1>2, AlwaysIInv, PTL DEF Spec, Whole!Safe
=============================================================================
