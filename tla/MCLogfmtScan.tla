---------------------------- MODULE MCLogfmtScan ----------------------------
(* A small instance of LogfmtScan for TLC.                                 *)
EXTENDS LogfmtScan, SequencesExt

MCTraceIDs == {"T1", "T2"}
MCSpanIDs  == {"S1", "S2"}
MCTimes    == {"t1", "t2"}
MCLevelTexts == {"", "bogus", "warn", "Notice", "D2", "info2"}
MCMessages == {"", "m1", "m2"}

TraceTextOf(i, h, d) == [id |-> i, hex |-> h, dashes |-> d, other |-> FALSE, zero |-> FALSE]
SpanTextOf(i, z)     == [id |-> i, hex |-> 16, dashes |-> 0, other |-> FALSE, zero |-> z]
TP(t, s, ok) == [trace |-> TraceTextOf(t, 32, 0), span |-> SpanTextOf(s, FALSE),
                 framed |-> ok, lower |-> TRUE]

TimePair(t)   == [key |-> "ts", time |-> t, bare |-> FALSE]
LevelPair(l)  == [key |-> "level", level |-> l, bare |-> FALSE]
TextPair(k, m) == [key |-> k, text |-> m, bare |-> FALSE]
TracePair(x)  == [key |-> "trace", trace |-> x, bare |-> FALSE]
SpanPair(x)   == [key |-> "span", span |-> x, bare |-> FALSE]
ParentPair(v) == [key |-> "traceparent", tp |-> v, bare |-> FALSE]

\* One pair for each of the six signals that end the scan.
Signals ==
  <<TimePair("t1"), LevelPair("Notice"), TextPair("msg", "m1"), TextPair("logger", "m1"),
    TracePair(TraceTextOf("T1", 32, 4)), SpanPair(SpanTextOf("S1", FALSE))>>

\* Pairs that compete with them, that fail to parse, or that are not theirs.
Noise ==
  { TimePair(NoTime), TimePair("t2"),
    LevelPair(""), LevelPair("bogus"), LevelPair("D2"), LevelPair("info2"),
    TextPair("msg", ""), TextPair("msg", "m2"), TextPair("logger", "m2"),
    TracePair(TraceTextOf("T2", 32, 0)), TracePair(TraceTextOf("T2", 32, 5)),
    SpanPair(SpanTextOf("S2", FALSE)), SpanPair(SpanTextOf("S2", TRUE)),
    ParentPair(TP("T2", "S2", TRUE)), ParentPair(TP("T1", "S1", TRUE)),
    ParentPair(TP("T1", "S2", FALSE)),
    [key |-> "other", bare |-> FALSE], [key |-> "other", bare |-> TRUE],
    [key |-> "level", level |-> "bogus", bare |-> TRUE] }

Rotation(n) == [i \in 1..6 |-> Signals[((i + n) % 6) + 1]]
Orders == {Rotation(n) : n \in {0, 2, 4}} \cup {Reverse(Rotation(0))}

\* Every line of at most two pairs; and every order of the six signals above
\* with one noise pair somewhere among them and one after them.
MCLines ==
  SeqOf({Signals[i] : i \in 1..6} \cup Noise, 2) \cup
  { Append(InsertAt(o, i, x), y) : o \in Orders, i \in 1..6, x \in Noise, y \in Noise }
=============================================================================
