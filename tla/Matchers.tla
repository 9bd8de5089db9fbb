------------------------------ MODULE Matchers ------------------------------
(***************************************************************************)
(* The hand matchers of fastmatch.go.  Each reads a line from left to      *)
(* right, taking as much as it can at every step, and answers what the     *)
(* table entry it is attached to would: no match, or a match with the same *)
(* captures.  The expression may give back what it took (backtracking);    *)
(* the question is whether a matcher that never does can be told apart.    *)
(*                                                                         *)
(* The properties say it of one line.                                      *)
(***************************************************************************)
EXTENDS PatternTable, FiniteSetsExt

-----------------------------------------------------------------------------
(* Scanning.  A position is counted from 1, a span ends before its end.    *)

In(s, i, set)     == i \in DOMAIN s /\ s[i] \in set
RunEnd(s, i, set) == Min({j \in i..(Len(s) + 1) : ~ In(s, j, set)} \cup {Len(s) + 1})
None == 0

NoSpan    == <<0, 0>>
NoMatch   == [verdict |-> "NoMatch", time |-> NoSpan, level |-> NoSpan]
Undecided == [verdict |-> "Undecided", time |-> NoSpan, level |-> NoSpan]
Matched(time, level) == [verdict |-> "Matched", time |-> time, level |-> level]

\* "dddd<dateSep>dd<dateSep>dd<timeSep>dd:dd:dd"
stampSkeleton(s, dateSep, timeSep) ==
  /\ Len(s) >= 19
  /\ \A i \in 1..19 :
       s[i] \in CASE i \in {5, 8}   -> {dateSep}
                  [] i = 11         -> {timeSep}
                  [] i \in {14, 17} -> {":"}
                  [] OTHER          -> Digits

FractionEnd(s, i) ==
  IF In(s, i, {"."}) /\ In(s, i + 1, Digits) THEN RunEnd(s, i + 2, Digits) ELSE i

zColonSpaceEnd(s, i) ==
  LET j == IF In(s, i, {"Z"}) /\ In(s, i + 1, {":"}) THEN i + 2 ELSE i
  IN  IF In(s, j, Spaces) THEN j + 1 ELSE None

ymdSlashStampEnd(s) ==
  IF stampSkeleton(s, "/", " ") THEN FractionEnd(s, 20) ELSE None

-----------------------------------------------------------------------------
(* The matchers *)

matchYmdSlashOptFrac(s) ==
  LET i == ymdSlashStampEnd(s)
  IN  IF i = None \/ zColonSpaceEnd(s, i) = None THEN NoMatch ELSE Matched(<<1, i>>, NoSpan)

matchYmdSlashBracketLevel(s) ==
  LET i == ymdSlashStampEnd(s)
      end == RunEnd(s, i + 2, Lower \cup Upper)
  IN  IF i # None /\ In(s, i, Spaces) /\ In(s, i + 1, {"["})
           /\ end # i + 2 /\ In(s, end, {"]"})
        THEN Matched(<<1, i>>, <<i + 2, end>>)
        ELSE NoMatch

matchMsDashNoFrac(s) ==
  IF stampSkeleton(s, "-", " ") /\ In(s, 20, Spaces) THEN Matched(<<1, 20>>, NoSpan)
  ELSE NoMatch

matchYmdSlash6Frac(s) ==
  IF /\ stampSkeleton(s, "/", " ")
     /\ In(s, 20, {"."}) /\ \A i \in 21..26 : In(s, i, Digits)
     /\ zColonSpaceEnd(s, 27) # None
    THEN Matched(<<1, 27>>, NoSpan)
    ELSE NoMatch

matchNginxPrefix(s) ==
  LET i == RunEnd(s, 1, Bytes \ (Spaces \cup {"[", "-"}))
  IN  IF i > 1 /\ In(s, i, Spaces) /\ In(s, i + 1, {"-"}) /\ In(s, i + 2, Spaces)
        THEN Undecided ELSE NoMatch

matchRedisPrefix(s) ==
  LET j == RunEnd(s, 1, Digits)
  IN  IF j > 1 /\ In(s, j, {":"}) /\ In(s, j + 1, {"C", "S", "M"}) /\ In(s, j + 2, Spaces)
        THEN Undecided ELSE NoMatch

\* The zone after the fraction, which ends at i; its end.
ZoneEnd(s, i, zSuffixOnly) ==
  CASE In(s, i, {"Z"}) -> i + 1
    [] /\ ~ zSuffixOnly
       /\ In(s, i, {"+", "-"}) /\ In(s, i + 3, {":"})
       /\ \A k \in {1, 2, 4, 5} : In(s, i + k, Digits) -> i + 6
    [] OTHER -> None

\* The stamp's span and the end of what was read, past an optional quote.
rfc3339Stamp(s, sep, zSuffixOnly) ==
  LET off == IF In(s, 1, {"quote"}) THEN 1 ELSE 0
      t   == SubSeq(s, off + 1, Len(s))
      z   == IF stampSkeleton(t, "-", sep) THEN ZoneEnd(t, FractionEnd(t, 20), zSuffixOnly) ELSE None
  IN  [ok |-> z # None, time |-> <<off + 1, off + z>>,
       end |-> IF In(s, off + z, {"quote"}) THEN off + z + 1 ELSE off + z]

\* Mutant: a run of letters of both cases is a level.
LevelEndAnyCase(s, k) == RunEnd(s, k, Lower \cup Upper)
LevelEnd(s, k) == IF In(s, k, Lower) THEN RunEnd(s, k, Lower) ELSE RunEnd(s, k, Upper)

matchRFC3339Level(s, sep, zSuffixOnly) ==
  LET stamp == rfc3339Stamp(s, sep, zSuffixOnly)
      k == RunEnd(s, stamp.end, Spaces)
      e == LevelEnd(s, k)
  IN  IF ~ stamp.ok \/ k = stamp.end THEN NoMatch
      ELSE Matched(stamp.time, IF e > k /\ In(s, e, Spaces) THEN <<k, e>> ELSE NoSpan)

matchLambda(s) ==
  LET stamp == rfc3339Stamp(s, "T", FALSE)
      level == stamp.end + IdLen + 2
      end   == RunEnd(s, level, Upper)
  IN  IF /\ stamp.ok
         /\ In(s, stamp.end, {"\t"}) /\ In(s, stamp.end + IdLen + 1, {"\t"})
         /\ \A j \in 1..IdLen : In(s, stamp.end + j, {"0", "a", "d", "A", "-"})
         /\ end # level /\ In(s, end, {"\t"})
        THEN Matched(stamp.time, <<level, end>>)
        ELSE NoMatch

\* fastMatcherFor: the table entries that have a matcher, and what it says.
Prefixed == [n \in {10, 15} |-> IF n = 10 THEN nginxPrefix ELSE redisPrefix]
Fast == {1, 2, 3, 4, 10, 15, 27, 28, 30}
fastMatcherFor(n, s) ==
  CASE n = 1  -> matchYmdSlashBracketLevel(s)
    [] n = 2  -> matchLambda(s)
    [] n = 3  -> matchRFC3339Level(s, "T", FALSE)
    [] n = 4  -> matchRFC3339Level(s, " ", TRUE)
    [] n = 10 -> matchNginxPrefix(s)
    [] n = 15 -> matchRedisPrefix(s)
    [] n = 27 -> matchMsDashNoFrac(s)
    [] n = 28 -> matchYmdSlashOptFrac(s)
    [] n = 30 -> matchYmdSlash6Frac(s)

-----------------------------------------------------------------------------
(* strings.Index with the scan anchored at another byte of the needle *)

LastAnchor(s, needle, anchor) == Len(s) - Len(needle) + anchor

indexAnchored(s, needle, anchor) ==
  LET last == LastAnchor(s, needle, anchor)
      from[i \in anchor..(Len(s) + 1)] ==
        LET j == RunEnd(s, i, Bytes \ {needle[anchor]})
            start == j - anchor + 1
        IN  IF i > last \/ j > last THEN None
            ELSE IF SubSeq(s, start, start + Len(needle) - 1) = needle THEN start
            ELSE from[j + 1]
  IN  IF last < anchor THEN None ELSE from[anchor]

-----------------------------------------------------------------------------
(* Properties *)

\* The named captures of the expression, empty ones left out as apply does.
Captured(way, name) ==
  LET spans == {<<c[2], c[3]>> : c \in {d \in way.captured : d[1] = name /\ d[2] < d[3]}}
  IN  IF spans = {} THEN NoSpan ELSE CHOOSE x \in spans : TRUE

\* A matcher rejects only lines its expression rejects.
RejectsOnlyMisses(line) ==
  \A n \in Fast : fastMatcherFor(n, line).verdict = "NoMatch" => ~ Matches(lineParsers[n].re, line)

\* A matcher that decides a match decides it with the captures of the
\* expression's preferred match, although it never gives back what it took.
SameCaptures(line) ==
  \A n \in Fast :
    LET m == fastMatcherFor(n, line)
        ways == Found(lineParsers[n].re, line)
    IN  m.verdict = "Matched" =>
          /\ ways # << >>
          /\ m.time = Captured(ways[1], "(?P<time>")
          /\ m.level = Captured(ways[1], "(?P<level>")

\* The two prefix matchers decline exactly the lines that have the prefix; the
\* others never decline.
DeclinesOnlyThePrefix(line) ==
  \A n \in Fast :
    fastMatcherFor(n, line).verdict = "Undecided"
      <=> n \in DOMAIN Prefixed /\ Matches(Prefixed[n], line)

\* The anchored scan finds the first occurrence, as strings.Index does.
FindsTheFirst(line, needle, anchor) ==
  LET starts == {i \in 1..(Len(line) - Len(needle) + 1) : SubSeq(line, i, i + Len(needle) - 1) = needle}
  IN  indexAnchored(line, needle, anchor) = IF starts = {} THEN None ELSE Min(starts)
=============================================================================
