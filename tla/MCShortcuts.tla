---------------------------- MODULE MCShortcuts ----------------------------
(***************************************************************************)
(* An instance for TLC of everything the library does by hand to be fast,  *)
(* against what the hand-written code stands in for.  The machines run     *)
(* side by side, and have nothing to do with each other: a behaviour is    *)
(* one of one of them, and v1 to v6 are its variables.                     *)
(*                                                                         *)
(* Matchers and TimeLayouts are pure; their machines here are producers of *)
(* lines and of timestamps.                                                *)
(***************************************************************************)
EXTENDS Matchers

CONSTANT
  MaxRepeats             \* bound of MatchingLines

-----------------------------------------------------------------------------
(* What Records and Enrich take for granted of the table, entry by entry    *)

\* The groups whose capture writes a level.
LevelGroups == {"(?P<level>", "(?P<sysloglevel>", "(?P<syslogpri>", "(?P<redis_level>",
                "(?P<response_code>", "(?P<logaserror>", "(?P<unhandled>"}

\* No entry has two of them.
ASSUME OneLevelGroupAssumption ==
  \A k \in DOMAIN lineParsers :
    Cardinality(ToSet(Text(lineParsers[k].re)) \cap LevelGroups) <= 1

\* The three messages of the benign list, a word as in PatternTable.
Spell(first, rest, n) == [i \in 1..n |-> IF i = 1 THEN first ELSE rest]
Sentence(words) == FlattenSeq([k \in DOMAIN words |-> (IF k = 1 THEN << >> ELSE <<" ">>) \o words[k]])
BenignMessages ==
  { Sentence(<<Spell("F", "a", 6), Spell("t", "a", 2), Spell("a", "a", 3), Spell("a", "a", 6)>>),
    Sentence(<<Spell("a", "a", 5), Spell("a", "a", 7), Spell("a", "a", 6), Spell("a", "a", 5)>>),
    Sentence(<<<<"[">> \o Spell("S", "A", 6), Spell("A", "A", 3), Spell("A", "A", 6) \o <<"]">>,
               Spell("f", "a", 6), Spell("t", "a", 2), Spell("a", "a", 6), Spell("a", "a", 13)>>) }

\* Whether an entry claims a line, wherever in it.
Claims(entry, s) ==
  /\ entry.contain = << >> \/ \E i \in DOMAIN s : IsPrefix(entry.contain, SubSeq(s, i, Len(s)))
  /\ \E i \in 1..Len(s) + 1 : Ways(entry.re, s, i, {}) # << >>

\* No entry claims a line that is one of them.
ASSUME BenignLinesAssumption ==
  \A msg \in BenignMessages : \A k \in DOMAIN lineParsers : ~ Claims(lineParsers[k], msg)

-----------------------------------------------------------------------------
VARIABLES machine, v1, v2, v3, v4, v5, v6

vars == <<machine, v1, v2, v3, v4, v5, v6>>

Input == INSTANCE MCShortcutInputs

Layouts == INSTANCE TimeLayouts

Gate == INSTANCE MatchingLines
  WITH entry <- v1, compiled <- v2, todo <- v3, text <- v4, present <- v5, done <- v6
Lookup == INSTANCE SeverityLookup
  WITH Words <- Input!Words, sevTable <- v1, input <- v2, at <- v3, answer <- v4

-----------------------------------------------------------------------------
Unused == "unused"

InitLines == \E f \in DOMAIN Input!Families : v1 = f /\ v2 \in Input!Families[f].heads /\ v3 = v2
InitTimes == v1 \in Input!Cores \cup Input!BadCores /\ v2 = << >> /\ v3 = 0

Init ==
  \/ machine = "gates"  /\ Gate!Init
  \/ machine = "lookup" /\ Lookup!Init /\ v5 = Unused /\ v6 = Unused
  \/ /\ machine = "lines" /\ InitLines
     /\ v4 = Unused /\ v5 = Unused /\ v6 = Unused
  \/ /\ machine = "times" /\ InitTimes
     /\ v4 = Unused /\ v5 = Unused /\ v6 = Unused

\* A line, v3, gets its next byte.
Grow ==
  /\ Len(v3) < Len(v2) + Input!Families[v1].max
  /\ \E b \in Input!Families[v1].tail : v3' = Append(v3, b)
  /\ UNCHANGED <<v1, v2, v4>>

\* A timestamp's rest, v2, gets its next piece.
Write ==
  /\ v3 < Input!MaxPieces(v1)
  /\ \E p \in Input!Pieces : v2' = v2 \o p
  /\ v3' = v3 + 1
  /\ UNCHANGED <<v1, v4>>

Next ==
  /\ \/ machine = "gates"  /\ Gate!Next
     \/ machine = "lookup" /\ Lookup!Next /\ UNCHANGED <<v5, v6>>
     \/ machine = "lines"  /\ Grow        /\ UNCHANGED <<v5, v6>>
     \/ machine = "times"  /\ Write       /\ UNCHANGED <<v5, v6>>
  /\ UNCHANGED machine

Spec == Init /\ [][Next]_vars

-----------------------------------------------------------------------------
(* Properties *)

\* Every line an entry's expression matches passes the gates init derives.
MatchPassesGates == machine = "gates" => Gate!MatchPassesGates

\* No timestamp the layouts can read is lost to a first-byte bucket.
NoTimeIsLostToABucket == machine = "gates" => Gate!NoTimeIsLostToABucket

\* The hand matchers reject only what the expression of their table entry does
\* not match, capture what it captures, decline what they cannot know, and the
\* anchored scan is strings.Index.
MatchersAgree ==
  machine = "lines" =>
    /\ RejectsOnlyMisses(v3)
    /\ SameCaptures(v3)
    /\ DeclinesOnlyThePrefix(v3)
    /\ \A x \in Input!Needles : FindsTheFirst(v3, x[1], x[2])

\* The direct parsers of timestamps answer what the layouts would, and take the
\* shape the layouts write.
LayoutsAgree ==
  machine = "times" =>
    /\ Layouts!FastChangesOnlySpeed(v1, v2)
    /\ Layouts!GoStringAgrees(v1, v2)
    /\ Layouts!UsualShapeIsFast(v1, v2)

\* A time counts as zoned exactly if its text states a zone.
ZonedMeansStated == machine = "times" => Layouts!ZonedMeansStated(v1, v2)

\* The level table finds exactly the registered spellings.
LookupIsRegistry == machine = "lookup" => Lookup!LookupIsRegistry
=============================================================================
