------------------------------ MODULE TextScans ------------------------------
(***************************************************************************)
(* Three scans over text that stand in for a regular expression or for the *)
(* decoder: removeANSICodes and resourceGroupID (enrich.go), pinoSeverity  *)
(* (severity.go).  A call works its text off as the function's loop does:  *)
(* at is i of removeANSICodes, off of resourceGroupID.                     *)
(*                                                                         *)
(* A text is a sequence of the pieces its scan tells apart: single bytes,  *)
(* or words of the pattern ("guid" is any 36 bytes validGUID accepts).     *)
(***************************************************************************)
EXTENDS Severity, SequencesExt, Calls

CONSTANTS
  Coloured,        \* the texts removeANSICodes is called with
  Identifiers,     \* the texts resourceGroupID is called with
  Records          \* the records pinoSeverity is called with, see Written

\* Pieces are told apart by name.
ASSUME PiecesAssumption == Coloured \cup Identifiers \subseteq Seq(STRING)

From(i)   == SubSeq(text, i, Len(text))
HasAt(s, i, w) == i + Len(w) - 1 <= Len(s) /\ SubSeq(s, i, i + Len(w) - 1) = w

\* strings.Index from i on; 0 for none.
IndexFrom(s, i, w) ==
  LET hits == {j \in i..Len(s) : HasAt(s, j, w)} IN IF hits = {} THEN 0 ELSE Min(hits)

-----------------------------------------------------------------------------
(* A record as an encoder writes it, for pinoSeverity *)

levelKey == <<"quote", "level", "quote", ":">>

\* A key or value is its pieces; an escaped quote is two, a backslash first.
Quoted(s) == <<"quote">> \o s \o <<"quote">>
Spaces == {" ", "\t", "\n", "\r"}

\* A member: its key, the pieces of its value, blanks before the value.
WrittenMember(m) == Quoted(m.key) \o <<":">> \o m.blanks \o m.value
Written(ms) ==
  (IF ms = << >> THEN <<"{">>
   ELSE FlattenSeq([i \in DOMAIN ms |-> <<IF i = 1 THEN "{" ELSE ",">> \o WrittenMember(ms[i])]))
  \o <<"}">>

\* The quotes of a key are escaped, and a value begins behind the blanks.
ObjectMember == [key : Seq(STRING), blanks : Seq(Spaces), value : Seq(STRING) \ {<< >>}]
ASSUME ObjectsAssumption ==
  \A ms \in Records :
    /\ ms \in Seq(ObjectMember)
    /\ \A i \in DOMAIN ms :
         /\ ms[i].value[1] \notin Spaces
         /\ \A j \in DOMAIN ms[i].key :
              ms[i].key[j] = "quote" => j > 1 /\ ms[i].key[j - 1] = "\\"

\* Decimal digits as pieces.
DigitOf == [d \in {"0", "1", "3", "5"} |->
              CASE d = "0" -> 0 [] d = "1" -> 1 [] d = "3" -> 3 [] OTHER -> 5]

-----------------------------------------------------------------------------
\* The members are those the text was written from.
ScanCalls ==
  {[function |-> "removeANSICodes", text |-> t] : t \in Coloured}
  \cup {[function |-> "resourceGroupID", text |-> t] : t \in Identifiers}
  \cup {[function |-> "pinoSeverity", text |-> Written(ms), members |-> ms] : ms \in Records}

\* removeANSICodes keeps b, and the end of the last sequence; last = 1 is none.
Nothing == [b |-> << >>, last |-> 1]

ScansInit ==
  /\ call \in ScanCalls
  /\ at = IF call.function = "removeANSICodes" THEN IndexFrom(text, 1, <<"esc">>) ELSE 1
  /\ kept = Nothing
  /\ answer = NoAnswer

(* removeANSICodes; positions count from 1 *)

\* Where the run of digits at i ends.
DigitsEnd(s, i) ==
  CHOOSE j \in i..Len(s) + 1 :
    /\ \A k \in i..j - 1 : s[k] = "digit"
    /\ j = Len(s) + 1 \/ s[j] # "digit"

\* The length of the sequence at the start of s, if i is where a digit group of
\* it begins: the groups, each with a digit, are taken whole.
GroupStep(s, length, i) ==
  LET stop == DigitsEnd(s, i)
  IN  CASE stop = i \/ stop = Len(s) + 1 -> 0
        [] stop \in i + 1..Len(s) /\ s[stop] = ";" -> length[stop + 1]
        [] stop \in i + 1..Len(s) /\ s[stop] = "m" -> stop
        [] OTHER -> 0
Groups(s) ==
  LET length[i \in 3..Len(s) + 1] == GroupStep(s, length, i) IN length
ansiSeqLen(s) == IF HasAt(s, 1, <<"esc", "[">>) THEN Groups(s)[3] ELSE 0

\* Mutant: after a sequence the loop looks for the next escape one byte on.
NextEscapeSkips(i) == IF i > Len(text) THEN 0 ELSE IndexFrom(text, i + 1, <<"esc">>)
NextEscape(i) == IF i > Len(text) THEN 0 ELSE IndexFrom(text, i, <<"esc">>)

Escape ==
  /\ Running("removeANSICodes") /\ at # 0
  /\ LET n == ansiSeqLen(From(at))
     IN  IF n > 0
           THEN GoesOn(NextEscape(at + n),
                       [b |-> kept.b \o SubSeq(text, kept.last, at - 1), last |-> at + n])
           ELSE GoesOn(NextEscape(at + 1), kept)

Rest ==
  /\ Running("removeANSICodes") /\ at = 0
  /\ Returns(IF kept.last = 1 THEN text ELSE kept.b \o From(kept.last))

(* resourceGroupID *)

subscriptions  == <<"/", "subscriptions", "/">>
resourceGroups == <<"/", "resourcegroups", "/">>

\* The pieces up to the next slash.
Name(s) ==
  LET slashes == {i \in DOMAIN s : s[i] = "/"}
  IN  IF slashes = {} THEN s ELSE SubSeq(s, 1, Min(slashes) - 1)

NameFits(name) == name # << >>

Group ==
  /\ Running("resourceGroupID")
  /\ LET i     == IndexFrom(text, at, subscriptions)
         rest  == From(i + Len(subscriptions))
         group == SubSeq(rest, 2, Len(rest))
         name  == Name(SubSeq(group, Len(resourceGroups) + 1, Len(group)))
     IN  IF i = 0 THEN Returns(<< >>)
         ELSE IF rest # << >> /\ rest[1] = "guid" /\ IsPrefix(resourceGroups, group) /\ NameFits(name)
           THEN Returns(subscriptions \o <<"guid">> \o resourceGroups \o name)
           ELSE GoesOn(i + Len(subscriptions), kept)

(* pinoSeverity *)

\* Mutant: blanks after the colon are not expected.
NotBlank(rest) == 1
AfterBlanks(rest) ==
  LET solid == {i \in DOMAIN rest : rest[i] \notin Spaces}
  IN  IF solid = {} THEN Len(rest) + 1 ELSE Min(solid)

DigitRun(s) ==
  LET ends == {i \in DOMAIN s : s[i] \notin DOMAIN DigitOf}
  IN  SubSeq(s, 1, IF ends = {} THEN Len(s) ELSE Min(ends) - 1)

\* The severity of a number at the start of s, of one or two digits.
GradeOf(s) ==
  LET ds == DigitRun(s)
  IN  CASE Len(ds) = 1 -> PinoSeverity(DigitOf[ds[1]])
        [] Len(ds) = 2 -> PinoSeverity(10 * DigitOf[ds[1]] + DigitOf[ds[2]])
        [] OTHER -> NoText

pinoSeverity ==
  /\ Running("pinoSeverity")
  /\ LET i    == IndexFrom(text, 1, levelKey)
         rest == From(i + Len(levelKey))
     IN  Returns(IF i = 0 THEN NoText ELSE GradeOf(SubSeq(rest, AfterBlanks(rest), Len(rest))))

ScansNext == pinoSeverity \/ Escape \/ Rest \/ Group
Scans == ScansInit /\ [][ScansNext]_vars

-----------------------------------------------------------------------------
(* Properties *)

\* \x1b\[\d+(;\d+)*m
IsSequence(s) ==
  /\ Len(s) >= 4 /\ s[1] = "esc" /\ s[2] = "[" /\ s[Len(s)] = "m"
  /\ \A i \in 3..Len(s) - 1 : s[i] \in {"digit", ";"}
  /\ s[3] = "digit" /\ s[Len(s) - 1] = "digit"
  /\ \A i \in 3..Len(s) - 2 : ~(s[i] = ";" /\ s[i + 1] = ";")

\* The bytes of the text that are in no sequence.
InSequence(p) ==
  \E i \in 1..p : \E j \in p..Len(text) : IsSequence(SubSeq(text, i, j))
Plain == {p \in DOMAIN text : ~ InSequence(p)}

\* That many of them come up to a place.
PlainUpTo(p) == Cardinality({q \in Plain : q <= p})

\* Where the scan jumps from escape to escape, it removes exactly the text's
\* colour sequences, as replacing the pattern it stands in for would, and keeps
\* every other byte, in order: a broken sequence, too, and one that a sequence
\* interrupts.
ColoursAreRemoved ==
  Answered("removeANSICodes") =>
    /\ Said \in Seq(STRING) /\ Len(Said) = Cardinality(Plain)
    /\ \A p \in Plain : Said[PlainUpTo(p)] = text[p]

\* /subscriptions/<guid>/resourcegroups/[^/]+ at i.
MatchesAt(i) ==
  /\ HasAt(text, i, subscriptions \o <<"guid">> \o resourceGroups)
  /\ i + 7 \in DOMAIN text /\ text[i + 7] # "/"
MatchAt(i) == SubSeq(text, i, i + 6) \o Name(From(i + 7))

FirstMatch(starts) == IF starts = {} THEN <<>> ELSE MatchAt(Min(starts))

\* The scan is "the equivalent scan" of the pattern, for every identifier.
ScanIsPattern ==
  Answered("resourceGroupID") =>
    Said = FirstMatch({i \in DOMAIN text : MatchesAt(i)})

\* It is, for every identifier in which no prefix begins with the slash that
\* ends another: an empty name, a short identifier or a wrong word only sends
\* the scan on to the next prefix.
ScanIsPatternButOverlaps ==
  (Answered("resourceGroupID")
     /\ ~ \E i \in DOMAIN text : HasAt(text, i, subscriptions \o Tail(subscriptions))) =>
    Said = FirstMatch({i \in DOMAIN text : MatchesAt(i)})

EndsInLevel(key) == key # << >> /\ Last(key) = "level" /\ (Len(key) = 1 \/ key[Len(key) - 1] = "quote")

\* The keys in a member's value: of an object, here.
KeysIn(m) == {i \in DOMAIN m.value : HasAt(m.value, i, levelKey)}

\* The record's own first level.
OwnLevel ==
  LET own == {i \in DOMAIN call.members : call.members[i].key = <<"level">>}
  IN  IF own = {} THEN NoText ELSE GradeOf(call.members[Min(own)].value)

\* Fished out of the raw line, the number is the one of the record's own level,
\* unless a nested or odd key could be taken for it: no string misleads the
\* scan, whatever quotes and colons it holds.
PinoIsOwnLevel ==
  (Answered("pinoSeverity")
     /\ \A i \in DOMAIN call.members : KeysIn(call.members[i]) = {}
                                  /\ (EndsInLevel(call.members[i].key) => call.members[i].key = <<"level">>)) =>
    Said = OwnLevel

\* Both scans are the patterns they stand in for.
ScansAreTheirPatterns == ColoursAreRemoved /\ ScanIsPatternButOverlaps
=============================================================================
