--------------------------- MODULE SeverityLookup ---------------------------
(***************************************************************************)
(* How SeverityFromText finds a spelling (severity.go): the canonical      *)
(* words by a switch, then a test of the initial, then a table with one    *)
(* slot per hash and no probing, then, for a word that ends in digits, the *)
(* table again without them.  The table is filled once, at start.          *)
(*                                                                         *)
(* Severity.tla has the registry and what a text means, Spellings the      *)
(* letters; this module has the gates in front of the registry.            *)
(***************************************************************************)
EXTENDS Spellings

CONSTANT Words      \* what is looked up

VARIABLES
  sevTable,         \* [slot -> spelling], of the slots in use
  input,
  at,               \* "start", "switch", "initial", "lookup", "suffix", "done" or "panic"
  answer

vars == <<sevTable, input, at, answer>>

-----------------------------------------------------------------------------
Init ==
  /\ sevTable = << >> /\ input \in Words
  /\ at = "start" /\ answer = V!NoSeverity

\* Spellings come in any order; the second in a slot is a panic.
buildSevTable ==
  /\ at = "start"
  /\ at' = IF Cardinality({sevHash(s) : s \in Keys}) < Cardinality(Keys) THEN "panic" ELSE "switch"
  /\ sevTable' = [h \in {sevHash(s) : s \in Keys} |-> CHOOSE s \in Keys : sevHash(s) = h]
  /\ UNCHANGED <<input, answer>>

\* The slot's spelling, if it is the word's.
lookupSeverity(s) ==
  LET w == Folded(s)
  IN  IF /\ s # "" /\ Len(s) <= maxSeverityKey
         /\ sevHash(w) \in DOMAIN sevTable /\ sevTable[sevHash(w)] = w
        THEN V!severityLUT[w] ELSE V!NoSeverity

Answer(sev) == answer' = sev /\ at' = "done" /\ UNCHANGED <<sevTable, input>>
GoOn(there) == at' = there /\ UNCHANGED <<sevTable, input, answer>>

Canonical ==
  /\ at = "switch"
  /\ CASE input = "" -> Answer(V!NoSeverity)
       [] input \in V!Levels -> Answer(V!Graded(input, V!LevelNo[input]))
       [] OTHER -> GoOn("initial")

\* The case bit of the first byte is set, which turns no other byte into a letter.
Initial ==
  /\ at = "initial"
  /\ IF Occurs(severityInitials, LowerChar(Char(input, 1))) THEN GoOn("lookup") ELSE Answer(V!NoSeverity)

Lookup ==
  /\ at = "lookup"
  /\ LET sev == lookupSeverity(input) IN IF sev # V!NoSeverity THEN Answer(sev) ELSE GoOn("suffix")

TakesSuffix(text) == text \in {"trace", "debug"}

Suffix ==
  /\ at = "suffix"
  /\ LET stem == Trimmed(input)
         sev  == lookupSeverity(stem)
     IN  Answer(IF Len(stem) < Len(input) /\ TakesSuffix(sev.text) THEN sev ELSE V!NoSeverity)

Next == buildSevTable \/ Canonical \/ Initial \/ Lookup \/ Suffix
Spec == Init /\ [][Next]_vars

-----------------------------------------------------------------------------
(* Properties *)

\* Behind the gates is the registry: a text has a level if and only if it is a
\* spelling in any case, or one of trace or debug with a number behind it; a
\* word with the hash of another is not taken for it, and neither the switch
\* nor the initials keep a spelling out.  No two spellings share a slot, on
\* which the program would not start; and what the other modules take a text to
\* mean is what the code finds for it.
LookupIsRegistry ==
  /\ at # "panic"
  /\ at = "done" =>
       answer = LET w == Folded(input)
                    stem == Trimmed(w)
                IN  IF w \in Keys THEN V!severityLUT[w]
                    ELSE IF stem \in Keys /\ V!severityLUT[stem].text \in {"trace", "debug"}
                      THEN V!severityLUT[stem] ELSE V!NoSeverity
  /\ (at = "done" /\ input \in Keys \cup DOMAIN V!Folded \cup DOMAIN V!WithoutDigits) =>
       answer = V!SeverityFromText(input)
=============================================================================
