-------------------------- MODULE PatternDispatch ---------------------------
(***************************************************************************)
(* enrichFromPatterns: finding the table entry that parses a plain line.   *)
(*                                                                         *)
(* The promise is simple: the first entry, in table order, whose regular   *)
(* expression matches, and the line's traceparent.  The code avoids almost *)
(* all of the regular expressions: it looks only in the bucket of the      *)
(* line's first byte, rejects by bytes at fixed positions, lets a hand     *)
(* matcher decide or decline, and asks for a byte or a substring that      *)
(* every match contains, remembering in a memo shared with the logfmt scan *)
(* which bytes it has looked for.                                          *)
(*                                                                         *)
(* What is assumed of the gates is that each rejects only lines its entry  *)
(* does not match (Sound, below); what is shown is that no order, skip,    *)
(* memo hit or early return then changes the outcome.                      *)
(***************************************************************************)
EXTENDS Naturals, Sequences, FiniteSetsExt

CONSTANTS
  Bytes,           \* the byte values that gates ask about
  Needles,         \* the substrings that entries ask for
  BytesOf,         \* [Needles -> the bytes of a needle]
  Positions,       \* the positions of the gate window
  Table,           \* the compiled entries, in table order
  Lines            \* the lines that can arrive

NoByte == "none"     \* Go's zero byte: no gate of that kind, or a padded position
NoNeedle == "none"

\* compiledLineParser.  first is the set of bytes a match can start with,
\* anyFirst says firstBytes recognised no prefix; gate maps window positions
\* to the byte wanted there.
Entry ==
  [first : SUBSET Bytes, anyFirst : BOOLEAN,
   gate : UNION {[P -> Bytes] : P \in SUBSET Positions}, quoted : BOOLEAN,
   fast : BOOLEAN, containByte : Bytes \cup {NoByte}, contain : Needles \cup {NoNeedle},
   rare : Bytes \cup {NoByte}, req : Bytes \cup {NoByte}]

Indices == 1..Len(Table)
Verdicts == {"NoMatch", "Matched", "Undecided"}

\* A line, by the facts the code can ask of it.  matches is the set of entries
\* that match it: the regular expression does, and the entry's 'contain' string,
\* if it has one, is in the line.  parent is "long enough for, and
\* containing, a valid traceparent"; long is the length test alone.
Line ==
  [first : Bytes \cup {NoByte}, bytes : SUBSET Bytes, needles : SUBSET Needles,
   window : [Positions -> Bytes \cup {NoByte}],
   quotedWindow : [Positions -> Bytes \cup {NoByte}],
   fast : [Indices -> Verdicts], matches : SUBSET Indices,
   long : BOOLEAN, parent : BOOLEAN]

\* passes: one masked word compare.
Passes(e, l) ==
  LET w == IF e.quoted THEN l.quotedWindow ELSE l.window
  IN  \A p \in DOMAIN e.gate : w[p] = e.gate[p]

\* parsersByFirstByte: table order is the order of the indices.
Bucket(b) == {i \in Indices : Table[i].anyFirst \/ b \in Table[i].first}

\* Every gate rejects only lines its entry does not match.  For first bytes,
\* positions, bytes and hand matchers that is implied by the expression; for
\* contain it is what matching means: "panic: ...", "Unhandled exception. " and
\* "Traceback ..." are conditions of their entries beside the expression.
Sound(l) ==
  /\ l.first # NoByte => l.first \in l.bytes
  /\ \A n \in l.needles : BytesOf[n] \subseteq l.bytes
  /\ l.parent => l.long /\ ("=" \in l.bytes \/ ":" \in l.bytes)
  /\ \A i \in Indices :
       LET e == Table[i] IN
         /\ i \in l.matches =>
              /\ l.first # NoByte
              /\ i \in Bucket(l.first)
              /\ Passes(e, l)
              /\ e.containByte \in l.bytes \cup {NoByte}
              /\ e.contain \in l.needles \cup {NoNeedle}
              /\ e.req \in l.bytes \cup {NoByte}
         /\ l.fast[i] = "Matched" => i \in l.matches
         /\ l.fast[i] = "NoMatch" => i \notin l.matches

\* rareByte returns a byte of the needle it was given.
ASSUME TableAssumption ==
  /\ {"=", ":"} \subseteq Bytes
  /\ NoByte \notin Bytes /\ NoNeedle \notin Needles
  /\ BytesOf \in [Needles -> SUBSET Bytes]
  /\ DOMAIN Table = 1..Len(Table)
  /\ Len(Table) \in Nat
  /\ \A i \in 1..Len(Table) :
       /\ Table[i] \in Entry
       /\ Table[i].rare # NoByte =>
            Table[i].contain # NoNeedle /\ Table[i].rare \in BytesOf[Table[i].contain]

ASSUME LinesAssumption == \A l \in Lines : l \in Line /\ Sound(l)

VARIABLES
  line,        \* the line
  memo,        \* byteMemo: which bytes were looked for, and which were there
  at,          \* what is tested next
  idx,         \* the entry being tried
  answer,      \* the winning entry (0: none), and whether a traceparent was taken
  scans        \* history: how often the whole line was scanned for each byte

vars == <<line, memo, at, idx, answer, scans>>

NoAnswer == [known |-> FALSE, entry |-> 0, parent |-> FALSE]
Found(i, p) == [known |-> TRUE, entry |-> i, parent |-> p]

Init ==
  /\ line \in Lines
  /\ memo = [checked |-> {}, present |-> {}]
  /\ at = "logfmt"
  /\ idx = 0
  /\ answer = NoAnswer
  /\ scans = [b \in Bytes |-> 0]

\* memo.has: its answer, and what asking for the bytes bs leaves behind.
Has(b) == IF b \in memo.checked THEN b \in memo.present ELSE b \in line.bytes

\* Mutant: every byte looked for is remembered as present.
FoundAll(bs) == memo.present \cup bs
FoundOf(bs) == memo.present \cup ((bs \ memo.checked) \cap line.bytes)

\* Mutant: only a byte that was found is remembered.
CheckedFound(bs) == memo.checked \cup (bs \cap line.bytes)
CheckedOf(bs) == memo.checked \cup bs

Remember(bs) ==
  /\ memo' = [checked |-> CheckedOf(bs), present |-> FoundOf(bs)]
  /\ scans' = [b \in Bytes |-> IF b \in bs \ memo.checked THEN scans[b] + 1 ELSE scans[b]]

E == Table[idx]

GoTo(place) == at' = place /\ UNCHANGED <<line, idx, answer>>
NoScan == UNCHANGED <<memo, scans>>

\* enrichFromLogFmt asks for '=' first; this module follows the lines it did
\* not claim.
LogfmtGate == at = "logfmt" /\ Remember({"="}) /\ GoTo("next")

\* Mutant: the end of the bucket leaves the index one past the table.
NextEntryPastEnd ==
  /\ at = "next"
  /\ LET rest == {i \in Bucket(line.first) : i > idx} IN
       IF line.first = NoByte \/ rest = {}
         THEN at' = "parent" /\ idx' = Len(Table) + 1
         ELSE /\ idx' = Min(rest)
              /\ at' = IF Passes(Table[Min(rest)], line) THEN "fast" ELSE "next"
  /\ NoScan
  /\ UNCHANGED <<line, answer>>

\* The next entry of the bucket, rejected by its positional gate or tried.
NextEntry ==
  /\ at = "next"
  /\ LET rest == {i \in Bucket(line.first) : i > idx} IN
       IF line.first = NoByte \/ rest = {}
         THEN at' = "parent" /\ idx' = 0
         ELSE /\ idx' = Min(rest)
              /\ at' = IF Passes(Table[Min(rest)], line) THEN "fast" ELSE "next"
  /\ NoScan
  /\ UNCHANGED <<line, answer>>

\* Mutant: a hand matcher that declines is taken for one that rejects.
HandMatcherNeverDeclines ==
  /\ at = "fast"
  /\ GoTo(CASE E.fast /\ line.fast[idx] # "Matched" -> "next"
            [] E.fast /\ line.fast[idx] = "Matched" -> "parent"
            [] OTHER -> "contain")
  /\ NoScan

HandMatcher ==
  /\ at = "fast"
  /\ GoTo(CASE E.fast /\ line.fast[idx] = "NoMatch" -> "next"
            [] E.fast /\ line.fast[idx] = "Matched" -> "parent"
            [] OTHER -> "contain")
  /\ NoScan

ContainByte ==
  /\ at = "contain"
  /\ E.containByte # NoByte
  /\ Remember({E.containByte})
  /\ GoTo(IF Has(E.containByte) THEN "req" ELSE "next")

ContainRare ==
  /\ at = "contain"
  /\ E.containByte = NoByte /\ E.contain # NoNeedle /\ E.rare # NoByte
  /\ Remember({E.rare})
  /\ GoTo(IF Has(E.rare) THEN "needle" ELSE "next")

ContainNone ==
  /\ at = "contain"
  /\ E.containByte = NoByte /\ (E.contain = NoNeedle \/ E.rare = NoByte)
  /\ GoTo(IF E.contain = NoNeedle THEN "req" ELSE "needle")
  /\ NoScan

Needle ==
  /\ at = "needle"
  /\ GoTo(IF E.contain \in line.needles THEN "req" ELSE "next")
  /\ NoScan

Required ==
  /\ at = "req"
  /\ IF E.req = NoByte
       THEN NoScan /\ GoTo("regex")
       ELSE Remember({E.req}) /\ GoTo(IF Has(E.req) THEN "regex" ELSE "next")

Regex ==
  /\ at = "regex"
  /\ GoTo(IF idx \in line.matches THEN "parent" ELSE "next")
  /\ NoScan

\* Mutant: the probe for "traceparent:" is forgotten.
TraceparentEqualsOnly ==
  /\ at = "parent"
  /\ at' = "done"
  /\ IF line.long THEN Remember({"="}) ELSE NoScan
  /\ answer' = Found(idx, line.long /\ Has("=") /\ line.parent)
  /\ UNCHANGED <<line, idx>>

\* The traceparent is looked for whatever the table said.
Traceparent ==
  /\ at = "parent"
  /\ at' = "done"
  /\ IF line.long THEN Remember(IF Has("=") THEN {"="} ELSE {"=", ":"}) ELSE NoScan
  /\ answer' = Found(idx, line.long /\ (Has("=") \/ Has(":")) /\ line.parent)
  /\ UNCHANGED <<line, idx>>

Next ==
  \/ LogfmtGate \/ NextEntry \/ HandMatcher
  \/ ContainByte \/ ContainRare \/ ContainNone \/ Needle \/ Required \/ Regex
  \/ Traceparent

Spec == Init /\ [][Next]_vars /\ WF_vars(Next)

-----------------------------------------------------------------------------
(* Properties *)

\* The types of the state.
TypeOK ==
  /\ line \in Line /\ Sound(line)
  /\ memo \in [checked : SUBSET Bytes, present : SUBSET Bytes]
  /\ at \in {"logfmt", "next", "fast", "contain", "needle", "req", "regex", "parent", "done"}
  /\ idx \in 0..Len(Table)
  /\ answer \in [known : BOOLEAN, entry : 0..Len(Table), parent : BOOLEAN]
  /\ scans \in [Bytes -> Nat]

\* Memoizing a predicate of the line cannot change any decision: what the memo
\* says of a byte is what the line says, across the logfmt scan, every entry
\* and the traceparent probe.
MemoIsTruthful == memo.present = memo.checked \cap line.bytes

\* "each distinct byte is now scanned at most once per line"
ScansOnce == \A b \in Bytes : scans[b] <= 1

\* Every entry passed over so far does not match, although its regular
\* expression was mostly never run: the invariant of the dispatch loop.
NothingSkippedMatches ==
  CASE at \in {"logfmt", "next"} -> \A i \in line.matches : i > idx
    [] at \in {"fast", "contain", "needle", "req", "regex"} ->
         \A i \in line.matches : i >= idx
    [] OTHER -> IF idx = 0 THEN line.matches = {}
                ELSE idx \in line.matches /\ \A i \in line.matches : i >= idx

\* What the table promises.
FirstMatch(l) == Found(IF l.matches = {} THEN 0 ELSE Min(l.matches), l.parent)

InOrder == INSTANCE OneShot WITH
             F <- FirstMatch, NoAnswer <- NoAnswer,
             input <- line, answer <- answer

\* The gated dispatch implements "the first matching entry of the table, and
\* the traceparent": no gate, bucket, memo hit or hand matcher changes it.
ImplementsTableOrder == InOrder!Spec
=============================================================================
