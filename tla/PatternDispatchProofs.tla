----------------------- MODULE PatternDispatchProofs -----------------------
(***************************************************************************)
(* The gated dispatch is the plain table search: proofs, for every table,  *)
(* every set of bytes and needles, and every line.                         *)
(***************************************************************************)
EXTENDS PatternDispatch, WellFoundedInduction, TLAPS

\* A non-empty set of indices has a least member, and Min is that member.
LEMMA MinIsLeast ==
  ASSUME NEW S \in SUBSET Nat, S # {}
  PROVE  /\ Min(S) \in S
         /\ \A y \in S : Min(S) <= y
<1> DEFINE R == OpToRel(<, Nat)
<1>1. IsWellFoundedOn(R, Nat)
  BY NatLessThanWellFounded
<1>2. \E x \in S : \A y \in S : ~ (<<y, x>> \in R)
  <2> HIDE DEF R
  <2> QED BY <1>1, WFMin
<1>3. \A x, y \in Nat : x < y => <<x, y>> \in R
  BY Zenon DEF R, OpToRel
<1>4. \E x \in S : \A y \in S : x <= y
  <2> HIDE DEF R
  <2>1. PICK x \in S : \A y \in S : ~ (<<y, x>> \in R)
    BY <1>2
  <2>2. ASSUME NEW y \in S PROVE x <= y
    <3>1. x \in Nat /\ y \in Nat
      OBVIOUS
    <3>2. ~ (y < x)
      BY <2>1, <1>3, <3>1
    <3>3. QED
      BY <3>1, <3>2
  <2>3. QED
    BY <2>2
<1>5. QED
  BY <1>4 DEF Min

\* Whatever is a least member of a set of indices is its Min.
LEMMA LeastIsMin ==
  ASSUME NEW S \in SUBSET Nat, NEW x \in S, \A y \in S : x <= y
  PROVE  Min(S) = x
<1>1. Min(S) \in S /\ Min(S) <= x
  BY MinIsLeast
<1>2. x <= Min(S)
  BY <1>1
<1>3. x \in Nat /\ Min(S) \in Nat
  BY <1>1
<1>4. QED
  BY <1>1, <1>2, <1>3

-----------------------------------------------------------------------------
(* The invariant *)

\* Where an entry is being tried.
Trying == {"fast", "contain", "needle", "req", "regex"}

\* While an entry is tried there is one, and "needle" has a needle.
EntryAtHand ==
  /\ at \in Trying => idx \in Indices
  /\ at = "needle" => Table[idx].contain # NoNeedle

\* A byte the memo does not know has never been looked for.
Counted ==
  \A b \in Bytes : scans[b] <= 1 /\ (b \notin memo.checked => scans[b] = 0)

\* The answer appears with the last step, and is the table's.
Answered == answer = IF at = "done" THEN FirstMatch(line) ELSE NoAnswer

IInv ==
  /\ TypeOK
  /\ MemoIsTruthful
  /\ Counted
  /\ NothingSkippedMatches
  /\ EntryAtHand
  /\ Answered

-----------------------------------------------------------------------------
(* The memo *)

\* Asking the memo is asking the line.
LEMMA HasIsRight ==
  ASSUME TypeOK, MemoIsTruthful, NEW b \in Bytes
  PROVE  Has(b) <=> b \in line.bytes
BY DEF MemoIsTruthful, Has

\* What a set of probes leaves behind is again typed, truthful and counted.
LEMMA RememberKeeps ==
  ASSUME TypeOK, MemoIsTruthful, Counted, NEW bs \in SUBSET Bytes,
         Remember(bs), line' = line
  PROVE  /\ memo' \in [checked : SUBSET Bytes, present : SUBSET Bytes]
         /\ scans' \in [Bytes -> Nat]
         /\ MemoIsTruthful'
         /\ Counted'
<1> USE DEF TypeOK
<1>1. line.bytes \subseteq Bytes
  BY DEF Line
<1>2. /\ memo' = [checked |-> CheckedOf(bs), present |-> FoundOf(bs)]
      /\ scans' = [b \in Bytes |-> IF b \in bs \ memo.checked THEN scans[b] + 1 ELSE scans[b]]
  BY DEF Remember
<1>3. memo'.checked = memo.checked \cup bs
  BY <1>2 DEF CheckedOf
<1>4. memo'.present = memo.present \cup ((bs \ memo.checked) \cap line.bytes)
  BY <1>2 DEF FoundOf
<1>5. memo' \in [checked : SUBSET Bytes, present : SUBSET Bytes]
  BY <1>1, <1>2 DEF CheckedOf, FoundOf
<1>6. scans' \in [Bytes -> Nat]
  BY <1>2
<1>7. MemoIsTruthful'
  BY <1>3, <1>4 DEF MemoIsTruthful
<1>8. Counted'
  BY <1>2, <1>3 DEF Counted
<1>9. QED
  BY <1>5, <1>6, <1>7, <1>8

\* A step that looks for no byte.
LEMMA NoScanKeeps ==
  ASSUME TypeOK, MemoIsTruthful, Counted, NoScan, line' = line
  PROVE  /\ memo' \in [checked : SUBSET Bytes, present : SUBSET Bytes]
         /\ scans' \in [Bytes -> Nat]
         /\ MemoIsTruthful'
         /\ Counted'
BY DEF TypeOK, MemoIsTruthful, Counted, NoScan

-----------------------------------------------------------------------------
(* The table *)

\* The gates of an entry are of their types.
LEMMA EntryTyped ==
  ASSUME NEW i \in Indices
  PROVE  /\ Table[i].containByte \in Bytes \cup {NoByte}
         /\ Table[i].rare \in Bytes \cup {NoByte}
         /\ Table[i].req \in Bytes \cup {NoByte}
         /\ Table[i].contain \in Needles \cup {NoNeedle}
         /\ i \in 1..Len(Table)
BY TableAssumption DEF Indices, Entry

\* An entry that matches passes every one of its gates.
LEMMA MatchPasses ==
  ASSUME TypeOK, NEW i \in line.matches
  PROVE  /\ i \in Indices
         /\ line.first # NoByte
         /\ i \in Bucket(line.first)
         /\ Passes(Table[i], line)
         /\ Table[i].containByte # NoByte => Table[i].containByte \in line.bytes
         /\ Table[i].contain # NoNeedle => Table[i].contain \in line.needles
         /\ Table[i].req # NoByte => Table[i].req \in line.bytes
         /\ Table[i].rare # NoByte => Table[i].rare \in line.bytes
         /\ line.fast[i] # "NoMatch"
<1>1. i \in Indices /\ i \in 1..Len(Table)
  BY DEF TypeOK, Line, Indices
<1>2. /\ line.first # NoByte
      /\ i \in Bucket(line.first)
      /\ Passes(Table[i], line)
      /\ Table[i].containByte \in line.bytes \cup {NoByte}
      /\ Table[i].contain \in line.needles \cup {NoNeedle}
      /\ Table[i].req \in line.bytes \cup {NoByte}
  BY <1>1 DEF TypeOK, Sound
<1>3. line.fast[i] # "NoMatch"
  BY <1>1 DEF TypeOK, Sound
<1>4. Table[i].rare # NoByte => Table[i].rare \in line.bytes
  <2>1. SUFFICES ASSUME Table[i].rare # NoByte
                 PROVE  Table[i].rare \in line.bytes
    OBVIOUS
  <2>2. Table[i].contain # NoNeedle /\ Table[i].rare \in BytesOf[Table[i].contain]
    BY <1>1, <2>1, TableAssumption
  <2>3. BytesOf[Table[i].contain] \subseteq line.bytes
    BY <1>2, <2>2 DEF TypeOK, Sound
  <2>4. QED
    BY <2>2, <2>3
<1>5. QED
  BY <1>1, <1>2, <1>3, <1>4

-----------------------------------------------------------------------------
(* The three ways an entry's test ends *)

Onward == line' = line /\ idx' = idx /\ answer' = answer

Dispatching == NothingSkippedMatches /\ EntryAtHand /\ Answered

\* The entry is rejected: it does not match, and the search goes on behind it.
LEMMA Rejected ==
  ASSUME IInv, Onward, at \in Trying, at' = "next", idx \notin line.matches
  PROVE  Dispatching'
<1>1. \A i \in line.matches : i > idx
  <2>1. \A i \in line.matches : i >= idx /\ i \in Nat
    BY DEF IInv, NothingSkippedMatches, Trying, TypeOK, Line, Indices
  <2>2. idx \in Nat
    BY TableAssumption DEF IInv, TypeOK
  <2>3. QED
    BY <2>1, <2>2
<1>2. NothingSkippedMatches'
  BY <1>1 DEF NothingSkippedMatches, Onward
<1>3. EntryAtHand' /\ Answered'
  BY DEF IInv, EntryAtHand, Answered, Onward, Trying
<1>4. QED
  BY <1>2, <1>3 DEF Dispatching

\* The entry survives a gate and is put to the next one.
LEMMA Survived ==
  ASSUME IInv, Onward, at \in Trying, at' \in Trying,
         at' = "needle" => Table[idx].contain # NoNeedle
  PROVE  Dispatching'
<1>1. NothingSkippedMatches'
  BY DEF IInv, NothingSkippedMatches, Onward, Trying
<1>2. EntryAtHand' /\ Answered'
  BY DEF IInv, EntryAtHand, Answered, Onward, Trying
<1>3. QED
  BY <1>1, <1>2 DEF Dispatching

\* The entry matches: it is the first one that does.
LEMMA Won ==
  ASSUME IInv, Onward, at \in Trying, at' = "parent", idx \in line.matches
  PROVE  Dispatching'
<1>1. idx # 0
  BY DEF IInv, EntryAtHand, Indices
<1>2. NothingSkippedMatches'
  BY <1>1 DEF IInv, NothingSkippedMatches, Onward, Trying
<1>3. EntryAtHand' /\ Answered'
  BY DEF IInv, EntryAtHand, Answered, Onward, Trying
<1>4. QED
  BY <1>2, <1>3 DEF Dispatching

-----------------------------------------------------------------------------
(* The actions.  Each lemma names the effect of an action on the search;   *)
(* what it does to the memo is RememberKeeps or NoScanKeeps.               *)

\* The logfmt gate hands the dispatch loop every entry.
LEMMA LogfmtGateDispatches == IInv /\ LogfmtGate => Dispatching'
BY DEF IInv, LogfmtGate, GoTo, Dispatching, NothingSkippedMatches, EntryAtHand, Answered,
       Trying

\* An entry outside the first byte's bucket, or rejected by its positional gate,
\* does not match.
LEMMA NextEntryDispatches ==
  ASSUME IInv, NextEntry
  PROVE  Dispatching' /\ idx' \in 0..Len(Table) /\ at' \in {"parent", "fast", "next"}
<1> DEFINE rest == {i \in Bucket(line.first) : i > idx}
<1>1. /\ at = "next" /\ line' = line /\ answer' = answer /\ answer = NoAnswer
      /\ \A i \in line.matches : i > idx
      /\ \A i \in line.matches : i \in Indices /\ line.first # NoByte
           /\ i \in Bucket(line.first) /\ Passes(Table[i], line)
  BY MatchPasses DEF IInv, NextEntry, NothingSkippedMatches, Answered
<1>2. rest \in SUBSET Nat /\ rest \subseteq Indices /\ line.matches \subseteq rest
  BY <1>1 DEF Bucket, Indices
<1>3. CASE line.first = NoByte \/ rest = {}
  <2>1. at' = "parent" /\ idx' = 0
    BY <1>3 DEF NextEntry
  <2>2. line.matches = {}
    BY <1>1, <1>2, <1>3
  <2>3. QED
    BY <1>1, <2>1, <2>2, TableAssumption
       DEF Dispatching, NothingSkippedMatches, EntryAtHand, Answered, Trying
<1>4. CASE line.first # NoByte /\ rest # {}
  <2> DEFINE m == Min(rest)
  <2>1. idx' = m /\ at' = IF Passes(Table[m], line) THEN "fast" ELSE "next"
    BY <1>4 DEF NextEntry
  <2>2. m \in rest /\ m \in Indices /\ m # 0 /\ \A i \in rest : m <= i
    BY <1>2, <1>4, MinIsLeast DEF Indices
  <2>3. m \in 0..Len(Table)
    BY <2>2, TableAssumption DEF Indices
  <2> HIDE DEF m, rest
  <2>4. CASE Passes(Table[m], line)
    <3>1. NothingSkippedMatches'
      BY <1>1, <1>2, <2>1, <2>2, <2>4 DEF NothingSkippedMatches, Indices
    <3>2. QED
      BY <1>1, <2>1, <2>2, <2>3, <2>4, <3>1
         DEF Dispatching, EntryAtHand, Answered, Trying
  <2>5. CASE ~ Passes(Table[m], line)
    <3>1. m \notin line.matches
      BY <1>1, <2>5
    <3>2. \A i \in line.matches : i > m
      <4>1. \A i \in line.matches : m <= i /\ i # m /\ i \in Nat /\ m \in Nat
        BY <1>2, <2>2, <3>1 DEF Indices
      <4>2. QED
        BY <4>1
    <3>3. QED
      BY <1>1, <2>1, <2>3, <2>5, <3>2
         DEF Dispatching, NothingSkippedMatches, EntryAtHand, Answered, Trying
  <2>6. QED
    BY <2>4, <2>5
<1>5. QED
  BY <1>3, <1>4

\* A hand matcher that decides, decides as the regular expression does; one that
\* declines changes nothing.
LEMMA HandMatcherDispatches ==
  ASSUME IInv, HandMatcher
  PROVE  Dispatching' /\ at' \in {"next", "parent", "contain"}
<1>1. at = "fast" /\ at \in Trying /\ Onward /\ idx \in Indices
  BY DEF IInv, HandMatcher, GoTo, Onward, Trying, EntryAtHand
<1>2. /\ line.fast[idx] = "Matched" => idx \in line.matches
      /\ line.fast[idx] = "NoMatch" => idx \notin line.matches
  BY <1>1 DEF IInv, TypeOK, Sound
<1>3. CASE E.fast /\ line.fast[idx] = "NoMatch"
  BY <1>1, <1>2, <1>3, Rejected DEF HandMatcher, GoTo
<1>4. CASE E.fast /\ line.fast[idx] = "Matched"
  BY <1>1, <1>2, <1>4, Won DEF HandMatcher, GoTo
<1>5. CASE ~ E.fast \/ line.fast[idx] \notin {"NoMatch", "Matched"}
  <2>1. at' = "contain"
    BY <1>5 DEF HandMatcher, GoTo
  <2>2. QED
    BY <1>1, <2>1, Survived DEF Trying
<1>6. QED
  BY <1>3, <1>4, <1>5

\* The four gates that look for a byte or a needle reject only what cannot match.
LEMMA ContainByteDispatches ==
  ASSUME IInv, ContainByte
  PROVE  Dispatching' /\ at' \in {"next", "req"} /\ E.containByte \in Bytes
<1>1. at = "contain" /\ at \in Trying /\ Onward /\ idx \in Indices
  BY DEF IInv, ContainByte, GoTo, Onward, Trying, EntryAtHand
<1>2. E.containByte \in Bytes
  BY <1>1, EntryTyped DEF ContainByte, E
<1>3. Has(E.containByte) <=> E.containByte \in line.bytes
  BY <1>2, HasIsRight DEF IInv
<1>4. CASE Has(E.containByte)
  <2>1. at' = "req"
    BY <1>4 DEF ContainByte, GoTo
  <2>2. QED
    BY <1>1, <1>2, <2>1, Survived DEF Trying
<1>5. CASE ~ Has(E.containByte)
  <2>1. at' = "next" /\ idx \notin line.matches
    BY <1>3, <1>5, MatchPasses DEF ContainByte, GoTo, E, IInv
  <2>2. QED
    BY <1>1, <1>2, <2>1, Rejected
<1>6. QED
  BY <1>4, <1>5

\* An entry whose needle's rare byte is absent does not match.
LEMMA ContainRareDispatches ==
  ASSUME IInv, ContainRare
  PROVE  Dispatching' /\ at' \in {"next", "needle"} /\ E.rare \in Bytes
<1>1. at = "contain" /\ at \in Trying /\ Onward /\ idx \in Indices
  BY DEF IInv, ContainRare, GoTo, Onward, Trying, EntryAtHand
<1>2. E.rare \in Bytes
  BY <1>1, EntryTyped DEF ContainRare, E
<1>3. Has(E.rare) <=> E.rare \in line.bytes
  BY <1>2, HasIsRight DEF IInv
<1>4. CASE Has(E.rare)
  <2>1. at' = "needle" /\ Table[idx].contain # NoNeedle
    BY <1>4 DEF ContainRare, GoTo, E
  <2>2. QED
    BY <1>1, <1>2, <2>1, Survived DEF Trying
<1>5. CASE ~ Has(E.rare)
  <2>1. at' = "next" /\ idx \notin line.matches
    BY <1>3, <1>5, MatchPasses DEF ContainRare, GoTo, E, IInv
  <2>2. QED
    BY <1>1, <1>2, <2>1, Rejected
<1>6. QED
  BY <1>4, <1>5

\* An entry without a byte to ask for goes on to the next test.
LEMMA ContainNoneDispatches ==
  ASSUME IInv, ContainNone
  PROVE  Dispatching' /\ at' \in {"req", "needle"}
<1>1. at = "contain" /\ at \in Trying /\ Onward
  BY DEF ContainNone, GoTo, Onward, Trying
<1>2. at' = IF Table[idx].contain = NoNeedle THEN "req" ELSE "needle"
  BY DEF ContainNone, GoTo, E
<1>3. QED
  BY <1>1, <1>2, Survived DEF Trying

\* An entry whose needle is absent does not match.
LEMMA NeedleDispatches ==
  ASSUME IInv, Needle
  PROVE  Dispatching' /\ at' \in {"req", "next"}
<1>1. at = "needle" /\ at \in Trying /\ Onward /\ Table[idx].contain # NoNeedle
  BY DEF IInv, Needle, GoTo, Onward, Trying, EntryAtHand
<1>2. CASE E.contain \in line.needles
  <2>1. at' = "req"
    BY <1>2 DEF Needle, GoTo
  <2>2. QED
    BY <1>1, <2>1, Survived DEF Trying
<1>3. CASE E.contain \notin line.needles
  <2>1. at' = "next" /\ idx \notin line.matches
    BY <1>1, <1>3, MatchPasses DEF Needle, GoTo, E, IInv
  <2>2. QED
    BY <1>1, <2>1, Rejected
<1>4. QED
  BY <1>2, <1>3

\* An entry whose required byte is absent does not match.
LEMMA RequiredDispatches ==
  ASSUME IInv, Required
  PROVE  Dispatching' /\ at' \in {"regex", "next"} /\ E.req \in Bytes \cup {NoByte}
<1>1. at = "req" /\ at \in Trying /\ Onward /\ idx \in Indices
  BY DEF IInv, Required, GoTo, Onward, Trying, EntryAtHand
<1>2. E.req \in Bytes \cup {NoByte}
  BY <1>1, EntryTyped DEF E
<1>3. CASE E.req = NoByte \/ Has(E.req)
  <2>1. at' = "regex"
    BY <1>3 DEF Required, GoTo
  <2>2. QED
    BY <1>1, <1>2, <2>1, Survived DEF Trying
<1>4. CASE E.req # NoByte /\ ~ Has(E.req)
  <2>1. at' = "next" /\ E.req \notin line.bytes
    BY <1>2, <1>4, HasIsRight DEF Required, GoTo, IInv
  <2>2. idx \notin line.matches
    BY <1>4, <2>1, MatchPasses DEF E, IInv
  <2>3. QED
    BY <1>1, <1>2, <2>1, <2>2, Rejected
<1>5. QED
  BY <1>3, <1>4

\* The regular expression, when it is run, is what "matches" means.
LEMMA RegexDispatches ==
  ASSUME IInv, Regex
  PROVE  Dispatching' /\ at' \in {"parent", "next"}
<1>1. at = "regex" /\ at \in Trying /\ Onward
  BY DEF Regex, GoTo, Onward, Trying
<1>2. at' = IF idx \in line.matches THEN "parent" ELSE "next"
  BY DEF Regex, GoTo
<1>3. QED
  BY <1>1, <1>2, Rejected, Won

-----------------------------------------------------------------------------
(* The last step: the traceparent, and the answer                          *)

\* The last step answers with the first match and with the line's traceparent.
LEMMA TraceparentAnswers ==
  ASSUME IInv, Traceparent
  PROVE  /\ answer = NoAnswer /\ answer' = FirstMatch(line)
         /\ Dispatching' /\ at' = "done" /\ idx' = idx
<1>1. /\ at = "parent" /\ at' = "done" /\ idx' = idx /\ line' = line
      /\ answer' = Found(idx, line.long /\ (Has("=") \/ Has(":")) /\ line.parent)
  BY DEF Traceparent
<1>2. answer = NoAnswer
  BY <1>1 DEF IInv, Answered
<1>3. line.parent => line.long /\ (Has("=") \/ Has(":"))
  <2>1. {"=", ":"} \subseteq Bytes
    BY TableAssumption
  <2>2. (Has("=") <=> "=" \in line.bytes) /\ (Has(":") <=> ":" \in line.bytes)
    BY <2>1, HasIsRight DEF IInv
  <2>3. QED
    BY <2>2 DEF IInv, TypeOK, Sound
<1>4. (line.long /\ (Has("=") \/ Has(":")) /\ line.parent) = line.parent
  <2>1. line.parent \in BOOLEAN
    BY DEF IInv, TypeOK, Line
  <2>2. QED
    BY <1>3, <2>1
<1>5. idx = IF line.matches = {} THEN 0 ELSE Min(line.matches)
  <2>1. CASE idx = 0
    <3>1. line.matches = {}
      BY <1>1, <2>1 DEF IInv, NothingSkippedMatches
    <3>2. QED
      BY <2>1, <3>1
  <2>2. CASE idx # 0
    <3>1. idx \in line.matches /\ \A i \in line.matches : i >= idx
      BY <1>1, <2>2 DEF IInv, NothingSkippedMatches
    <3>2. line.matches \in SUBSET Nat
      BY DEF IInv, TypeOK, Line, Indices
    <3>3. \A i \in line.matches : idx <= i
      BY <3>1
    <3>4. Min(line.matches) = idx
      BY <3>1, <3>2, <3>3, LeastIsMin
    <3>5. QED
      BY <3>1, <3>4
  <2>3. QED
    BY <2>1, <2>2
<1>6. answer' = FirstMatch(line)
  BY <1>1, <1>4, <1>5 DEF FirstMatch
<1>7. NothingSkippedMatches'
  BY <1>1 DEF IInv, NothingSkippedMatches
<1>8. EntryAtHand' /\ Answered'
  BY <1>1, <1>6 DEF EntryAtHand, Answered, Trying
<1>9. QED
  BY <1>1, <1>2, <1>6, <1>7, <1>8 DEF Dispatching

\* An answer, once it is FirstMatch of the line, is of its type.
LEMMA AnswerTyped ==
  ASSUME TypeOK
  PROVE  FirstMatch(line) \in [known : BOOLEAN, entry : 0..Len(Table), parent : BOOLEAN]
<1>1. line.parent \in BOOLEAN /\ line.matches \in SUBSET Nat /\ line.matches \subseteq 1..Len(Table)
  BY DEF TypeOK, Line, Indices
<1>2. line.matches # {} => Min(line.matches) \in 1..Len(Table)
  BY <1>1, MinIsLeast
<1>3. QED
  BY <1>1, <1>2, TableAssumption DEF FirstMatch, Found

-----------------------------------------------------------------------------
(* The inductive invariant *)

\* The dispatch starts in the invariant.
LEMMA Starts == Init => IInv
<1> SUFFICES ASSUME Init PROVE IInv
  OBVIOUS
<1>1. line \in Line /\ Sound(line)
  BY LinesAssumption DEF Init
<1>2. TypeOK
  BY <1>1, TableAssumption DEF Init, TypeOK, NoAnswer
<1>3. MemoIsTruthful /\ Counted
  BY DEF Init, MemoIsTruthful, Counted
<1>4. NothingSkippedMatches
  BY <1>1 DEF Init, NothingSkippedMatches, Line, Indices
<1>5. EntryAtHand /\ Answered
  BY DEF Init, EntryAtHand, Answered, Trying
<1>6. QED
  BY <1>2, <1>3, <1>4, <1>5 DEF IInv

\* What every step does: the search part, the memo part, and the places.
LEMMA StepKeeps ==
  ASSUME IInv, Next
  PROVE  /\ Dispatching'
         /\ line' = line
         /\ idx' \in 0..Len(Table)
         /\ at' \in {"next", "fast", "contain", "needle", "req", "regex", "parent", "done"}
         /\ answer' = answer \/ (answer = NoAnswer /\ answer' = FirstMatch(line))
         /\ NoScan \/ \E bs \in SUBSET Bytes : Remember(bs)
<1>0. {"=", ":"} \subseteq Bytes /\ idx \in 0..Len(Table)
  BY TableAssumption DEF IInv, TypeOK
<1>1. CASE LogfmtGate
  BY <1>0, <1>1, LogfmtGateDispatches DEF LogfmtGate, GoTo
<1>2. CASE NextEntry
  BY <1>2, NextEntryDispatches DEF NextEntry
<1>3. CASE HandMatcher
  BY <1>0, <1>3, HandMatcherDispatches DEF HandMatcher, GoTo
<1>4. CASE ContainByte
  <2>1. Remember({E.containByte}) /\ {E.containByte} \in SUBSET Bytes
    BY <1>4, ContainByteDispatches DEF ContainByte
  <2>2. QED
    BY <1>0, <1>4, <2>1, ContainByteDispatches DEF ContainByte, GoTo
<1>5. CASE ContainRare
  <2>1. Remember({E.rare}) /\ {E.rare} \in SUBSET Bytes
    BY <1>5, ContainRareDispatches DEF ContainRare
  <2>2. QED
    BY <1>0, <1>5, <2>1, ContainRareDispatches DEF ContainRare, GoTo
<1>6. CASE ContainNone
  BY <1>0, <1>6, ContainNoneDispatches DEF ContainNone, GoTo
<1>7. CASE Needle
  BY <1>0, <1>7, NeedleDispatches DEF Needle, GoTo
<1>8. CASE Required
  <2>1. NoScan \/ (Remember({E.req}) /\ {E.req} \in SUBSET Bytes)
    BY <1>8, RequiredDispatches DEF Required
  <2>2. Onward
    BY <1>8 DEF Required, GoTo, Onward
  <2>3. QED
    BY <1>0, <1>8, <2>1, <2>2, RequiredDispatches DEF Onward
<1>9. CASE Regex
  BY <1>0, <1>9, RegexDispatches DEF Regex, GoTo
<1>10. CASE Traceparent
  <2>1. NoScan \/ \E bs \in SUBSET Bytes : Remember(bs)
    BY <1>0, <1>10 DEF Traceparent
  <2>2. QED
    BY <1>0, <1>10, <2>1, TraceparentAnswers DEF Traceparent
<1>11. QED
  BY <1>1, <1>2, <1>3, <1>4, <1>5, <1>6, <1>7, <1>8, <1>9, <1>10 DEF Next

\* Every step of the dispatch preserves the invariant.
LEMMA Inductive == IInv /\ [Next]_vars => IInv'
<1>1. ASSUME IInv, Next PROVE IInv'
  <2>1. /\ memo' \in [checked : SUBSET Bytes, present : SUBSET Bytes]
        /\ scans' \in [Bytes -> Nat]
        /\ MemoIsTruthful' /\ Counted'
    <3>1. line' = line /\ (NoScan \/ \E bs \in SUBSET Bytes : Remember(bs))
      BY <1>1, StepKeeps
    <3>2. TypeOK /\ MemoIsTruthful /\ Counted
      BY <1>1 DEF IInv
    <3>3. QED
      BY <3>1, <3>2, NoScanKeeps, RememberKeeps
  <2>2. answer' \in [known : BOOLEAN, entry : 0..Len(Table), parent : BOOLEAN]
    BY <1>1, StepKeeps, AnswerTyped DEF IInv, TypeOK
  <2>3. TypeOK'
    BY <1>1, <2>1, <2>2, StepKeeps DEF IInv, TypeOK
  <2>4. QED
    BY <1>1, <2>1, <2>3, StepKeeps DEF IInv, Dispatching
<1>2. ASSUME IInv, UNCHANGED vars PROVE IInv'
  BY <1>2 DEF IInv, vars, TypeOK, MemoIsTruthful, Counted, NothingSkippedMatches,
              EntryAtHand, Answered
<1>3. QED
  BY <1>1, <1>2

\* The invariant holds throughout the dispatch of every line.
THEOREM AlwaysIInv == Spec => []IInv
BY Starts, Inductive, PTL DEF Spec

-----------------------------------------------------------------------------
(* The results *)

\* The state is typed at every step, whatever the table: what the entries
\* remember of a line never leaves the bytes they may ask for.
THEOREM DispatchTyped == Spec => []TypeOK
<1>1. IInv => TypeOK
  BY DEF IInv
<1>2. QED
  BY <1>1, AlwaysIInv, PTL

\* The memo is truthful for every table and every line: sharing it between the
\* logfmt scan, the entries and the traceparent probe decides nothing.
THEOREM MemoTruth == Spec => []MemoIsTruthful
<1>1. IInv => MemoIsTruthful
  BY DEF IInv
<1>2. QED
  BY <1>1, AlwaysIInv, PTL

\* No byte is looked for twice in one line, however many entries ask for it.
THEOREM OneScanPerByte == Spec => []ScansOnce
<1>1. IInv => ScansOnce
  BY DEF IInv, Counted, ScansOnce
<1>2. QED
  BY <1>1, AlwaysIInv, PTL

\* Buckets, gates and hand matchers never pass over an entry that matches.
THEOREM NoMatchSkipped == Spec => []NothingSkippedMatches
<1>1. IInv => NothingSkippedMatches
  BY DEF IInv
<1>2. QED
  BY <1>1, AlwaysIInv, PTL

\* The gated dispatch implements the plain table search (the safety half of
\* ImplementsTableOrder): the only answer it ever gives is the first matching
\* entry of the table, with the line's traceparent.
THEOREM TableOrder == Spec => InOrder!Safe
<1>1. Init => InOrder!Init
  BY DEF Init, InOrder!Init
<1>2. IInv /\ [Next]_vars => [InOrder!Return]_(InOrder!vars)
  <2>1. ASSUME IInv, Next PROVE [InOrder!Return]_(InOrder!vars)
    BY <2>1, StepKeeps DEF InOrder!Return, InOrder!vars
  <2>2. ASSUME UNCHANGED vars PROVE [InOrder!Return]_(InOrder!vars)
    BY <2>2 DEF vars, InOrder!vars
  <2>3. QED
    BY <2>1, <2>2
<1>3. QED
  BY <1>1, <1>2, AlwaysIInv, PTL DEF Spec, InOrder!Safe
=============================================================================
