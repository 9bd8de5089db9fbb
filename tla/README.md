# A TLA+ model of enrich

`enrich` is a Go library that turns one log line into a `Result`: a timestamp,
a severity, identifiers, a message and some context. It keeps no state between
calls and starts no goroutine. What is hard about it is order. A line is
looked at by several strategies one after the other, each of which may leave
something for the next; a JSON record can embed another line, whose result is
lifted into its own and then overwritten; a dozen places write the level, and
the severity number beside it; scans stop early, patterns are skipped by gates
and a shared memo, and every such shortcut is meant to change only the speed.
This directory models those parts, checks them with TLC on small instances and
proves the most important results with TLAPS for every value of the constants.

Line numbers refer to the sources of the repository this directory belongs to.

## Inventory

| Component | Code | State it keeps | Operations | What makes it correct |
|---|---|---|---|---|
| Parse pipeline | `enrich.go` 543-1041 | the `Result` under construction; one call per embedded line | `Parse`, `ParseBytes`, `ParseInto`, `fillResult`, `applyJSON` and the steps it calls, `mergeNested` | level and number agree; settled levels are kept; failed codes stay visible; what is lifted is neither lost nor invented; every call returns |
| Severity mapping | `severity.go` | none (tables built in `init`) | text, number, HTTP, syslog, Pino and Redis mappings, `setHTTPResponseCode`, `benignError` | the mappings agree with each other; no code clears a level |
| Identifiers | `enrich.go` 15-110, 343-415 | none | `validTraceID`, `validSpanID`, `scanTraceparent`, `parseTraceparent` | trace and span of one traceparent stay together |
| Logfmt scan | `enrich.go` 364-541 | nine captured variables of a callback | one case per key; stop when nothing is missing | an early stop loses nothing |
| Pattern table | `lineparser.go`, `fastmatch.go`, `enrich.go` 1008-1041 | compiled entries, buckets, one `byteMemo` per line | positional gates, hand matchers, byte and substring gates, regular expression, traceparent scan | the first matching entry of the table wins, as if every expression were run |
| Yearless timestamps, calendar | `timeparse.go` 35-42, 135-175, 345-472; `lineparser.go` 572-601, 654-680 | none, but the host's clock is read, up to twice | `parseKlogTime`, `parseStampTime` and the older `expandKlogTime`, `expandStampTime`; `daysFromCivil` | a recent stamp is given the year it was written in; both paths agree |
| Timestamp layouts | `timeparse.go` 43-343, 474-572 | none | seven direct parsers, `parseGoStringTime`, `layoutHasZone`, `parseLayoutTime` | same instant and zone answer as the layouts they stand in front of |
| Hand matchers | `fastmatch.go` | none | eleven matchers, `indexAnchored` | each decides only what its expression would, with its captures |
| Gate derivation | `lineparser.go` 254-496 | tables built in `init` | `firstBytes`, `posGates`, `rareByte`, `requiredByte` | each gate is implied by its expression |
| Word arithmetic | `hex.go`, `lineparser.go` 54-125, `validGUID`, `lower`, `jsonInt` | none | `laneRange`, `hexRun`, `lineGates`, ... | no carry between lanes, no overflow |
| JSON decoder | `fields.go`, `fields_unmarshal.go` (generated) | the struct being filled | `UnmarshalJSON` | the last readable value of a field stays; a failed decode is not used |
| ANSI stripping, resource identifiers, numeric level | `enrich.go` 112-175, 275-341; `severity.go` 364-404 | none | `removeANSICodes`, `resourceGroupID`, `pinoSeverity` | each scan finds what its pattern, or the decoder, would |
| Buffer ownership | `doc.go`, `enrich.go` 543-597 | the caller's buffer and `Result` | `Parse`, `ParseBytes`, `ParseInto` | a reused `Result` remembers nothing; a kept string holds as documented |

The calls between them: `fillResult` asks `enrichFromJSON`, then
`enrichFromLogFmt`, then `enrichFromPatterns`, and normalizes what they left.
`applyJSON` calls `fillResult` again for `properties.log` and for Docker's
`log`. The logfmt scan and the pattern table share one `byteMemo`. The winning
pattern's groups go through `applySubmatch`, which calls the severity mappings,
the timestamp parsers and `parseException`.

There is no concurrency inside a call; nothing is persisted, sent or retried.
The hazards in `PROJECT.json` are therefore about order, stale values, partial
failure, boundaries of numbers, shortcuts that must not change an answer, and
two meetings with the outside: the host's clock, which moves between its two
reads, and the caller, who may overwrite a buffer a `Result` points into.

## Modules

| Module | Models | Correspondence |
|---|---|---|
| `Severity` | `severity.go` | one operator per function. A level text is one of the table's spellings or a cased or suffixed variant listed in `Folded` and `WithoutDigits`; `BenignPairs` is the code's list |
| `Identifiers` | identifier validation | a text is its count of hex digits and dashes, whether anything else is in it and whether it is all zero: all the validators can tell apart |
| `LogfmtLine` | the promise of `enrichFromLogFmt` | `Outcome(line)` is what its documentation says of a whole line, with no scan |
| `OneShot` | abstract | an input is given, one step later the answer is `F` of it |
| `LogfmtScan` | `enrichFromLogFmt` as it runs | `local` holds the captured variables; one action per `case`; `Missing` is the callback's return value; `Gate`, `EndOfLine`, `Write` are the code before and after the iteration |
| `Records` | the data | decoded fields, what a pattern captured, lines, `Result`. Fields the code treats alike share one (`Template` stands for `Template`, `TemplateHash`, `Version`; `Service` for `Service`, `Product`) |
| `Enrich` | `fillResult` | the calls in progress are a stack `frames`; a step is one function of the code run by the top frame; `Call`, `Return` and `Merge` are the recursion. Composes `Severity`, `Identifiers` and `LogfmtLine` (which `LogfmtScan` shows the scan computes) |
| `EnrichClaims` | statements of the documentation | invariants the code does not have, see Findings |
| `PatternDispatch` | `enrichFromPatterns`, `apply`, `byteMemo` | `idx` is the entry, `at` the gate tested next; one action per test of `apply`; `Sound` is what a gate must guarantee |
| `Regex`, `PatternTable` | the expressions | syntax trees and backtracking search (external: `regexp`), and the table of `lineparser.go` entry by entry. A digit or letter may stand for its class |
| `GateDerivation` | what `init` derives | `firstBytes` and `posGates` look at the opening of a pattern's text, as the code does; `requiredByte` walks the tree |
| `MatchingLines` | lines an entry matches | a producer that works off the tree of an entry, choosing alternatives, repetitions and bytes, and remembers what a gate looks at |
| `Matchers` | `fastmatch.go` | one operator per matcher, over positions of a line; three verdicts |
| `Calendar` | `daysInMonth`, `daysFromCivil` | one operator per stage of the arithmetic, with Go's division |
| `TimeLayouts` | direct parsers and layouts | a value is a date and clock with their separators, and a rest byte by byte; `timeParse` has the rules of `time.Parse` for the elements the table's layouts use (external) |
| `Calls` | a call that works a text off in a loop | its variables, how it begins and ends: what `MachineWords` and `TextScans` have in common |
| `MachineWords` | eight bytes at a time | a word is its eight lanes, a byte a number; a sum carries from lane to lane, a mask is a test of one bit of each lane; the loops are steps, `at` the bytes behind them |
| `TextScans` | the three scans | `at` is where the loop is; a text is the pieces its scan tells apart |
| `Spellings`, `SeverityLookup` | the level table | letters, hash, table without probing, and the gates in front of it, as steps of `SeverityFromText` |
| `DecodedKeys` | the generated decoder | an object is read member by member; the dispatch by length and key is the generated one, what it should do is taken from the struct tags |
| `YearInference` | klog and RFC3164 stamps | a producer writes, days pass, the direct parse reads the clock, days may pass, the old path reads it again |
| `CallerBuffer` | who owns the bytes | a string is a view: of a line in a buffer, or of a text of its own. The steps of a call are those that cut or copy strings; between them any caller may parse, keep a string, or overwrite a buffer no call is reading |
| `MCShortcuts`, `MCShortcutInputs` | | one instance of four machines that have nothing to do with each other, and its inputs |
| `MC...` | | instances for TLC |
| `...Proofs` | | TLAPS proofs |

The operators under a comment that starts "Mutant:" are variants with a
plausible mistake; `PROJECT.json` pairs each property with the one that breaks it.

Where one module takes for granted what another checks:

- `PatternDispatch` assumes of gates and hand matchers that they reject only
  what the entry's expression rejects (`Sound`). `GateDerivation` with
  `MatchingLines`, and `Matchers`, check that of the real table. An entry's
  expression, in `PatternDispatch`, is what `apply` can reach: for `date(1)`,
  whose first byte is asked to be one of `MTWFS`, lines that begin with another
  capital are not its lines, and `NoTimeIsLostToABucket` says that none of them
  has a timestamp the layouts could read.
- `Enrich` takes the outcome of a logfmt line from `LogfmtLine`; `LogfmtScan`
  is shown to compute it. It starts from decoded fields, a line without colours
  and a numeric level; `DecodedKeys` and `TextScans` have those steps.
- `Severity` looks spellings up by name; `SeverityLookup` shows that hash, table
  and gates do the same, for every spelling, and for the spellings the other
  modules use.

## What the runs check

Eight runs pass, four show a disagreement (see Findings). The programs end, or,
where time passes or callers call, the instance does, so every configuration
turns deadlock checking off.

**`logfmt_scan`** (`MCLogfmtScan`). All lines of up to two pairs out of 25, and
four orders of the six signals with one competing, invalid or foreign pair
inserted at every place and one more at the end. Two pairs are enough for every
pairwise precedence; eight are needed so that the early exit happens with
something after it. `PrefixFaithful` is the loop invariant: the locals say what
the pairs read so far say. `EarlyExitLosesNothing` is the reason the early exit
is allowed. `ParentIDsStayTogether` forbids the trace of one traceparent beside
the span of another. `ImplementsWholeLine` is the refinement of `OneShot`, with
`Promised` as the function, including that an answer comes.

**`enrich`** (`MCEnrich`, depth 3, 719,252 states). First, every combination of
the competing level sources, in two groups of fields: text, OTLP number, gRPC
status, `responseStatus`, `response_code`, numeric level; and text, the two
Azure codes, response code and result code, protocol, flags, exception. Each
also around sixteen embedded lines that settle on every kind of level, or on
none (one is a benign message with no level). Codes include 0, 50 (gradable but
no status), 200, 302, 404, 500, 700 and an unreadable number.
`SeverityAgreement` is the README's promise that level and number never
contradict each other. `SettledLevelIsKept`: without a failure status only the
benign list changes an explicit level other than info. `FailedCodeIsVisible`: a
reported 4xx or 5xx never reads as info or as nothing. `LevelNeverUnset` is an
action property: no step takes a level away, not even the second of two embedded
lines that has none itself. `FailedCodeIsVisible` is stated of
a record given that what was lifted into it has the property, and leaves out
one kind of record, one that embeds a `log` line *and* carries an Azure
`properties` payload, because two subjects are then described by one level; no
producer does both.

Second, timestamps with and without zone, identifiers at every level, messages
and context, lines of every format embedded in each other, and records that
embed two lines. Depth 3 is the smallest in which a lifted value is lifted
again. `ZoneTravelsWithTime`: the zone answer belongs to the timestamp
reported. `SilentEnvelopeIsTransparent`: a record that says nothing of its own
changes nothing that is lifted. `IDPrecedence`: which of an explicit
identifier, a traceparent and the embedded lines supplies each identifier.
`UnmatchedSaysNothing`: an unclaimed line reports no time, level, trace, code
or exception, and the message, logger and span the unclaimed logfmt scan read
are still what it read. `WrappedLineIsNotLost`: a record without a message of
its own finishes with the words of the last embedded line that has any,
verbatim; as each envelope hands on what it was handed, a plain line's text
passes through any number of them. `Terminates`: every caller resumes where it
stopped and the outermost call returns. That the recursion is finite is not
shown: an embedded text is shorter than the record it is decoded from, which the
model takes over as the bound `MaxDepth`.

**`pattern_dispatch`** (`MCPatternDispatch`). A table of seven entries, one for
each combination of gates the real table has, in its order, against lines of
every first byte, gate window, needle and required byte, with every set of
matching entries and hand verdicts that `Sound` allows. `MemoIsTruthful`: the
memo, shared with the logfmt scan, agrees with the line. `ScansOnce`: no byte
is searched for twice. `NothingSkippedMatches` is the loop invariant.
`ImplementsTableOrder` is the refinement of `OneShot` with "the first match of
the table, and the traceparent".

**`year_inference`** (`MCYearInference`). Lines written on 31 December, 1 and 31
January, 28 and 29 February and 30 November, by a producer whose date is the
reader's or one day ahead or behind, and read any number of days up to 366
later; days may pass between the two reads of the clock. The years are
1898-1901 (a century that is no leap year), 1999-2001 (one that is), and 0-1,
in which nothing is written or read and only `daysFromCivil` is exercised, in
the negative era. `CountsDays`: `daysFromCivil` grows by one with each date of
the calendar. `RecentStampIsExact`: a stamp read within a month of being
written is the day it was written. `WithinTenMonths`: however late a line is
read, its date is within ten months of the clock's; a November line read in
January therefore lands ten months ahead, by the code's own rule. `LeapDayIsNotMoved`:
29 February is dropped in a common year, never read as 1 March.
`FastChangesNothing`: the direct parse answers what the old path would.

**`shortcuts`** (`MCShortcuts`). Everything the library does by hand to be fast,
against what it stands in for: 90,326 states of four machines, side by side in
one instance because each is small and none needs the others.

- `MatchPassesGates`: lines generated from each entry's expression, every
  alternative taken and every unbounded repetition up to `MaxRepeats` = 2 times,
  pass the byte sets, position gates and required bytes `init` derives for it.
  Two repetitions shift what follows by every amount a gate can tell. `IdLen` = 2
  stands for the 36 bytes of a Lambda request identifier, behind which there is
  no gate. The exception, lines of `date(1)`'s shape that begin with no weekday, is
  `NoTimeIsLostToABucket`'s business.
- `MatchersAgree`: lines grown byte by byte from beginnings close to each
  matcher's family, whole and broken in one place, up to four bytes further: a
  matcher never gives back what it took, the expression does (`Many` = 26
  repetitions are more than a line of the instance has bytes to repeat). Where a
  matcher decides, verdict and captures are the expression's; the two that know
  only a prefix decline exactly the lines that have it. `indexAnchored` is
  `strings.Index`.
- `LayoutsAgree`: dates good and bad, both separators, fractions of 0 to 10
  digits with dot or comma, zones of every kind, cut off and followed by junk.
  `parseLayoutTime` answers what the loop over the layouts would; the parser in
  front of `logfmt.ParseTime` reads what the library reads; and what the layout
  itself would write is not left to the slow path. `ZonedMeansStated`: a time is
  reported as zoned exactly if its text states an offset, or names UTC or GMT.
- `LookupIsRegistry`: every spelling in three cases and with digits, its
  neighbours, and all words of one and two letters.

**`calls`** (`MCCalls`, 155,618 states). One call of one of the functions that
work a text off in a loop; `MachineWords` and `TextScans` together.

- `WordsAreTheirBytes`: `hexRun`, `validGUID`, `lower`, the line gates and
  `jsonInt` answer what a loop over single bytes, or `strconv.ParseInt`, would.
  Two bytes at every pair of neighbouring places run over the boundaries of the
  ranges (one on each side of each end, 127, 128, 255): a carry can come only
  from a lane's neighbour. The largest integer is 32767 and 4 digits are
  trusted, in the proportion of the code's 64 bits and 18 digits
  (`DigitsFitAssumption`).
- `ScansAreTheirPatterns`: colour sequences whole, broken, nested and
  neighbouring; resource identifiers of up to six pieces, and longer ones around
  one that matches. The exception, a prefix that begins with the slash that ends
  another, is a finding.
- `PinoIsOwnLevel`: records of up to two members with escapes, blanks and
  strings that spell the key. The exceptions are a nested object's `level` and a
  key that ends in an escaped quote and `level`, which the scan does take.

**`decoded_keys`** (`MCDecodedKeys`). Records of up to two members, every key of
every struct tag and an unknown one, values of six kinds, nested objects of up
to two members; 3.4 million states. Two members are enough for one value to
replace, or fail to replace, another. `LastReadableWins`: each field holds its
last readable value, or nothing if the record is malformed. `WholeObjectsOnly`:
a nested object is taken whole or not at all, never mixed with an earlier one.

**`caller_buffer`** (`MCCallerBuffer`). Two goroutines, one buffer they share in
turns, two calls each, a kept string; lines that need every kind of rewriting
and one that needs none; 599,334 states, with the goroutines symmetric. One
buffer is the worst case, everybody's views are of it; two calls are what reuse
takes. `SameAsFresh`: a reused `Result` says what a new one would, while its
buffer is as it was. `KeptStringsHold`: a kept string changes only if it was
taken after `ParseBytes`, is part of the line as it stands, and the buffer was
overwritten: what `doc.go` warns of, and no more.

### Fairness

`LogfmtScan`, `Enrich` and `PatternDispatch` each model one call run by one
goroutine that nothing blocks: weak fairness of the whole next-state relation
says that it keeps running. No more is assumed. `YearInference` states no
fairness and no liveness property: whether a line is ever written, or read, is
up to the world. Nor do `CallerBuffer`, whose callers owe nobody a call, and the
machines of `MCShortcuts`, `MCCalls` and `MCDecodedKeys`, of which only the
answers are of interest.

## Findings

Statements of the repository that the code does not keep. Four are checked by a
run of their own, and violated: three invariants of `EnrichClaims` over the
instance in `MCEnrichClaims`, and `ScanIsPattern` over that of `MCCalls`.

| Statement | What the code does |
|---|---|
| README 153-155: the benign list "is the only place the package overrides a level the line states outright" | a failure status of an Azure record is written before the level is looked at, which then finds one set (`enrich.go` 698-700, 834) |
| `enrich.go` 786-787: an envelope's "authoritative top-level scalar still wins over a lifted one" | not its level: it is only read if the embedded line had none (834) |
| `enrich_test.go` 861-862: "everything the embedded line carries is lifted" | not the resource, its group and the event category (788-823) |
| `enrich.go` 117: "This was a regexp; the equivalent scan is here" | after a failed candidate the scan goes on behind the whole prefix (134), past one that begins with its last slash |

Others were met while modelling; no run is about them, and the properties above
name them as exceptions where they meet them:

- `enrich_test.go` 181, "An explicit non-info severity is not overridden by the
  response code": a numeric Pino level is looked at last and loses to the code
  (`enrich.go` 676-680).
- `enrich.go` 427-428, "Explicit trace_id/span_id keys win over a traceparent
  wherever either appears": an unclaimed logfmt line's span is overwritten by
  the traceparent scan that follows (1031-1037).
- `enrich.go` 235-237, the status code "is the number behind the severity": a
  later observed code is recorded without grading the level (`severity.go`
  474-481).
- `lineparser.go` 463-466, a byte set a line "must start with for the pattern to
  possibly match": `date(1)`'s expression allows any capital first, its set is
  `MTWFS` (490). No layout reads what is lost.
- `severity.go` 367-368, "An escaped quote cannot produce a false match": one in
  front of the word, at the end of a longer key, does.

## What is proved

Each proof holds for every value of the constants under the assumptions named
in the modules: that the empty text is no identifier and no timestamp, that
lines are built from the constants, that a name in lowercase is a name and the
empty one stays empty, that a text of as many nines as `jsonInt` trusts is an
integer, that an encoder escapes the quotes of a key and puts no blank but its
own before a value (`ObjectsAssumption`), and for `PatternDispatch` that each gate rejects only
what its expression rejects (`Sound`, in `LinesAssumption`) and that a rare byte
is one of its needle. Two facts about the pattern table go into the pipeline:
no entry captures two of the groups that write a level (in `Captures`), and no
entry, and no logfmt scan, finds anything in a line that is nothing but one of
the three messages of the benign list (`BenignLinesAssumption`). TLC evaluates
both over the table in `PatternTable` on every run of `MCShortcuts`.

*Severity* (in `LogfmtLineProofs`). `SeverityRoundTrip`: whatever text is looked up,
the number found reads back as the level found, and the empty level goes with
number 0 only. It rests on the rows of the table, and is what the other proofs
know about the table. `MappingsAgree` says it of all tables: whatever a text, an
OpenTelemetry number, a syslog priority, an HTTP status, a pino number or a redis
mark is mapped to is a level that is spelled as itself and whose registered
number names it; the OpenTelemetry, syslog and HTTP tables answer nothing exactly
outside their numbers; and no failing status is graded to info.

*Logfmt scan* (`LogfmtScanProofs`, over `LogfmtLineProofs`). For lines of any length: `ScanTyped`, `NothingLost` and
`WholeLine`, the safety half of the refinement, `PrefixIsFaithful` and
`ParentsTogether`. The whole line's meaning is
defined by the *first* pair that can supply a signal, so the inductive
invariant states each captured variable by the set of such positions: it is
unset while no position read so far is in the set, and otherwise holds the
value of the least. A signal that is not missing has its least position behind
the scan, and that is then the least of the whole line; what is still missing
keeps the scan going to the end. The same sets, cut at the scan's place, are
those of the prefix, which is `PrefixFaithful`; and as the only answer given is
the line's, the two identifiers of a parent are of one pair. Neither `TypeOK` nor `EarlyExitLosesNothing`
is inductive by itself.

*Pattern dispatch* (`PatternDispatchProofs`). For every table and every line:
`DispatchTyped`, `MemoTruth`, `OneScanPerByte`, `NoMatchSkipped`, and `TableOrder`, the safety
half of the refinement. The invariant adds to the properties that an entry is
at hand while one is tried, and that the answer is given with the last step.

*Pipeline* (`EnrichProofs`). For lines embedded to any depth: `ResultsTyped`,
`LevelsAgree`, `ZoneOfItsTime` and `LevelStays`. That level and number agree is not true while a call runs, and
is established by its last two steps; what the invariant needs of the rest is
that every conversion stays within its type, so that the normalization finds a
level it knows or none. The invariant therefore types every frame of the stack,
its lifted results, and the result in the act of being returned. A second
invariant, over the first, says that every result at hand has the zone answer
of its own timestamp, and that a JSON record's level is one of the six or none
at every moment, not only at the end: each paragraph of `applyJSON` takes such
a result to such a result (`Onward`), what is lifted comes from a finished call,
and the normalization, which clears a text no table knows, finds none to clear.

*History of a record* (the second half of `EnrichProofs`, over the invariants of
the first). `SettledLevelStays`, `FailedCodeShows`, `SilentIsTransparent`,
`IDsInOrder`, `UnmatchedIsSilent` and `WrappedIsKept`: the six properties that
relate a finished record to everything it said and everything that was lifted
into it, for any set of lines embedded to any depth. None is inductive: each
speaks of the end of a call, and the level, the identifiers or the message on
the way there is a different one at each paragraph of `applyJSON`. The history
invariant `HInv` says which one, place by place, from the record and the
history `lifted` alone: before `metadata` the identifiers are those of the
embedded lines (`Identified`), before `hints` the level is that of the last
line that had one, and afterwards the settled one (`Settled`); a status code
that shows keeps showing, because an observed one writes only where it makes a
level worse, and a failure one writes what it grades to (`Shown`, over
`CodeRegraded`); the message is the words of the last
line that had any (`Worded`); a silent
record repeats what it lifted (`Echoed`). What the calls owe each other is
`Delivered`: a finished result is normalized, has a level if it has an
exception, is not one the benign list would still grade down, and if its whole
text is a message of that list it has no level. The last two are what makes the
second normalization and the second look at the list, which the enclosing
record repeats, find nothing to do: the message an envelope gets from a plain
line is the line's text, and with its logger it could be a pair of the list
that the inner call did not see. That is why `BenignLinesAssumption` is there.
For text lines `Plain` follows what the unclaimed scan leaves through the
table. `AlwaysHInv` is the invariant; `ToldStep` has one case per function of
the code, and one lemma each below it.

*Calendar and year inference* (`YearInferenceProofs`). `CalendarCounts`: for any
range of years, also before year 0, each date's count is one more than that of
the date before. The argument goes by the era of a year: within an era the
quotients by 4 and 100 grow at multiples, an era ends with a leap year, and so
a year that starts in March has 366 days exactly when the leap rule of
`daysInMonth` says so of its February. On that, `RecentIsExact`,
`FastPathIsExact`, `NeverFarOff`, `LeapDayStays` and `Typed` follow from an
invariant that says the count of the day a line was written is that of its
date, and that an answer is the old path's.

*Buffer ownership* (`CallerBufferProofs`). For any number of goroutines,
buffers, lines and calls: `ResultIsFresh` and `KeptStrings`. Everything a call
has at hand shows the line it was given: it is a text of its own, or a view of
the one buffer the call reads, which nobody writes while the call is busy; a
field that needs rewriting is a text from the step on that rewrites it. Assumed
are the shape of a line (a resource group comes with the identifier it is cut
from), that what is kept is a field, and that a buffer is neither of the two
words that mark a text and nothing.

*JSON decoder* (`DecodedKeysProofs`). `LastOneWins` and `WholeOrNothing`, for
records and nested objects of any length, any keys and any kinds of values, also
those the library has no reader for. First the generated switches are
compared with the struct tags, length by length and key by key: every case
decodes into the field its tag names (`CasesKnown`), every key of every tag has
a case (`TagsListed`), and no key is in two tags (`TagsApart`). That a key's
case is also *reached* depends on the key's length, and a string's length is
opaque to the prover: that each key stands under its own length is
`KeyLengthsAssumption`, which TLC evaluates over the whole switch. On that, the
invariant says that the fields hold what the tags say of the members read to
their end, one fewer than have begun while a nested object is being read, and
that the copy holds what its tags say of the object so far. Each member either
is read by one tag and replaces that field, or by none and replaces nothing.
`WholeObjectsOnly` follows from the same invariant, also for records that fail
later.

*Words and scans* (`CallsProofs`). `WordsExact`: for texts of any length and
any bytes, `WordsAreTheirBytes`. Below it, `laneRange` is shown to flag exactly
the lanes in its range: with every lane below 128 a sum hands no carry on
(`SumWithoutCarry`), and a word with a lane beyond ASCII is told apart before its
ranges count. What a loop knows is that the bytes behind it are all hex (and all
zero, as `kept` says), or all in lowercase in `kept`, or make the number in
`kept`; the last word of `validGUID` overlaps the one before, so that all 36
bytes are looked at. For `jsonInt` a number of `n` digits is at most `n` nines
(an induction over the digits, made with a least counterexample), so that with
no more digits than are trusted no step wraps, whatever the width of an integer.

`ScansExact`: for texts of any length, `ScansAreTheirPatterns`. `Groups` reads
the digit groups of a colour sequence one after the other; read from any place
it returns the one place where groups that begin there can end
(`GroupsAre`), which is how the pattern's own words, all places digits or
semicolons and no two semicolons together, come down to a step of the loop. Then
`ColoursBehind`: up to the escape at hand (or the end) every sequence has been
found, and ends before `last`, and what is kept are the plain bytes before
`last`, each at the place its rank among them says. Two sequences never share a
byte, and after a broken one the next escape may lie inside it: the scan goes on
one byte further, and the proof needs that. For the identifiers `GroupBehind` says that
no match begins behind `at`. It holds after a failed candidate because a match
within the prefix just skipped could only begin at its last slash, which is the
exception the property makes.

`PinoExact`: for records of any number of members of any length,
`PinoIsOwnLevel`. The text is one entry per member, each behind a brace or a
comma, so that an occurrence of `"level":` lies in one entry (`KeyInJoint`).
Within an entry its last byte, the colon, can only be the member's own
(`KeyInEntry`): in a key a quote has a backslash before it, where the pattern has
the word; between colon and value are blanks only; and in a value, or at the end
of a longer key, is what the property excepts. So the occurrences are exactly the
places of the record's own levels (`KeysOfParts`), the first is the first
member's, and as neither comma nor brace is a digit the number read from the line
is the one read from the value (`SameDigits`).

They rest on recursions over a text (carries, values, groups, entries, all written as
recursive functions) whose domain is an interval: the provers know such a
function by its defining equation once the equation is shown to have a solution,
or is unfolded at the places used, and an induction goes by the least place at
which a claim would fail (`Least`).

### What is only model-checked

Liveness: `Terminates`, and that an answer comes in the two refinements; the
prover has no fairness. Of the safety properties, the six of `shortcuts`. What
the machines of `shortcuts` answer is compared with the search of a regular
expression over its tree, with a library's parser, or with letters of a spelling:
the first would need an induction over trees (its modules declare recursive
operators), and to the last a string is opaque to the provers.

## What is not modelled

- `parseSyslogTime`, seconds as a floating point number.
- The cutting of an exception into type, message and stack: `Enrich` is given
  the parts.
- Text at large. A digit or letter of a pattern stands for its class, so that two
  expressions that differ within a class are one; the lines for the hand
  matchers are those of their own families.
- Four layouts of the table that have no direct parser and no zone: Apache's,
  Redis's, `02/01/2006` and `2006 Jan _2`. The code hands them to `time.Parse`.
- The time of day and the zone arithmetic of a stamp without a year.
- The benchmark and test files, and `doc.go` beyond the ownership rules it
  states.

External code appears only as the repository uses it: the JSON lexer as a
sequence of members with readable and unreadable values (a null is read as a
zero value), the logfmt reader as the order of the callbacks, `regexp` as
backtracking search in order of preference, `time.Parse` as its rules for the
elements the layouts use, `strconv.ParseInt` and `strings.ToLower` as what they
answer, the clock as a date that advances.

## Plan

Done: the modules above, in the order severity, identifiers, logfmt, pipeline,
dispatch, years, gates, matchers, layouts, words, scans, level table, decoder,
buffers; and the proofs, in the order of "What is proved".

Next, to prove: the lookup of a spelling in `SeverityLookup`, given what its
letters are and that no two spellings share a slot.

Next, to model: the cutting of an exception's text, should its rules grow.
