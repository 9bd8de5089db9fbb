---------------------------- MODULE MatchingLines ----------------------------
(***************************************************************************)
(* The lines the table's patterns match, against the gates derived from    *)
(* them.  A stack of what is still to be matched is worked off from the    *)
(* top, choosing an alternative, whether to repeat, and each byte.  Of the *)
(* line only what a gate looks at is kept.                                 *)
(***************************************************************************)
EXTENDS GateDerivation

CONSTANT MaxRepeats    \* bound: how often an unbounded repetition repeats

VARIABLES
  entry,       \* the table entry the line is to match
  compiled,    \* what init made of it
  todo,        \* what is left to match, the next first
  text,        \* the line's first bytes; NoByte where no gate looks
  present,     \* whether the entry's required byte has been written
  done         \* everything is matched

vars == <<entry, compiled, todo, text, present, done>>

Written == gateWindowStart + gateWindowLen + 1

\* What an unanchored pattern skips is part of the line, too.
Skipped(re) == IF Text(re)[1] \in {"^", "(?s)"} THEN << >> ELSE <<Star(Class("skipped", Bytes))>>

Init ==
  /\ entry \in DOMAIN lineParsers /\ compiled = compiledLineParsers[entry]
  /\ todo = Append(Skipped(lineParsers[entry].re), lineParsers[entry].re)
  /\ text = << >> /\ present = FALSE /\ done = FALSE

Shift == IF compiled.quoted /\ text # << >> /\ text[1] = "quote" THEN 1 ELSE 0

\* Whether a gate looks at the byte about to be written.
LookedAt == Len(text) = 0 \/ Len(text) - Shift \in DOMAIN compiled.gates

\* Elsewhere a byte only tells whether it is the required one.
Telling(set) ==
  (set \cap {compiled.required}) \cup {CHOOSE b \in set : b # compiled.required \/ set = {b}}

Top == Head(todo)
Push(rs) == todo' = rs \o Tail(todo) /\ UNCHANGED <<entry, compiled, text, present, done>>

On(op) == ~ done /\ todo # << >> /\ Top.op = op

WriteByte ==
  /\ On("byte")
  /\ \E b \in IF LookedAt THEN Top.set ELSE Telling(Top.set) :
       /\ text' = IF Len(text) = Written THEN text
                  ELSE Append(text, IF LookedAt THEN b ELSE NoByte)
       /\ present' = (present \/ b = compiled.required)
  /\ todo' = Tail(todo)
  /\ UNCHANGED <<entry, compiled, done>>

Stay      == On("at") /\ Push(<< >>)
InTurn    == On("cat") /\ Push(Top.subs)
ChooseOne == On("alt") /\ \E i \in DOMAIN Top.subs : Push(<<Top.subs[i]>>)
Enter     == On("group") /\ Push(<<Top.sub>>)

Repeat ==
  /\ On("rep") /\ Top.max > 0
  /\ Top.quantifier \in {"*", "+"} => Top.max > Many - MaxRepeats
  /\ Push(<<Top.sub, [Top EXCEPT !.min = IF @ = 0 THEN 0 ELSE @ - 1, !.max = @ - 1]>>)
Leave == On("rep") /\ Top.min = 0 /\ Push(<< >>)

Finish == ~ done /\ todo = << >> /\ done' = TRUE /\ UNCHANGED <<entry, compiled, todo, text, present>>

Next == WriteByte \/ Stay \/ InTurn \/ ChooseOne \/ Enter \/ Repeat \/ Leave \/ Finish

Spec == Init /\ [][Next]_vars

-----------------------------------------------------------------------------
(* Properties *)

\* The weekdays the date(1) layouts know.
Weekday == {"M", "T", "W", "F", "S"}
IsDateStamp == Opens(lineParsers[entry].re, InTime(<<Mon, Sp, Mon, Sp>>))

\* A line that an entry's expression matches, and whose time the entry's
\* layouts can read, is found in the bucket of its first byte.
NoTimeIsLostToABucket ==
  (done /\ (IsDateStamp => text[1] \in Weekday)) => compiled.first = {} \/ text[1] \in compiled.first

\* The gates derived from an expression let every line pass that it matches:
\* the bytes are where they are asked for, a quote in front or not, and the
\* required byte is there, also where init leaves it to a position to ask for.
\* No position lies outside the window, at which compileGates panics.
MatchPassesGates ==
  /\ DOMAIN compiled.gates \subseteq gateWindowStart .. gateWindowStart + gateWindowLen - 1
  /\ done => \A p \in DOMAIN compiled.gates : text[p + Shift + 1] = compiled.gates[p]
  /\ (done /\ compiled.required # NoByte) => present
=============================================================================
