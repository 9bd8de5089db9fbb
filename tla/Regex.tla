------------------------------- MODULE Regex --------------------------------
(***************************************************************************)
(* Regular expressions as syntax trees: what regexp/syntax parses a        *)
(* pattern into, the pattern's text, and what regexp finds with it.  A     *)
(* byte of text is a string; one digit or letter may stand for its class.  *)
(***************************************************************************)
EXTENDS Naturals, Sequences, SequencesExt

CONSTANT Many        \* bound: how often an unbounded repetition can repeat

ASSUME ManyAssumption == Many \in Nat

-----------------------------------------------------------------------------
(* Syntax trees *)

Class(name, set)   == [op |-> "byte", name |-> name, set |-> set]
Lit(b)             == Class(b, {b})
Cat(rs)            == [op |-> "cat", subs |-> rs]
Alt(rs)            == [op |-> "alt", subs |-> rs]
Group(name, r)     == [op |-> "group", open |-> name, sub |-> r]
Rep(r, q, min, max) == [op |-> "rep", quantifier |-> q, min |-> min, max |-> max, sub |-> r]
At(name)           == [op |-> "at", name |-> name]     \* ^, $ and \b

Opt(r)   == Rep(r, "?", 0, 1)
Plus(r)  == Rep(r, "+", 1, Many)
Star(r)  == Rep(r, "*", 0, Many)
Par(r)   == Group("(", r)
Named(name, r) == Group("(?P<" \o name \o ">", r)
Word(bs) == Cat([i \in DOMAIN bs |-> Lit(bs[i])])

\* The pattern's text, as a sequence of tokens.
RECURSIVE Text(_)
Text(r) ==
  CASE r.op \in {"byte", "at"} -> <<r.name>>
    [] r.op = "cat"   -> FlattenSeq([i \in DOMAIN r.subs |-> Text(r.subs[i])])
    [] r.op = "alt"   -> Tail(FlattenSeq([i \in DOMAIN r.subs |-> <<"|">> \o Text(r.subs[i])]))
    [] r.op = "group" -> <<r.open>> \o Text(r.sub) \o <<")">>
    [] r.op = "rep"   -> Text(r.sub) \o <<r.quantifier>>

-----------------------------------------------------------------------------
(* Matching: every way r can match the line s from its i-th byte on, the   *)
(* preferred one first: an earlier alternative and one more repetition     *)
(* come first.  Each way is where it ends and what the groups captured.    *)

RECURSIVE Ways(_, _, _, _)
Ways(r, s, i, captured) ==
  CASE r.op = "byte" ->
         IF i <= Len(s) /\ s[i] \in r.set THEN <<[end |-> i + 1, captured |-> captured]>>
         ELSE << >>
    [] r.op = "at" ->
         IF r.name = "^" => i = 1 THEN <<[end |-> i, captured |-> captured]>> ELSE << >>
    [] r.op = "cat" ->
         IF r.subs = << >> THEN <<[end |-> i, captured |-> captured]>>
         ELSE LET first == Ways(Head(r.subs), s, i, captured)
              IN  FlattenSeq([k \in DOMAIN first |->
                    Ways(Cat(Tail(r.subs)), s, first[k].end, first[k].captured)])
    [] r.op = "alt" ->
         FlattenSeq([k \in DOMAIN r.subs |-> Ways(r.subs[k], s, i, captured)])
    [] r.op = "group" ->
         LET inside == Ways(r.sub, s, i, captured)
         IN  [k \in DOMAIN inside |->
               [inside[k] EXCEPT !.captured = @ \cup {<<r.open, i, inside[k].end>>}]]
    [] r.op = "rep" ->
         LET once == IF r.max = 0 THEN << >> ELSE Ways(r.sub, s, i, captured)
             rest == Rep(r.sub, r.quantifier, IF r.min = 0 THEN 0 ELSE r.min - 1, r.max - 1)
             more == FlattenSeq([k \in DOMAIN once |->
                       Ways(rest, s, once[k].end, once[k].captured)])
         IN  IF r.min > 0 THEN more ELSE Append(more, [end |-> i, captured |-> captured])

\* What FindStringSubmatchIndex finds of an anchored pattern.
Found(r, s)   == Ways(r, s, 1, {})
Matches(r, s) == Found(r, s) # << >>
=============================================================================
