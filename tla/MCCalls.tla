------------------------------ MODULE MCCalls ------------------------------
(***************************************************************************)
(* An instance for TLC of the calls of MachineWords and TextScans.  A      *)
(* behaviour is one call.                                                  *)
(***************************************************************************)
EXTENDS TextScans, MachineWords

Init == WordsInit \/ ScansInit
Next == WordsNext \/ ScansNext
Spec == Init /\ [][Next]_vars

-----------------------------------------------------------------------------
(* Calls of the word loops.  Carries go from a lane to the next, so that   *)
(* two neighbouring bytes of a text are arbitrary, out of those on either  *)
(* side of the ranges tested, and the rest is a base.  Bytes are numbers.  *)

\* Both sides of 0-9, A-F, A-Z, a-f, a-z and of ASCII, and the dash.
Boundary == {45, 47, 48, 57, 58, 64, 65, 70, 71, 90, 91, 96, 97, 102,
             103, 122, 123, 127, 128, 255}

Of(n, c) == [i \in 1..n |-> c]
GUID == [i \in 1..36 |-> IF i \in {9, 14, 19, 24} THEN 45 ELSE 97]

Varied ==
  {[function |-> "hexRun", text |-> Of(16, c)] : c \in {48, 70}}
  \cup {[function |-> "validGUID", text |-> GUID]}
  \cup {[function |-> "lower", text |-> Of(n, 97)] : n \in {2, 7, 9, 17}}

\* One of them, and where the first of the two bytes goes.
Places ==
  UNION {{<<c, p>> : p \in 1..Len(c.text) - 1} : c \in Varied}

\* A date and time, up to the window and beyond, quoted or not.
Slash == 47  Space == 32
DateAndTime == [i \in 1..14 |-> CASE i \in {5, 8} -> Slash [] i = 11 -> Space [] OTHER -> 48]
SomeGates == {[p \in {4, 10} |-> IF p = 4 THEN Slash ELSE Space],
          [p \in {7, 10} |-> IF p = 7 THEN Slash ELSE Space],
          [p \in {4, 11} |-> IF p = 4 THEN Slash ELSE 48], [p \in {} |-> 0]}
Lines ==
  {SubSeq(s, 1, n) : <<s, n>> \in {DateAndTime, <<Quote>> \o DateAndTime} \X (0..14)}
  \cup {[s EXCEPT ![p] = 1] : <<s, p>> \in {DateAndTime, <<Quote>> \o DateAndTime} \X (1..13)}
Passing ==
  {[function |-> "passes", text |-> s, quoted |-> q, gates |-> g] :
     <<s, q, g>> \in Lines \X BOOLEAN \X SomeGates}

\* Digits at the bounds of 16 bits, signs, a point, an exponent.
Numbers ==
  {[function |-> "jsonInt", text |-> s] :
     s \in UNION {[1..n -> {48, 50, 51, 57}] : n \in 0..6}
           \cup UNION {[1..n -> {43, 45, 46, 49, 55, 101}] : n \in 1..4}
           \cup {<<sign, 51, 50, 55, 54, d>> : sign \in {43, 45}, d \in 54..57}
           \cup {<<51, 50, 55, 54, d>> : d \in 54..57}}

MCWordCalls ==
  Passing \cup Numbers \cup {[function |-> "lower", text |-> << >>], [function |-> "lower", text |-> Of(8, 97)]}
  \cup {[cp[1] EXCEPT !.text[cp[2]] = x, !.text[cp[2] + 1] = y] :
           cp \in Places, x \in Boundary, y \in Boundary}

-----------------------------------------------------------------------------
(* Texts for the scans: all over the pieces of their patterns, whole colour *)
(* sequences among them, up to a number, and records of up to two members.  *)

Texts(pieces, n) == UNION {[1..k -> pieces] : k \in 0..n}
Sequence(groups) == <<"esc", "[">> \o groups \o <<"m">>
Chunks == {<<"esc">>, <<"[">>, <<"digit">>, <<";">>, <<"m">>,
           Sequence(<<"digit">>), Sequence(<<"digit", "digit", ";", "digit">>)}
MCColoured == {FlattenSeq(s) : s \in Texts(Chunks, 4)}

\* Words stand between slashes, as in a path, or next to each other.
MCIdentifiers ==
  Texts({"/", "subscriptions", "guid", "resourcegroups"}, 6)
  \cup {p \o <<"/", "subscriptions", "/", "guid", "/", "resourcegroups", "/">> \o e : <<p, e>> \in
          Texts({"/", "subscriptions", "name"}, 4) \X Texts({"/", "name"}, 2)}

Member(key, blanks, value) == [key |-> key, blanks |-> blanks, value |-> value]
EscapedLevel == <<"\\", "quote", "level">>
Members ==
  {Member(k, b, v) : <<k, b, v>> \in
     {<<"level">>, <<"word">>, <<"word">> \o EscapedLevel}
     \X {<< >>, <<" ">>, <<"\n", "\t">>}
     \X {<<"3", "0">>, <<"5", "0">>, <<"5">>, <<"1", "0", "0">>, <<"1", "0", "3", "5">>,
         Quoted(<<"level">>), Quoted(<<"word">>),
         Quoted(EscapedLevel \o <<"\\", "quote", ":", "1", "0">>),
         <<"{">> \o Quoted(<<"level">>) \o <<":", "1", "0">> \o <<"}">>}}
MCRecords == UNION {[1..n -> Members] : n \in 0..2}
=============================================================================
