-------------------------- MODULE MCShortcutInputs --------------------------
(***************************************************************************)
(* What MCShortcuts gives the shortcuts to work on.                        *)
(***************************************************************************)
EXTENDS Spellings, SequencesExt

-----------------------------------------------------------------------------
(* Lines for the hand matchers: beginnings that bring a line close to      *)
(* matching, some of them broken, and the bytes that follow: those the     *)
(* family's expressions tell apart, and one they do not.                   *)

Stamp(date, sep) ==
  [i \in 1..19 |-> CASE i \in {5, 8} -> date [] i = 11 -> sep [] i \in {14, 17} -> ":" [] OTHER -> "0"]
Broken(date, sep) == { [Stamp(date, sep) EXCEPT ![i] = "a"] : i \in {1, 8, 11, 14, 17, 19} }
Six == [i \in 1..6 |-> IF i = 1 THEN "." ELSE "0"]
Zone == <<"+", "0", "0", ":", "0">>
InQuotes(s) == <<"quote">> \o s

Families ==
  [broken |-> [heads |-> Broken("/", " ") \cup Broken("-", " ") \cup Broken("-", "T"),
               tail |-> {" "}, max |-> 2],
   slash |-> [heads |-> {Stamp("/", " "), Stamp("/", " ") \o <<".", "0">>, Stamp("/", " ") \o Six},
              tail |-> {".", "0", "Z", ":", " ", "[", "]"}, max |-> 4],
   dash |-> [heads |-> {Stamp("-", " "), InQuotes(Stamp("-", " ")), Stamp("-", " ") \o <<".", "0">>,
                        Stamp("-", " ") \o <<"Z">>},
             tail |-> {".", "0", "Z", "quote", " ", "a"}, max |-> 4],
   T |-> [heads |-> {Stamp("-", "T"), InQuotes(Stamp("-", "T")), Stamp("-", "T") \o Zone,
                     Stamp("-", "T") \o <<"Z">>, InQuotes(Stamp("-", "T")) \o <<".", "0", "Z">>},
          tail |-> {"0", "Z", "quote", " ", "a", "A"}, max |-> 4],
   lambda |-> [heads |-> {Stamp("-", "T") \o <<"Z", "\t">>,
                          InQuotes(Stamp("-", "T")) \o <<"Z", "quote", "\t">>},
               tail |-> {"0", "\t", "A", "a"}, max |-> 5],
   prefix |-> [heads |-> {<< >>}, tail |-> {"0", ":", "S", "-", " ", "["}, max |-> 4],
   needle |-> [heads |-> {<< >>}, tail |-> {"a", "t"}, max |-> 8]]

\* Needles and their anchors, repetitive ones.
Needles == { <<n, k>> : n \in {<<"a", "t">>, <<"a", "t", "a">>, <<"t", "a", "a">>}, k \in {1, 2} }

-----------------------------------------------------------------------------
(* Timestamps: every form once, the edges of the calendar and the clock,   *)
(* and what can follow.                                                    *)

Core(date, sep, y, mo, d, hh, mi, ss) ==
  [date |-> date, sep |-> sep, year |-> y, month |-> mo, day |-> d,
   hour |-> hh, minute |-> mi, second |-> ss]

Cores ==
  { Core("-", " ", 2024, 2, 29, 23, 59, 59), Core("/", " ", 2024, 2, 29, 23, 59, 59),
    Core("-", "T", 2023, 12, 31, 0, 0, 0), Core("MMDD", " ", 2024, 2, 29, 0, 0, 0),
    Core("/Jan/", ":", 2023, 12, 31, 0, 0, 0), Core("/Jan/", " ", 2023, 12, 31, 0, 0, 0),
    Core("Mon", " ", 2023, 12, 31, 0, 0, 0) }
BadCores ==
  { Core("-", " ", 2023, 2, 29, 0, 0, 0), Core("/", " ", 2023, 4, 31, 0, 0, 0),
    Core("-", " ", 2023, 13, 1, 0, 0, 0), Core("MMDD", " ", 2023, 0, 1, 0, 0, 0),
    Core("-", " ", 2023, 1, 0, 0, 0, 0), Core("-", " ", 2023, 1, 1, 24, 0, 0),
    Core("/", " ", 2023, 1, 1, 0, 60, 0), Core("-", " ", 2023, 1, 1, 0, 0, 60) }

Fractions == { <<".", "7">>, <<".", "7", "7", "7", "7", "7", "7", "7", "7", "7">>,
               <<".", "7", "7", "7">>, <<",", "7", "7", "7">>,
               <<"7", "7", "7">>, <<".", "-", "0", "0">> }
Offsets == { <<"+", "0", "2", ":", "3", "0">>, <<"-", "2", "4", ":", "6", "0">>,
             <<"+", "2", "5", ":", "0", "0">>,
             <<"-", "0", "2", "3", "0">>, <<" ", "-", "0", "2", "3", "0", " ">>,
             <<" ", "+", "2", "4", "6", "0", " ">> }
ZoneNames == { <<"U", "T", "C">>, <<"G", "M", "T">>, <<"C", "E", "S", "T">>, <<"W", "I", "T", "A">> }

Pieces == Fractions \cup Offsets \cup ZoneNames \cup { <<"Z">>, <<" ">>, <<"T">>, <<"]">> }

\* A wrong date or clock is refused whatever follows; the direct parsers, most
\* of the layouts and the longest of them are for two forms.
MaxPieces(core) ==
  CASE core \in BadCores -> 1
    [] core.sep = " " /\ core.date \in {"-", "/"} -> 3
    [] OTHER -> 2

-----------------------------------------------------------------------------
(* Words for the level table: every spelling in several cases and with     *)
(* digits, words a letter away from one or with its length, first and last *)
(* letter, and every word of one or two letters.                           *)

Upper(s) ==
  LET u[i \in 0..Len(s)] ==
        IF i = 0 THEN ""
        ELSE u[i - 1] \o (IF Occurs(Lower, Char(s, i))
                            THEN Char(UpperCase, PlaceIn(Lower, Char(s, i))) ELSE Char(s, i))
  IN  u[Len(s)]
Capital(s) == Upper(Char(s, 1)) \o SubSeq(s, 2, Len(s))
Inner(s, c) == Char(s, 1) \o c \o SubSeq(s, 3, Len(s))

Near(s) ==
  {s, Upper(s), Capital(s), s \o "2", Upper(s) \o "15", s \o "s", "x" \o s, s \o "2x",
   SubSeq(s, 1, Len(s) - 1), "_" \o s}
  \cup (IF Len(s) > 2 THEN {Inner(s, "q"), Inner(s, "e")} ELSE {})
Letters == {Char(Lower, i) : i \in 1..26}
Words ==
  UNION {Near(s) : s \in Keys} \cup {a \o b : <<a, b>> \in Letters \X Letters}
  \cup Letters \cup {"", "7", "informationally", "INFORMATIONAL2"}
  \cup DOMAIN V!Folded \cup DOMAIN V!WithoutDigits
=============================================================================
