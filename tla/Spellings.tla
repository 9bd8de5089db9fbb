------------------------------ MODULE Spellings ------------------------------
(***************************************************************************)
(* The letters of the level table's spellings (severity.go), their hash    *)
(* and their initials.                                                     *)
(***************************************************************************)
EXTENDS Naturals, Sequences, FiniteSets

V == INSTANCE Severity

-----------------------------------------------------------------------------
(* Letters *)

Lower == "abcdefghijklmnopqrstuvwxyz"
UpperCase == "ABCDEFGHIJKLMNOPQRSTUVWXYZ"
DigitChars == {"0", "1", "2", "3", "4", "5", "6", "7", "8", "9"}

Char(s, i) == SubSeq(s, i, i)
PlaceIn(s, c) == CHOOSE i \in 1..Len(s) : Char(s, i) = c
Occurs(s, c) == \E i \in 1..Len(s) : Char(s, i) = c

\* ASCII; other characters stand for the byte of an underscore.
Code == [c \in {Char(Lower, i) : i \in 1..26} \cup {Char(UpperCase, i) : i \in 1..26} |->
           IF Occurs(Lower, c) THEN 96 + PlaceIn(Lower, c) ELSE 64 + PlaceIn(UpperCase, c)]
CodeOf(c) == IF c \in DOMAIN Code THEN Code[c] ELSE IF c \in DigitChars THEN 48 ELSE 95

LowerChar(c) == IF Occurs(UpperCase, c) THEN Char(Lower, PlaceIn(UpperCase, c)) ELSE c
Folded(s) ==
  LET f[i \in 0..Len(s)] == IF i = 0 THEN "" ELSE f[i - 1] \o LowerChar(Char(s, i))
  IN  f[Len(s)]

Trimmed(s) ==
  LET keeps == {i \in 1..Len(s) : Char(s, i) \notin DigitChars}
  IN  IF keeps = {} THEN "" ELSE SubSeq(s, 1, CHOOSE i \in keeps : \A j \in keeps : j <= i)

-----------------------------------------------------------------------------
(* The table *)

Keys == DOMAIN V!severityLUT
maxSeverityKey == Len("informational")
sevTableSize == 128

\* Mutant: the last letter is left out of the mix.
HashOfTwo(s) == (Len(s) * 3 + CodeOf(Char(s, 1)) * 43) % sevTableSize
sevHash(s) ==
  (Len(s) * 3 + CodeOf(Char(s, 1)) * 43 + CodeOf(Char(s, Len(s))) * 5) % sevTableSize

severityInitials == "tdinlwefcpavs"
=============================================================================
