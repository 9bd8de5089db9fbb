---------------------------- MODULE MachineWords ----------------------------
(***************************************************************************)
(* Where the library computes with machine words: eight bytes of text at a *)
(* time in one uint64 (hex.go; validGUID and lower in enrich.go; the line  *)
(* gates of lineparser.go), and an int64 built digit by digit (jsonInt).   *)
(*                                                                         *)
(* A word is its eight lanes, the lowest first; a sum carries from lane to *)
(* lane as the machine's does.  Bytes are numbers.  A call works its text  *)
(* off word by word or byte by byte, as the loops do: at is the number of  *)
(* bytes behind it, kept what the loop carries along.                      *)
(***************************************************************************)
EXTENDS Calls

CONSTANTS
  WordCalls,       \* the calls: [function, text], for "passes" also quoted and gates
  MaxInt,          \* the largest integer of jsonInt, 2^63 - 1 in the code
  FastDigits       \* how many digits it trusts not to overflow, 18 in the code

Bytes == 0..255
Zero == 48  Nine == 57  Upper == 65..90  LowerA == 97  LowerF == 102
Dash == 45  Plus == 43  Quote == 34
RuneSelf == 128

\* The lanes of a word, and the bytes of a line that the gates look at.
Lanes == 1..8
gateWindowStart == 4
gateWindowLen == 8
Window == gateWindowStart..gateWindowStart + gateWindowLen - 1

\* What the functions are called with: resourceGroupID cuts out 36 bytes for
\* validGUID, the identifier validators a multiple of eight for hexRun; a gate is
\* a byte of a line, in the window.
ASSUME WordCallsAssumption ==
  \A c \in WordCalls :
    /\ c.function \in {"hexRun", "validGUID", "lower", "passes", "jsonInt"}
    /\ c.text \in Seq(Bytes)
    /\ c.function = "hexRun" => Len(c.text) % 8 = 0
    /\ c.function = "validGUID" => Len(c.text) = 36
    /\ c.function = "passes" =>
         /\ c.quoted \in BOOLEAN
         /\ DOMAIN c.gates \subseteq Window
         /\ \A p \in DOMAIN c.gates : c.gates[p] \in Bytes \ {0}

-----------------------------------------------------------------------------
(* Words *)

Spread(b) == [l \in Lanes |-> b]
swarZero == Spread(Zero)
NoFlags  == Spread(0)
AllFlags == Spread(128)

\* What each lane of a sum hands on to the next.
Carries(v, w) ==
  LET carry[l \in 0..8] == IF l = 0 THEN 0 ELSE (v[l] + w[l] + carry[l - 1]) \div 256 IN carry
WordSum(v, w) == [l \in Lanes |-> (v[l] + w[l] + Carries(v, w)[l - 1]) % 256]

\* Bits differ or not, each for itself.
Differ(x, y, bit) == bit * ((((x \div bit) % 2) + ((y \div bit) % 2)) % 2)
ByteXor(x, y) ==
  Differ(x, y, 1) + Differ(x, y, 2) + Differ(x, y, 4) + Differ(x, y, 8)
  + Differ(x, y, 16) + Differ(x, y, 32) + Differ(x, y, 64) + Differ(x, y, 128)
WordXor(v, w) == [l \in Lanes |-> ByteXor(v[l], w[l])]

\* w & swarHigh: bit 7 of every lane, its flag; and two such words, combined.
Flags(w)            == [l \in Lanes |-> 128 * (w[l] \div 128)]
FlagsNot(v, w)      == [l \in Lanes |-> IF w[l] = 0 THEN v[l] ELSE 0]
EitherFlag(v, w)    == [l \in Lanes |-> IF v[l] = 0 THEN w[l] ELSE v[l]]
\* Shifted right by two they are the case bits, within their lanes.
CaseBits(flags)     == [l \in Lanes |-> flags[l] \div 4]
\* w | swarCase
WithCase(w) == [l \in Lanes |-> IF (w[l] \div 32) % 2 = 0 THEN w[l] + 32 ELSE w[l]]

le64(s, i) == [l \in Lanes |-> s[i + l]]
putLE64(b, i, w) == [p \in DOMAIN b |-> IF p - i \in Lanes THEN w[p - i] ELSE b[p]]

laneRange(v, lo, hi) ==
  FlagsNot(Flags(WordSum(v, Spread(128 - lo))), Flags(WordSum(v, Spread(127 - hi))))

HexLanes(w) == EitherFlag(laneRange(w, Zero, Nine), laneRange(WithCase(w), LowerA, LowerF))

hex8(w) == Flags(w) = NoFlags /\ HexLanes(w) = AllFlags

-----------------------------------------------------------------------------
(* Calls *)

WordsInit ==
  /\ call \in WordCalls
  /\ at = 0
  /\ kept = CASE call.function = "hexRun" -> TRUE
              [] call.function = "lower" -> << >>
              [] OTHER -> 0
  /\ answer = NoAnswer

(* hexRun: whether all is hex, and whether all is zero *)

\* Mutant: only the last word says whether all is zero.
AllZeroLast(before, w) == w = swarZero
AllZero(before, w) == before /\ w = swarZero

HexWord ==
  /\ Running("hexRun") /\ at < Len(text)
  /\ LET w == le64(text, at)
     IN  IF ~ hex8(w) THEN Returns(<<FALSE, FALSE>>)
         ELSE GoesOn(at + 8, AllZero(kept, w))
HexEnd == Running("hexRun") /\ at = Len(text) /\ Returns(<<TRUE, kept>>)

(* validGUID, 36 bytes: the dashes, turned into zeros for the word test *)

DashAt(ls) == [l \in Lanes |-> IF l \in ls THEN 29 ELSE 0]

LastWord == 28

validGUID ==
  /\ Running("validGUID")
  /\ Returns(/\ \A p \in {8, 13, 18, 23} : text[p + 1] = Dash
             /\ hex8(le64(text, 0))
             /\ hex8(WordXor(le64(text, 8), DashAt({1, 6})))
             /\ hex8(WordXor(le64(text, 16), DashAt({3, 8})))
             /\ hex8(le64(text, 24))
             /\ hex8(le64(text, LastWord)))

(* lower *)

HasRune(s) == \E i \in DOMAIN s : s[i] >= RuneSelf
LowerByte(c) == IF c \in Upper THEN c + 32 ELSE c

\* strings.ToLower, for a text that is not all ASCII (external).
ToLower(s) == <<"strings.ToLower", s>>

\* To the first byte that is not lowercase already; b is made there, with what
\* comes before it, and zeros.
LowerStart ==
  /\ Running("lower") /\ kept = << >>
  /\ LET stops == {i \in DOMAIN text : text[i] \in Upper \/ text[i] >= RuneSelf}
     IN  IF stops = {} THEN Returns(text)
         ELSE LET first == CHOOSE i \in stops : \A j \in stops : i <= j
              IN  GoesOn(first - 1, [i \in DOMAIN text |-> IF i < first THEN text[i] ELSE 0])

LowerWord ==
  /\ Running("lower") /\ kept # << >> /\ at + 8 <= Len(text)
  /\ LET w == le64(text, at)
     IN  IF Flags(w) # NoFlags THEN Returns(ToLower(text))
         ELSE GoesOn(at + 8, putLE64(kept, at, WordXor(w, CaseBits(laneRange(w, 65, 90)))))

TailByte(c) == LowerByte(c)

LowerTail ==
  /\ Running("lower") /\ kept # << >> /\ at + 8 > Len(text) /\ at < Len(text)
  /\ LET c == text[at + 1]
     IN  IF c >= RuneSelf THEN Returns(ToLower(text))
         ELSE GoesOn(at + 1, [kept EXCEPT ![at + 1] = TailByte(c)])
LowerEnd == Running("lower") /\ kept # << >> /\ at = Len(text) /\ Returns(kept)

(* lineGates and passes *)

paddedWord(s, off) == [l \in Lanes |-> IF off + l \in DOMAIN s THEN s[off + l] ELSE 0]

LongEnough(s) == Len(s) >= gateWindowStart + gateWindowLen + 1

Opens(s) == s # << >> /\ s[1] = Quote

\* The window of a line, or the one a byte later that a leading quote asks for.
lineGates(s) ==
  LET load(off) == IF LongEnough(s) THEN le64(s, off) ELSE paddedWord(s, off)
  IN  [plain  |-> load(gateWindowStart),
       quoted |-> load(IF Opens(s) THEN gateWindowStart + 1 ELSE gateWindowStart)]

\* gates: [position from 0 -> byte wanted], positions in the window: any other
\* is a panic at start.
Gated(gates, l) == l + gateWindowStart - 1 \in DOMAIN gates
Compiled(gates) ==
  [mask |-> [l \in Lanes |-> IF Gated(gates, l) THEN 255 ELSE 0],
   want |-> [l \in Lanes |-> IF Gated(gates, l) THEN gates[l + gateWindowStart - 1] ELSE 0]]
Masked(w, mask) == [l \in Lanes |-> IF mask[l] = 255 THEN w[l] ELSE 0]

passes ==
  /\ Running("passes")
  /\ LET w == IF call.quoted THEN lineGates(text).quoted ELSE lineGates(text).plain
         c == Compiled(call.gates)
     IN  Returns(Masked(w, c.mask) = c.want)

(* jsonInt *)

NotInt == <<0, FALSE>>
Digit(c) == (c - Zero) % 256
IsDigit(c) == Digit(c) <= 9

Short(n) == Len(n) <= FastDigits

\* The integer wraps around.
Wrapped(v) == ((v + MaxInt + 1) % (2 * (MaxInt + 1))) - (MaxInt + 1)

\* strconv.ParseInt (external): a sign, digits, and a range.
Values(ds) ==
  LET v[n \in 0..Len(ds)] == IF n = 0 THEN 0 ELSE v[n - 1] * 10 + Digit(ds[n]) IN v
ValueOf(ds) == Values(ds)[Len(ds)]
ParseInt(n) ==
  LET signed == n # << >> /\ n[1] \in {Dash, Plus}
      digits == IF signed THEN Tail(n) ELSE n
      v      == IF signed /\ n[1] = Dash THEN - ValueOf(digits) ELSE ValueOf(digits)
  IN  IF digits # << >> /\ (\A i \in DOMAIN digits : IsDigit(digits[i]))
           /\ v >= - MaxInt - 1 /\ v <= MaxInt
        THEN <<v, TRUE>> ELSE NotInt

\* The largest number of as many digits as are trusted is an integer.
ASSUME DigitsFitAssumption ==
  /\ MaxInt \in Nat /\ FastDigits \in Nat
  /\ ValueOf([i \in 1..FastDigits |-> Nine]) <= MaxInt

IntDigit ==
  /\ Running("jsonInt") /\ text # << >> /\ Short(text)
  /\ at < Len(text) /\ IsDigit(text[at + 1])
  /\ GoesOn(at + 1, Wrapped(kept * 10 + Digit(text[at + 1])))

IntEnd ==
  /\ Running("jsonInt")
  /\ CASE text = << >> -> Returns(NotInt)
       [] text # << >> /\ Short(text) /\ at = Len(text) -> Returns(<<kept, TRUE>>)
       [] text # << >> /\ ~(Short(text) /\ (at = Len(text) \/ IsDigit(text[at + 1]))) ->
            Returns(ParseInt(text))
       [] OTHER -> FALSE

WordsNext ==
  \/ HexWord \/ HexEnd \/ validGUID
  \/ LowerStart \/ LowerWord \/ LowerTail \/ LowerEnd
  \/ passes \/ IntDigit \/ IntEnd

Words == WordsInit /\ [][WordsNext]_vars

-----------------------------------------------------------------------------
(* Properties *)

IsHex(c) == c \in Zero..Nine \cup 65..70 \cup LowerA..LowerF

\* Eight bytes at a time are judged as one at a time would be, a byte beyond
\* ASCII next to a digit included: no carry leaves its lane.
HexRunIsPerByte ==
  Answered("hexRun") =>
    LET hex == \A i \in DOMAIN text : IsHex(text[i])
    IN  Said = <<hex, hex /\ \A i \in DOMAIN text : text[i] = Zero>>

\* A GUID is dashes where they belong and hex digits everywhere else; the five
\* words look at every byte.
GUIDIsPerByte ==
  Answered("validGUID") =>
    Said = (\A i \in DOMAIN text :
              IF i \in {9, 14, 19, 24} THEN text[i] = Dash ELSE IsHex(text[i]))

\* lower folds A-Z and nothing else, at every offset and length, and leaves any
\* text beyond ASCII to strings.ToLower as a whole.
LowerIsPerByte ==
  Answered("lower") =>
    Said = IF HasRune(text) THEN ToLower(text) ELSE [i \in DOMAIN text |-> LowerByte(text[i])]

\* A line passes an entry's gates if and only if it has the bytes at their
\* positions, one further on for a line that opens with the quote the entry
\* allows; a line too short to have one does not pass.
PassesIsPositions ==
  Answered("passes") =>
    LET shift == IF call.quoted /\ text # << >> /\ text[1] = Quote THEN 1 ELSE 0
    IN  Said = (\A p \in DOMAIN call.gates :
                  p + shift + 1 \in DOMAIN text /\ text[p + shift + 1] = call.gates[p])

\* A number is what strconv.ParseInt says of it: the shortcut for plain digits
\* neither overflows nor takes what is not an integer.
JsonIntIsParseInt == Answered("jsonInt") => Said = ParseInt(text)

\* Every call answers what a loop over single bytes, or the library, would.
WordsAreTheirBytes ==
  /\ HexRunIsPerByte /\ GUIDIsPerByte /\ LowerIsPerByte
  /\ PassesIsPositions /\ JsonIntIsParseInt
=============================================================================
