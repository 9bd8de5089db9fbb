---------------------------- MODULE CallsProofs ----------------------------
(***************************************************************************)
(* The functions of MachineWords and TextScans compute what a plain loop,  *)
(* or the pattern they stand in for, would, for texts of any length.  Of   *)
(* each function, an invariant says what the loop knows of the text behind *)
(* it.                                                                     *)
(***************************************************************************)
EXTENDS MachineWords, TextScans, FiniteSetTheorems, SequenceTheorems, WellFoundedInduction, TLAPS

(* Induction over the naturals, and least numbers *)

\* A non-empty set of naturals has a least member.
LEMMA Least ==
  ASSUME NEW S \in SUBSET Nat, S # {}
  PROVE  \E x \in S : \A y \in S : x <= y
<1> DEFINE R == OpToRel(<, Nat)
<1>1. IsWellFoundedOn(R, Nat)
  BY NatLessThanWellFounded
<1>2. \E x \in S : \A y \in S : ~ (<<y, x>> \in R)
  <2> HIDE DEF R
  <2> QED BY <1>1, WFMin
<1>3. \A x, y \in Nat : x < y => <<x, y>> \in R
  BY Zenon DEF R, OpToRel
<1> HIDE DEF R
<1>4. PICK x \in S : \A y \in S : ~ (<<y, x>> \in R)
  BY <1>2
<1>5. ASSUME NEW y \in S PROVE x <= y
  <2>1. x \in Nat /\ y \in Nat
    OBVIOUS
  <2>2. ~ (y < x)
    BY <1>3, <1>4, <2>1
  <2>3. QED
    BY <2>1, <2>2
<1>6. QED
  BY <1>5

\* A set of naturals that has 0, and the successor of each member, has all.
LEMMA Inductive ==
  ASSUME NEW S, 0 \in S, \A n \in Nat : n \in S => n + 1 \in S
  PROVE  Nat \subseteq S
<1> DEFINE T == Nat \ S
<1>1. SUFFICES ASSUME T # {} PROVE FALSE
  OBVIOUS
<1>2. PICK x \in T : \A y \in T : x <= y
  BY <1>1, Least
<1>3. x \in Nat /\ x # 0 /\ x \notin S
  OBVIOUS
<1>4. x - 1 \in Nat /\ x - 1 + 1 = x
  BY <1>3
<1>5. x - 1 \notin S
  BY <1>3, <1>4
<1>6. x <= x - 1
  BY <1>2, <1>4, <1>5
<1>7. QED
  BY <1>3, <1>6

-----------------------------------------------------------------------------
(* Words *)

Words8 == [Lanes -> Bytes]

\* The recursion of the carries has a solution: the eight lanes one by one.
LEMMA CarriesDefined ==
  ASSUME NEW v, NEW w
  PROVE  Carries(v, w) =
           [l \in 0..8 |-> IF l = 0 THEN 0 ELSE (v[l] + w[l] + Carries(v, w)[l - 1]) \div 256]
<1> DEFINE c1 == (v[1] + w[1] + 0) \div 256
           c2 == (v[2] + w[2] + c1) \div 256
           c3 == (v[3] + w[3] + c2) \div 256
           c4 == (v[4] + w[4] + c3) \div 256
           c5 == (v[5] + w[5] + c4) \div 256
           c6 == (v[6] + w[6] + c5) \div 256
           c7 == (v[7] + w[7] + c6) \div 256
           c8 == (v[8] + w[8] + c7) \div 256
           c == [l \in 0..8 |-> CASE l = 0 -> 0  [] l = 1 -> c1 [] l = 2 -> c2 [] l = 3 -> c3
                                  [] l = 4 -> c4 [] l = 5 -> c5 [] l = 6 -> c6 [] l = 7 -> c7
                                  [] OTHER -> c8]
           Step(g, l) == IF l = 0 THEN 0 ELSE (v[l] + w[l] + g[l - 1]) \div 256
<1>1. /\ c[0] = 0 /\ c[1] = c1 /\ c[2] = c2 /\ c[3] = c3 /\ c[4] = c4
      /\ c[5] = c5 /\ c[6] = c6 /\ c[7] = c7 /\ c[8] = c8
  <2> HIDE DEF c1, c2, c3, c4, c5, c6, c7, c8
  <2> QED OBVIOUS
<1>2. ASSUME NEW l \in 0..8 PROVE c[l] = Step(c, l)
  <2>1. l \in {0, 1, 2, 3, 4, 5, 6, 7, 8}
    OBVIOUS
  <2>2. \A k \in {1, 2, 3, 4, 5, 6, 7, 8} : Step(c, k) = (v[k] + w[k] + c[k - 1]) \div 256
    <3> HIDE DEF c
    <3> QED OBVIOUS
  <2> HIDE DEF c, Step
  <2>3. Step(c, 0) = 0
    BY DEF Step
  <2>4. QED
    BY <1>1, <2>1, <2>2, <2>3
<1>3. c = [l \in 0..8 |-> Step(c, l)]
  <2> HIDE DEF Step, c1, c2, c3, c4, c5, c6, c7, c8
  <2>1. c = [l \in 0..8 |-> c[l]]
    OBVIOUS
  <2> HIDE DEF c
  <2>2. QED
    BY <1>2, <2>1
<1>4. \E g : g = [l \in 0..8 |-> Step(g, l)]
  <2> HIDE DEF c, Step
  <2> QED BY <1>3
<1>5. QED
  BY <1>4 DEF Carries

\* Where no lane comes to 256, none hands anything on: a sum is lane by lane.
LEMMA SumWithoutCarry ==
  ASSUME NEW v \in Words8, NEW w \in Words8, \A l \in Lanes : v[l] + w[l] \in 0..255
  PROVE  WordSum(v, w) = [l \in Lanes |-> v[l] + w[l]]
<1> DEFINE c == Carries(v, w)
<1>1. c[0] = 0 /\ \A l \in 1..8 : c[l] = (v[l] + w[l] + c[l - 1]) \div 256
  <2> HIDE DEF c
  <2>1. c = [l \in 0..8 |-> IF l = 0 THEN 0 ELSE (v[l] + w[l] + c[l - 1]) \div 256]
    BY CarriesDefined DEF c
  <2>2. QED
    BY <2>1
<1>2. ASSUME NEW l \in Lanes
      PROVE  (v[l] + w[l] + 0) \div 256 = 0 /\ (v[l] + w[l] + 0) % 256 = v[l] + w[l]
  <2>1. v[l] + w[l] \in 0..255
    OBVIOUS
  <2>2. QED
    BY ONLY <2>1, l \in Lanes, v \in Words8, w \in Words8 DEF Words8, Bytes, Lanes
<1> HIDE DEF c
<1>3. ASSUME NEW l \in 1..8, c[l - 1] = 0 PROVE c[l] = 0
  <2>1. (v[l] + w[l] + 0) \div 256 = 0
    BY <1>2 DEF Lanes
  <2>2. QED
    BY <1>1, <1>3, <2>1
<1>4. c[1] = 0 /\ c[2] = 0 /\ c[3] = 0 /\ c[4] = 0 /\ c[5] = 0 /\ c[6] = 0 /\ c[7] = 0
  <2>1. c[1] = 0
    BY <1>1, <1>3
  <2>2. c[2] = 0
    BY <2>1, <1>3
  <2>3. c[3] = 0
    BY <2>2, <1>3
  <2>4. c[4] = 0
    BY <2>3, <1>3
  <2>5. c[5] = 0
    BY <2>4, <1>3
  <2>6. c[6] = 0
    BY <2>5, <1>3
  <2>7. c[7] = 0
    BY <2>6, <1>3
  <2>8. QED
    BY <2>1, <2>2, <2>3, <2>4, <2>5, <2>6, <2>7
<1>5. \A l \in Lanes : c[l - 1] = 0
  BY <1>1, <1>4 DEF Lanes
<1>6. QED
  BY <1>2, <1>5 DEF WordSum, c

Ascii == {w \in Words8 : \A l \in Lanes : w[l] < 128}

\* In words of ASCII a range is told lane by lane.
LEMMA RangeOfLanes ==
  ASSUME NEW v \in Ascii, NEW lo \in 1..127, NEW hi \in lo..127
  PROVE  \A l \in Lanes : laneRange(v, lo, hi)[l] = IF v[l] \in lo..hi THEN 128 ELSE 0
<1>1. v \in Words8 /\ \A l \in Lanes : v[l] \in 0..127
  BY DEF Ascii, Words8, Bytes
<1>2. ASSUME NEW b \in 0..128
      PROVE  WordSum(v, Spread(b)) = [l \in Lanes |-> v[l] + b]
  <2>1. Spread(b) \in Words8 /\ \A l \in Lanes : Spread(b)[l] = b
    BY DEF Spread, Words8, Bytes
  <2>2. ASSUME NEW l \in Lanes PROVE v[l] + Spread(b)[l] \in 0..255
    <3>1. v[l] \in 0..127 /\ Spread(b)[l] = b
      BY <1>1, <2>1
    <3>2. \A x \in 0..127 : x + b \in 0..255
      OBVIOUS
    <3>3. QED
      BY <3>1, <3>2, Zenon
  <2>3. QED
    BY <1>1, <2>1, <2>2, SumWithoutCarry
<1>4. ASSUME NEW b \in 0..128
      PROVE  Flags(WordSum(v, Spread(b))) = [l \in Lanes |-> IF v[l] + b >= 128 THEN 128 ELSE 0]
  <2>1. ASSUME NEW l \in Lanes
        PROVE  128 * (WordSum(v, Spread(b))[l] \div 128) = IF v[l] + b >= 128 THEN 128 ELSE 0
    <3>1. WordSum(v, Spread(b))[l] = v[l] + b
      BY <1>2, Zenon
    <3>2. 128 * ((v[l] + b) \div 128) = IF v[l] + b >= 128 THEN 128 ELSE 0
      <4>1. v[l] \in 0..127
        BY <1>1
      <4>2. ASSUME NEW x \in 0..127 PROVE 128 * ((x + b) \div 128) = IF x + b >= 128 THEN 128 ELSE 0
        <5>1. (x + b) \div 128 = IF x + b >= 128 THEN 1 ELSE 0
          OBVIOUS
        <5>2. QED
          BY <5>1
      <4>3. QED
        BY ONLY <4>1, <4>2
    <3>3. QED
      BY <3>1, <3>2
  <2>2. QED
    BY <2>1 DEF Flags
<1>5. 128 - lo \in 0..128 /\ 127 - hi \in 0..128
  OBVIOUS
<1>6. ASSUME NEW l \in Lanes
      PROVE  /\ (v[l] + (128 - lo) >= 128) <=> (v[l] >= lo)
             /\ (v[l] + (127 - hi) >= 128) <=> (v[l] > hi)
             /\ v[l] \in lo..hi <=> (v[l] >= lo /\ ~ (v[l] > hi))
  BY <1>1
<1> DEFINE ge == Flags(WordSum(v, Spread(128 - lo)))
           gt == Flags(WordSum(v, Spread(127 - hi)))
<1>7. ge = [l \in Lanes |-> IF v[l] + (128 - lo) >= 128 THEN 128 ELSE 0]
  BY <1>4, <1>5
<1>8. gt = [l \in Lanes |-> IF v[l] + (127 - hi) >= 128 THEN 128 ELSE 0]
  BY <1>4, <1>5
<1> HIDE DEF ge, gt
<1>9. \A l \in Lanes : (IF gt[l] = 0 THEN ge[l] ELSE 0) = IF v[l] \in lo..hi THEN 128 ELSE 0
  BY <1>6, <1>7, <1>8
<1>10. QED
  BY <1>9 DEF laneRange, FlagsNot, ge, gt

\* Eight bytes are hex digits if and only if hex8 says so.
LEMMA HexIsPerByte ==
  ASSUME NEW w \in Words8
  PROVE  hex8(w) <=> \A l \in Lanes : IsHex(w[l])
<1>1. \A l \in Lanes : w[l] \in 0..255
  BY DEF Words8, Bytes
<1>2. (Flags(w) = NoFlags) <=> \A l \in Lanes : w[l] < 128
  <2>1. \A x \in 0..255 : (128 * (x \div 128) = 0) <=> (x < 128)
    OBVIOUS
  <2>2. (Flags(w) = NoFlags) <=> \A l \in Lanes : 128 * (w[l] \div 128) = 0
    BY DEF Flags, NoFlags, Spread
  <2>3. QED
    BY <1>1, <2>1, <2>2
<1>3. \A l \in Lanes : IsHex(w[l]) => w[l] < 128
  BY <1>1 DEF IsHex, Zero, Nine, LowerA, LowerF
<1>4. ASSUME \A l \in Lanes : w[l] < 128
      PROVE  (HexLanes(w) = AllFlags) <=> \A l \in Lanes : IsHex(w[l])
  <2>1. w \in Ascii
    BY <1>4 DEF Ascii
  <2>2. \A l \in Lanes : laneRange(w, Zero, Nine)[l] = IF w[l] \in Zero..Nine THEN 128 ELSE 0
    <3>1. Zero \in 1..127 /\ Nine \in Zero..127
      BY DEF Zero, Nine
    <3>2. QED
      BY <2>1, <3>1, RangeOfLanes
  <2>3. WithCase(w) \in Ascii
    <3>1. ASSUME NEW x \in 0..127
          PROVE  (IF (x \div 32) % 2 = 0 THEN x + 32 ELSE x) \in 0..127
      OBVIOUS
    <3>2. \A l \in Lanes : w[l] \in 0..127
      BY <1>1, <1>4
    <3>3. QED
      BY <3>1, <3>2 DEF WithCase, Ascii, Words8, Bytes
  <2>4. \A l \in Lanes : laneRange(WithCase(w), LowerA, LowerF)[l]
                             = IF WithCase(w)[l] \in LowerA..LowerF THEN 128 ELSE 0
    <3>1. LowerA \in 1..127 /\ LowerF \in LowerA..127
      BY DEF LowerA, LowerF
    <3>2. QED
      BY <2>3, <3>1, RangeOfLanes
  <2>5. \A x \in 0..127 :
          (IF (x \div 32) % 2 = 0 THEN x + 32 ELSE x) \in 97..102 <=> x \in 65..70 \cup 97..102
    OBVIOUS
  <2>6. ASSUME NEW l \in Lanes
        PROVE  (HexLanes(w)[l] = 128) <=> IsHex(w[l])
    <3>1. WithCase(w)[l] \in 97..102 <=> w[l] \in 65..70 \cup 97..102
      BY <1>1, <1>4, <2>5 DEF WithCase
    <3>2. HexLanes(w)[l] = IF w[l] \in Zero..Nine THEN 128
                           ELSE IF WithCase(w)[l] \in LowerA..LowerF THEN 128 ELSE 0
      BY <2>2, <2>4 DEF HexLanes, EitherFlag
    <3>3. QED
      BY <3>1, <3>2 DEF IsHex, Zero, Nine, LowerA, LowerF
  <2>7. (HexLanes(w) = AllFlags) <=> \A l \in Lanes : HexLanes(w)[l] = 128
    BY DEF HexLanes, EitherFlag, AllFlags, Spread
  <2>8. QED
    BY <2>6, <2>7
<1>5. QED
  BY <1>2, <1>3, <1>4 DEF hex8

(* Bits: a byte exclusive-or 0, 29 and 32 *)

\* Zero leaves a byte as it is.
LEMMA XorZero ==
  ASSUME NEW x \in 0..255
  PROVE  ByteXor(x, 0) = x
BY DEF ByteXor, Differ

\* The mask makes a dash a zero digit.
LEMMA XorDash ==
  ByteXor(Dash, 29) = Zero
BY DEF ByteXor, Differ, Dash, Zero

\* The case bit turns a capital into its small letter.
LEMMA XorCase ==
  ASSUME NEW x \in 65..90
  PROVE  ByteXor(x, 32) = x + 32
BY DEF ByteXor, Differ

-----------------------------------------------------------------------------
(* Words of a text *)

\* Eight bytes of a text are a word.
LEMMA WordOfText ==
  ASSUME NEW s \in Seq(Bytes), NEW i \in Nat, i + 8 <= Len(s)
  PROVE  /\ le64(s, i) \in Words8
         /\ \A l \in Lanes : le64(s, i)[l] = s[i + l] /\ i + l \in DOMAIN s
         /\ \A p \in i + 1..i + 8 : p - i \in Lanes /\ i + (p - i) = p
BY DEF le64, Words8, Lanes

\* hex8 of eight bytes of a text looks at each of them.
LEMMA HexOfText ==
  ASSUME NEW s \in Seq(Bytes), NEW i \in Nat, i + 8 <= Len(s)
  PROVE  hex8(le64(s, i)) <=> \A p \in i + 1..i + 8 : IsHex(s[p])
<1>1. hex8(le64(s, i)) <=> \A l \in Lanes : IsHex(s[i + l])
  BY WordOfText, HexIsPerByte
<1>2. \A l \in Lanes : i + l \in i + 1..i + 8
  BY DEF Lanes
<1>3. QED
  BY <1>1, <1>2, WordOfText

\* The text of every call is a sequence of bytes.
LEMMA TextTyped ==
  ASSUME call \in WordCalls
  PROVE  /\ text \in Seq(Bytes)
         /\ call.function = "hexRun" => Len(text) % 8 = 0
         /\ call.function = "validGUID" => Len(text) = 36
BY WordCallsAssumption DEF text

-----------------------------------------------------------------------------
(* hexRun *)

\* All before at is hex, and is known to be zero or not.
HexBehind ==
  call.function = "hexRun" =>
    /\ at \in 0..Len(text) /\ at % 8 = 0
    /\ \A i \in 1..at : IsHex(text[i])
    /\ kept = \A i \in 1..at : text[i] = Zero

\* hexRun takes a word that is all hex digits, or stops.
LEMMA HexWordStep ==
  ASSUME call \in WordCalls, HexBehind, HexWord
  PROVE  HexBehind' /\ HexRunIsPerByte'
<1> DEFINE w == le64(text, at)
           hex == \A i \in DOMAIN text : IsHex(text[i])
<1>1. /\ call.function = "hexRun" /\ text \in Seq(Bytes) /\ Len(text) % 8 = 0
      /\ at \in Nat /\ at < Len(text) /\ at % 8 = 0
  <2>1. call.function = "hexRun" /\ text \in Seq(Bytes) /\ Len(text) % 8 = 0
    BY TextTyped DEF HexWord, Running
  <2>2. at \in 0..Len(text) /\ at < Len(text) /\ at % 8 = 0
    BY <2>1 DEF HexWord, HexBehind
  <2>3. QED
    BY <2>1, <2>2
<1>2. at + 8 <= Len(text) /\ (at + 8) % 8 = 0
  BY <1>1
<1>3. hex8(w) <=> \A p \in at + 1..at + 8 : IsHex(text[p])
  BY <1>1, <1>2, HexOfText
<1>4. w \in Words8 /\ \A l \in Lanes : w[l] = text[at + l]
  BY <1>1, <1>2, WordOfText
<1>5. (w = swarZero) <=> \A p \in at + 1..at + 8 : text[p] = Zero
  <2>1. (w = swarZero) <=> \A l \in Lanes : text[at + l] = Zero
    BY <1>4 DEF swarZero, Spread, Words8
  <2>2. \A l \in Lanes : at + l \in at + 1..at + 8
    BY <1>1 DEF Lanes
  <2>3. \A p \in at + 1..at + 8 : p - at \in Lanes /\ at + (p - at) = p
    BY <1>1, <1>2, WordOfText
  <2>4. QED
    BY <2>1, <2>2, <2>3
<1>6. CASE ~ hex8(w)
  <2>1. hex = FALSE
    <3>1. PICK p \in at + 1..at + 8 : ~ IsHex(text[p])
      BY <1>3, <1>6
    <3>2. p \in DOMAIN text
      BY <1>1, <1>2
    <3>3. QED
      BY <3>1, <3>2
  <2>2. Returns(<<FALSE, FALSE>>)
    BY <1>6 DEF HexWord
  <2>3. call' = call /\ at' = at /\ kept' = kept /\ answer' = <<"returns", <<FALSE, FALSE>>>>
    BY <2>2 DEF Returns
  <2>4. HexBehind'
    BY <2>3 DEF HexBehind, text
  <2>5. Said' = <<FALSE, FALSE>>
    BY <2>3 DEF Said
  <2>6. text' = text
    BY <2>3 DEF text
  <2> HIDE DEF w
  <2>7. <<hex, hex /\ \A i \in DOMAIN text : text[i] = Zero>> = <<FALSE, FALSE>>
    BY <2>1
  <2>8. HexRunIsPerByte'
    BY <2>5, <2>6, <2>7 DEF HexRunIsPerByte
  <2>9. QED
    BY <2>4, <2>8
<1>7. CASE hex8(w)
  <2>1. GoesOn(at + 8, AllZero(kept, w))
    BY <1>7 DEF HexWord
  <2>2. call' = call /\ at' = at + 8 /\ kept' = AllZero(kept, w) /\ answer' = NoAnswer
    BY <2>1 DEF GoesOn, HexWord, Running
  <2> HIDE DEF w
  <2>3. \A p \in 1..at + 8 : p \in 1..at \/ p \in at + 1..at + 8
    BY <1>1
  <2>4. \A p \in 1..at + 8 : IsHex(text[p])
    BY <1>1, <1>3, <1>7, <2>3 DEF HexBehind
  <2>5. AllZero(kept, w) = \A p \in 1..at + 8 : text[p] = Zero
    <3>1. kept = \A p \in 1..at : text[p] = Zero
      BY <1>1 DEF HexBehind
    <3>2. \A p : p \in 1..at \/ p \in at + 1..at + 8 => p \in 1..at + 8
      BY <1>1
    <3>3. QED
      BY <1>5, <2>3, <3>1, <3>2, Zenon DEF AllZero
  <2>6. text' = text /\ at + 8 \in 0..Len(text)
    BY <1>1, <1>2, <2>2 DEF text
  <2>7. HexBehind'
    BY <1>2, <2>2, <2>4, <2>5, <2>6 DEF HexBehind
  <2>8. HexRunIsPerByte'
    BY <2>2 DEF HexRunIsPerByte, Answered
  <2>9. QED
    BY <2>7, <2>8
<1>8. QED
  BY <1>6, <1>7

\* hexRun has seen every word.
LEMMA HexEndStep ==
  ASSUME call \in WordCalls, HexBehind, HexEnd
  PROVE  HexBehind' /\ HexRunIsPerByte'
<1> DEFINE hex == \A i \in DOMAIN text : IsHex(text[i])
<1>1. call.function = "hexRun" /\ text \in Seq(Bytes) /\ at = Len(text)
  BY TextTyped DEF HexEnd, Running
<1>2. DOMAIN text = 1..at
  BY <1>1
<1>3. hex = TRUE /\ kept = \A i \in DOMAIN text : text[i] = Zero
  BY <1>1, <1>2 DEF HexBehind
<1>4. call' = call /\ at' = at /\ kept' = kept /\ answer' = <<"returns", <<TRUE, kept>>>>
  BY DEF HexEnd, Returns
<1>5. text' = text
  BY <1>4 DEF text
<1>6. HexBehind'
  BY <1>4 DEF HexBehind, text
<1>7. Said' = <<TRUE, kept>>
  BY <1>4 DEF Said
<1>8. <<hex, hex /\ \A i \in DOMAIN text : text[i] = Zero>> = <<TRUE, kept>>
  BY <1>3
<1>9. HexRunIsPerByte'
  BY <1>5, <1>7, <1>8 DEF HexRunIsPerByte
<1>10. QED
  BY <1>6, <1>9

-----------------------------------------------------------------------------
(* validGUID *)

\* Eight bytes with dashes among them, that are turned into zeros.
LEMMA HexAroundDashes ==
  ASSUME NEW s \in Seq(Bytes), NEW i \in Nat, i + 8 <= Len(s), NEW ls \in SUBSET Lanes,
         \A l \in ls : s[i + l] = Dash
  PROVE  hex8(WordXor(le64(s, i), DashAt(ls)))
           <=> \A p \in i + 1..i + 8 : p - i \in ls \/ IsHex(s[p])
<1> DEFINE w == WordXor(le64(s, i), DashAt(ls))
<1>1. /\ le64(s, i) \in Words8
      /\ \A l \in Lanes : le64(s, i)[l] = s[i + l] /\ i + l \in DOMAIN s
      /\ \A p \in i + 1..i + 8 : p - i \in Lanes /\ i + (p - i) = p
  BY WordOfText
<1>2. \A l \in Lanes : w[l] = IF l \in ls THEN Zero ELSE s[i + l]
  <2> SUFFICES ASSUME NEW l \in Lanes PROVE w[l] = IF l \in ls THEN Zero ELSE s[i + l]
    OBVIOUS
  <2>1. w[l] = ByteXor(s[i + l], IF l \in ls THEN 29 ELSE 0)
    BY <1>1 DEF WordXor, DashAt
  <2>2. s[i + l] \in 0..255
    BY <1>1 DEF Words8, Bytes
  <2>3. ByteXor(s[i + l], 0) = s[i + l]
    BY <2>2, XorZero
  <2> HIDE DEF w
  <2>4. CASE l \in ls
    <3>1. w[l] = ByteXor(Dash, 29)
      BY <2>1, <2>4
    <3>2. QED
      BY <2>4, <3>1, XorDash
  <2>5. CASE l \notin ls
    BY <2>1, <2>3, <2>5
  <2>6. QED
    BY <2>4, <2>5
<1>3. w \in Words8
  <2>1. w = [l \in Lanes |-> w[l]]
    BY DEF WordXor
  <2> HIDE DEF w
  <2>2. \A l \in Lanes : w[l] \in Bytes
    <3>1. Zero \in Bytes
      BY DEF Zero, Bytes
    <3>2. \A l \in Lanes : s[i + l] \in Bytes
      BY <1>1 DEF Words8
    <3>3. QED
      BY <1>2, <3>1, <3>2
  <2>3. QED
    BY <2>1, <2>2 DEF Words8
<1> HIDE DEF w
<1>4. hex8(w) <=> \A l \in Lanes : IsHex(w[l])
  BY <1>3, HexIsPerByte
<1>5. IsHex(Zero)
  BY DEF IsHex, Zero, Nine
<1>6. \A l \in Lanes : IsHex(w[l]) <=> (l \in ls \/ IsHex(s[i + l]))
  BY <1>2, <1>5
<1>7. \A l \in Lanes : i + l \in i + 1..i + 8 /\ (i + l) - i = l
  BY DEF Lanes
<1>8. QED
  BY <1>1, <1>4, <1>6, <1>7 DEF w

\* validGUID looks at every byte in one step.
LEMMA GUIDStep ==
  ASSUME call \in WordCalls, validGUID
  PROVE  GUIDIsPerByte'
<1>1. text \in Seq(Bytes) /\ Len(text) = 36
  BY TextTyped DEF validGUID, Running
<1> DEFINE dashes == \A p \in {8, 13, 18, 23} : text[p + 1] = Dash
           guid == \A i \in DOMAIN text :
                     IF i \in {9, 14, 19, 24} THEN text[i] = Dash ELSE IsHex(text[i])
           says == /\ dashes
                   /\ hex8(le64(text, 0))
                   /\ hex8(WordXor(le64(text, 8), DashAt({1, 6})))
                   /\ hex8(WordXor(le64(text, 16), DashAt({3, 8})))
                   /\ hex8(le64(text, 24))
                   /\ hex8(le64(text, 28))
<1>2. dashes <=> text[9] = Dash /\ text[14] = Dash /\ text[19] = Dash /\ text[24] = Dash
  <2>1. 8 + 1 = 9 /\ 13 + 1 = 14 /\ 18 + 1 = 19 /\ 23 + 1 = 24
    OBVIOUS
  <2>2. dashes <=> text[8 + 1] = Dash /\ text[13 + 1] = Dash
                   /\ text[18 + 1] = Dash /\ text[23 + 1] = Dash
    OBVIOUS
  <2>3. QED
    BY <2>1, <2>2
<1>3. DOMAIN text = 1..36
  BY <1>1
<1>4. \A p \in 1..36 : \/ p \in 0 + 1..0 + 8 \/ p \in 8 + 1..8 + 8 \/ p \in 16 + 1..16 + 8
                       \/ p \in 24 + 1..24 + 8 \/ p \in 28 + 1..28 + 8
  OBVIOUS
<1>5. /\ hex8(le64(text, 0)) <=> \A p \in 0 + 1..0 + 8 : IsHex(text[p])
      /\ hex8(le64(text, 24)) <=> \A p \in 24 + 1..24 + 8 : IsHex(text[p])
      /\ hex8(le64(text, 28)) <=> \A p \in 28 + 1..28 + 8 : IsHex(text[p])
  <2>1. ASSUME NEW i \in {0, 24, 28}
        PROVE  hex8(le64(text, i)) <=> \A p \in i + 1..i + 8 : IsHex(text[p])
    <3>1. i \in Nat /\ i + 8 <= Len(text)
      BY <1>1
    <3> HIDE DEF says, guid, dashes
    <3>2. QED
      BY <1>1, <3>1, HexOfText
  <2>2. 0 \in {0, 24, 28} /\ 24 \in {0, 24, 28} /\ 28 \in {0, 24, 28}
    OBVIOUS
  <2> QED
    BY <2>1, <2>2, Zenon
<1>6. ASSUME dashes
      PROVE  /\ hex8(WordXor(le64(text, 8), DashAt({1, 6})))
                  <=> \A p \in 8 + 1..8 + 8 : p - 8 \in {1, 6} \/ IsHex(text[p])
             /\ hex8(WordXor(le64(text, 16), DashAt({3, 8})))
                  <=> \A p \in 16 + 1..16 + 8 : p - 16 \in {3, 8} \/ IsHex(text[p])
  <2>1. 8 + 1 = 9 /\ 8 + 6 = 14 /\ 16 + 3 = 19 /\ 16 + 8 = 24
    OBVIOUS
  <2>2. \A l \in {1, 6} : text[8 + l] = Dash
    BY <1>2, <1>6, <2>1
  <2>3. \A l \in {3, 8} : text[16 + l] = Dash
    BY <1>2, <1>6, <2>1
  <2>4. {1, 6} \in SUBSET Lanes /\ {3, 8} \in SUBSET Lanes
    BY DEF Lanes
  <2>5. ASSUME NEW i \in Nat, i + 8 <= Len(text), NEW ls \in SUBSET Lanes,
               \A l \in ls : text[i + l] = Dash
        PROVE  hex8(WordXor(le64(text, i), DashAt(ls)))
                  <=> \A p \in i + 1..i + 8 : p - i \in ls \/ IsHex(text[p])
    BY ONLY <1>1, <2>5, HexAroundDashes
  <2>6. 8 + 8 <= Len(text) /\ 16 + 8 <= Len(text)
    BY <1>1
  <2>7. QED
    BY <2>2, <2>3, <2>4, <2>5, <2>6
<1>7. \A p \in 8 + 1..8 + 8 : p - 8 \in {1, 6} <=> p \in {9, 14, 19, 24}
  OBVIOUS
<1>8. \A p \in 16 + 1..16 + 8 : p - 16 \in {3, 8} <=> p \in {9, 14, 19, 24}
  OBVIOUS
<1>9. \A p \in (0 + 1..0 + 8) \cup (24 + 1..24 + 8) \cup (28 + 1..28 + 8) :
         p \in 1..36 /\ (p \notin {9, 14, 19, 24})
  OBVIOUS
<1>10. \A p \in (8 + 1..8 + 8) \cup (16 + 1..16 + 8) : p \in 1..36
  OBVIOUS
<1>11. {9, 14, 19, 24} \subseteq 1..36
  OBVIOUS
<1>12. guid => dashes
  BY <1>2, <1>3, <1>11
<1>13. ASSUME dashes PROVE says <=> guid
  <2> DEFINE D == {9, 14, 19, 24}
             S == 1..36  A == 0 + 1..0 + 8  B == 8 + 1..8 + 8  C == 16 + 1..16 + 8
             E == 24 + 1..24 + 8  F == 28 + 1..28 + 8
  <2>1. says <=> /\ \A p \in A : IsHex(text[p])
                 /\ \A p \in B : p \in D \/ IsHex(text[p])
                 /\ \A p \in C : p \in D \/ IsHex(text[p])
                 /\ \A p \in E : IsHex(text[p])
                 /\ \A p \in F : IsHex(text[p])
    BY <1>5, <1>6, <1>7, <1>8, <1>13
  <2>2. \A p \in D : text[p] = Dash
    BY <1>2, <1>13
  <2>3. guid <=> \A p \in S : p \in D \/ IsHex(text[p])
    BY <1>3, <2>2
  <2>4. \A p \in S : p \in A \/ p \in B \/ p \in C \/ p \in E \/ p \in F
    BY <1>4
  <2>5. \A p \in A \cup E \cup F : p \in S /\ p \notin D
    BY <1>9
  <2>6. \A p \in B \cup C : p \in S
    BY <1>10
  <2> HIDE DEF D, S, A, B, C, E, F, says, guid
  <2>7. QED
    BY <2>1, <2>3, <2>4, <2>5, <2>6
<1>14. says <=> guid
  BY <1>12, <1>13
<1>15. call' = call /\ answer' = <<"returns", says>>
  BY DEF validGUID, Returns, LastWord
<1>16. text' = text /\ Said' = says
  <2> HIDE DEF says
  <2>1. QED
    BY <1>15 DEF text, Said
<1>17. says = guid
  <2>1. says \in BOOLEAN /\ guid \in BOOLEAN
    OBVIOUS
  <2> HIDE DEF says, guid
  <2>2. QED
    BY <1>14, <2>1
<1>18. QED
  BY <1>16, <1>17 DEF GUIDIsPerByte

-----------------------------------------------------------------------------
(* lower *)

\* All before at is ASCII and lowercase in kept.
LowerBehind ==
  call.function = "lower" =>
    \/ kept = << >> /\ at = 0
    \/ /\ kept # << >> /\ at \in 0..Len(text)
       /\ DOMAIN kept = DOMAIN text /\ kept = [i \in DOMAIN kept |-> kept[i]]
       /\ \A i \in 1..at : text[i] < RuneSelf /\ kept[i] = LowerByte(text[i])

\* A word of ASCII exclusive-or its case bits is lowercase in every lane.
LEMMA LowerLanes ==
  ASSUME NEW w \in Ascii
  PROVE  \A l \in Lanes : WordXor(w, CaseBits(laneRange(w, 65, 90)))[l] = LowerByte(w[l])
<1> SUFFICES ASSUME NEW lo, NEW hi, lo = 65, hi = 90, NEW l \in Lanes
             PROVE  WordXor(w, CaseBits(laneRange(w, lo, hi)))[l] = LowerByte(w[l])
  OBVIOUS
<1>1. lo \in 1..127 /\ hi \in lo..127
  OBVIOUS
<1>2. laneRange(w, lo, hi)[l] = IF w[l] \in lo..hi THEN 128 ELSE 0
  BY ONLY w \in Ascii, l \in Lanes, <1>1, RangeOfLanes
<1>3. WordXor(w, CaseBits(laneRange(w, lo, hi)))[l]
        = ByteXor(w[l], laneRange(w, lo, hi)[l] \div 4)
  BY DEF WordXor, CaseBits
<1>4. w[l] \in 0..255
  BY DEF Ascii, Words8, Bytes
<1>5. CASE w[l] \in lo..hi
  <2>1. laneRange(w, lo, hi)[l] \div 4 = 32
    <3>1. 128 \div 4 = 32
      OBVIOUS
    <3>2. QED
      BY <1>2, <1>5, <3>1
  <2>2. w[l] \in 65..90
    BY <1>5
  <2>3. ByteXor(w[l], 32) = w[l] + 32
    BY <2>2, XorCase
  <2>4. LowerByte(w[l]) = w[l] + 32
    BY <2>2 DEF LowerByte, Upper
  <2>5. QED
    BY <1>3, <2>1, <2>3, <2>4
<1>6. CASE w[l] \notin lo..hi
  <2>1. laneRange(w, lo, hi)[l] \div 4 = 0
    <3>1. 0 \div 4 = 0
      OBVIOUS
    <3>2. QED
      BY <1>2, <1>6, <3>1
  <2>2. ByteXor(w[l], 0) = w[l]
    BY <1>4, XorZero
  <2>3. LowerByte(w[l]) = w[l]
    BY <1>6 DEF LowerByte, Upper
  <2>4. QED
    BY <1>3, <2>1, <2>2, <2>3
<1>7. QED
  BY <1>5, <1>6

\* A word has no flag if and only if it is ASCII.
LEMMA NoFlagIsAscii ==
  ASSUME NEW w \in Words8
  PROVE  (Flags(w) = NoFlags) <=> w \in Ascii
<1>1. (Flags(w) = NoFlags) <=> \A l \in Lanes : 128 * (w[l] \div 128) = 0
  BY DEF Flags, NoFlags, Spread
<1>2. ASSUME NEW l \in Lanes
      PROVE  (128 * (w[l] \div 128) = 0) <=> (w[l] < 128)
  <2>1. w[l] \in 0..255
    BY DEF Words8, Bytes
  <2>2. ASSUME NEW x \in 0..255 PROVE (128 * (x \div 128) = 0) <=> (x < 128)
    OBVIOUS
  <2>3. QED
    BY ONLY <2>1, <2>2
<1>3. QED
  BY <1>1, <1>2 DEF Ascii

\* lower finds a capital, or returns the text itself.
LEMMA LowerStartStep ==
  ASSUME call \in WordCalls, LowerBehind, LowerStart
  PROVE  LowerBehind' /\ LowerIsPerByte'
<1> DEFINE stops == {i \in DOMAIN text : text[i] \in Upper \/ text[i] >= RuneSelf}
<1>1. text \in Seq(Bytes)
  BY TextTyped
<1>2. CASE stops = {}
  <2>1. \A i \in DOMAIN text : text[i] < RuneSelf /\ LowerByte(text[i]) = text[i]
    <3>1. \A i \in DOMAIN text : text[i] \in Bytes
      BY <1>1
    <3>2. QED
      BY <1>2, <3>1 DEF LowerByte, Bytes, RuneSelf
  <2>2. ~ HasRune(text)
    <3>1. \A i \in DOMAIN text : text[i] \in Bytes
      BY <1>1
    <3>2. QED
      BY <1>2 DEF HasRune
  <2>3. text = [i \in DOMAIN text |-> LowerByte(text[i])]
    BY <1>1, <2>1
  <2>4. Returns(text)
    BY <1>2 DEF LowerStart
  <2>5. call' = call /\ at' = at /\ kept' = kept /\ Said' = text /\ text' = text
    BY <2>4 DEF Returns, Said, text
  <2>6. LowerBehind'
    BY <2>5 DEF LowerBehind
  <2>7. LowerIsPerByte'
    BY <2>2, <2>3, <2>5 DEF LowerIsPerByte
  <2>8. QED
    BY <2>6, <2>7
<1>3. CASE stops # {}
  <2>1. stops \in SUBSET Nat
    BY <1>1
  <2> DEFINE first == CHOOSE i \in stops : \A j \in stops : i <= j
             b == [i \in DOMAIN text |-> IF i < first THEN text[i] ELSE 0]
  <2>2. first \in stops /\ \A j \in stops : first <= j
    <3> HIDE DEF stops
    <3>1. \E i \in stops : \A j \in stops : i <= j
      BY <1>3, <2>1, Least
    <3>2. QED
      BY <3>1
  <2>3. GoesOn(first - 1, b)
    <3>1. /\ call.function = "lower" /\ kept = << >>
          /\ IF stops = {} THEN Returns(text) ELSE GoesOn(first - 1, b)
      BY DEF LowerStart, Running
    <3> HIDE DEF first, stops, b
    <3>2. QED
      BY <1>3, <3>1
  <2>4. call' = call /\ at' = first - 1 /\ kept' = b /\ answer' = NoAnswer /\ text' = text
    <3> HIDE DEF first, b
    <3>1. QED
      BY <2>3 DEF GoesOn, LowerStart, Running, text
  <2>5. first \in 1..Len(text) /\ DOMAIN text = 1..Len(text)
    BY <1>1, <2>2
  <2>6. ASSUME NEW i \in 1..first - 1
        PROVE  text[i] < RuneSelf /\ b[i] = LowerByte(text[i])
    <3>1. i \in DOMAIN text /\ i < first
      BY <2>5
    <3>2. i \notin stops
      <4>1. ASSUME i \in stops PROVE FALSE
        <5>1. first <= i
          BY <2>2, <4>1
        <5> HIDE DEF first, stops
        <5>2. QED
          BY <2>5, <3>1, <5>1
      <4>2. QED
        BY <4>1
    <3>3. text[i] \in Bytes
      BY <1>1, <3>1
    <3>4. text[i] < RuneSelf /\ LowerByte(text[i]) = text[i]
      BY <3>1, <3>2, <3>3 DEF LowerByte, Bytes, RuneSelf
    <3>5. b[i] = text[i]
      <4> HIDE DEF first
      <4>1. QED
        BY <3>1
    <3>6. QED
      BY <3>4, <3>5
  <2>7. b # << >> /\ DOMAIN b = DOMAIN text /\ b = [i \in DOMAIN b |-> b[i]]
    <3> HIDE DEF first
    <3>1. DOMAIN b = DOMAIN text /\ b = [i \in DOMAIN b |-> b[i]]
      OBVIOUS
    <3>2. 1 \in DOMAIN b
      BY <2>5, <3>1
    <3> HIDE DEF b
    <3>3. QED
      BY <3>1, <3>2
  <2> HIDE DEF b, first
  <2>8. first - 1 \in 0..Len(text)
    BY <2>5
  <2>9. LowerBehind'
    BY <2>4, <2>6, <2>7, <2>8 DEF LowerBehind
  <2>10. LowerIsPerByte'
    BY <2>4 DEF LowerIsPerByte, Answered
  <2>11. QED
    BY <2>9, <2>10
<1>4. QED
  BY <1>2, <1>3

\* lower folds a word.
LEMMA LowerWordStep ==
  ASSUME call \in WordCalls, LowerBehind, LowerWord
  PROVE  LowerBehind' /\ LowerIsPerByte'
<1> DEFINE w == le64(text, at)
           x == WordXor(w, CaseBits(laneRange(w, 65, 90)))
           b == putLE64(kept, at, x)
<1>1. /\ call.function = "lower" /\ answer = NoAnswer /\ kept # << >> /\ at + 8 <= Len(text)
      /\ IF Flags(w) # NoFlags THEN Returns(ToLower(text)) ELSE GoesOn(at + 8, b)
  BY DEF LowerWord, Running
<1>2. text \in Seq(Bytes)
  BY TextTyped
<1>3. /\ at \in 0..Len(text) /\ DOMAIN kept = DOMAIN text
      /\ \A i \in 1..at : text[i] < RuneSelf /\ kept[i] = LowerByte(text[i])
  BY <1>1 DEF LowerBehind
<1>4. at \in Nat
  BY <1>2, <1>3
<1>5. /\ w \in Words8 /\ \A l \in Lanes : w[l] = text[at + l] /\ at + l \in DOMAIN text
      /\ \A p \in at + 1..at + 8 : p - at \in Lanes /\ at + (p - at) = p
  BY <1>1, <1>2, <1>4, WordOfText
<1>6. (Flags(w) = NoFlags) <=> w \in Ascii
  BY <1>5, NoFlagIsAscii
<1> HIDE DEF w
<1>7. CASE Flags(w) # NoFlags
  <2>1. HasRune(text)
    <3>1. PICK l \in Lanes : ~ (w[l] < 128)
      BY <1>5, <1>6, <1>7 DEF Ascii
    <3>2. w[l] >= 128
      BY <1>5, <3>1 DEF Words8, Bytes
    <3>3. QED
      BY <1>5, <3>2 DEF HasRune, RuneSelf
  <2>2. Returns(ToLower(text))
    BY <1>1, <1>7
  <2>3. call' = call /\ at' = at /\ kept' = kept /\ Said' = ToLower(text) /\ text' = text
    BY <2>2 DEF Returns, Said, text
  <2>4. LowerBehind'
    BY <2>3 DEF LowerBehind
  <2>5. LowerIsPerByte'
    BY <2>1, <2>3 DEF LowerIsPerByte
  <2>6. QED
    BY <2>4, <2>5
<1>8. CASE Flags(w) = NoFlags
  <2>1. w \in Ascii /\ GoesOn(at + 8, b)
    BY <1>1, <1>6, <1>8
  <2>2. call' = call /\ at' = at + 8 /\ kept' = b /\ answer' = NoAnswer /\ text' = text
    BY <1>1, <2>1 DEF GoesOn, text
  <2>3. \A l \in Lanes : x[l] = LowerByte(w[l])
    BY <2>1, LowerLanes
  <2> HIDE DEF x
  <2>4. ASSUME NEW i \in 1..at + 8
        PROVE  text[i] < RuneSelf /\ b[i] = LowerByte(text[i])
    <3>1. i \in DOMAIN kept
      BY <1>1, <1>2, <1>3, <1>4
    <3>2. b[i] = IF i - at \in Lanes THEN x[i - at] ELSE kept[i]
      BY <3>1 DEF putLE64
    <3>3. CASE i <= at
      <4>1. i \in 1..at /\ i - at \notin Lanes
        BY <1>4, <3>3 DEF Lanes
      <4>2. QED
        BY <1>3, <3>2, <4>1
    <3>4. CASE ~ (i <= at)
      <4>1. i \in at + 1..at + 8
        BY <1>4, <3>4
      <4>2. i - at \in Lanes /\ at + (i - at) = i
        BY <1>5, <4>1
      <4>3. w[i - at] = text[i] /\ w[i - at] < RuneSelf
        BY <1>5, <2>1, <4>2 DEF Ascii, RuneSelf
      <4>4. b[i] = LowerByte(w[i - at])
        BY <2>3, <3>2, <4>2
      <4>5. QED
        BY <4>3, <4>4
    <3>5. QED
      BY <3>3, <3>4
  <2>5. DOMAIN b = DOMAIN text /\ b = [i \in DOMAIN b |-> b[i]] /\ b # << >>
    <3>1. DOMAIN b = DOMAIN text /\ b = [i \in DOMAIN b |-> b[i]]
      BY <1>3 DEF putLE64
    <3>2. 1 \in DOMAIN b
      BY <1>1, <1>2, <1>4, <3>1
    <3> HIDE DEF b
    <3>3. QED
      BY <3>1, <3>2
  <2> HIDE DEF b
  <2>6. at + 8 \in 0..Len(text)
    BY <1>1, <1>2, <1>4
  <2>7. LowerBehind'
    BY <2>2, <2>4, <2>5, <2>6 DEF LowerBehind
  <2>8. LowerIsPerByte'
    BY <2>2 DEF LowerIsPerByte, Answered
  <2>9. QED
    BY <2>7, <2>8
<1>9. QED
  BY <1>7, <1>8

\* lower folds a byte that is left over.
LEMMA LowerTailStep ==
  ASSUME call \in WordCalls, LowerBehind, LowerTail
  PROVE  LowerBehind' /\ LowerIsPerByte'
<1> DEFINE c == text[at + 1]
           b == [kept EXCEPT ![at + 1] = TailByte(c)]
<1>1. /\ call.function = "lower" /\ answer = NoAnswer /\ kept # << >> /\ at < Len(text)
      /\ IF c >= RuneSelf THEN Returns(ToLower(text)) ELSE GoesOn(at + 1, b)
  BY DEF LowerTail, Running
<1>2. text \in Seq(Bytes)
  BY TextTyped
<1>3. /\ at \in 0..Len(text) /\ DOMAIN kept = DOMAIN text
      /\ kept = [i \in DOMAIN kept |-> kept[i]]
      /\ \A i \in 1..at : text[i] < RuneSelf /\ kept[i] = LowerByte(text[i])
  BY <1>1 DEF LowerBehind
<1>4. at \in Nat /\ at + 1 \in DOMAIN text /\ at + 1 \in 0..Len(text)
  BY <1>1, <1>2, <1>3
<1>5. c \in Bytes
  BY <1>2, <1>4
<1> HIDE DEF c
<1>6. CASE c >= RuneSelf
  <2>1. HasRune(text)
    BY <1>4, <1>6 DEF HasRune, c
  <2>2. Returns(ToLower(text))
    BY <1>1, <1>6
  <2>3. call' = call /\ at' = at /\ kept' = kept /\ Said' = ToLower(text) /\ text' = text
    BY <2>2 DEF Returns, Said, text
  <2>4. LowerBehind'
    BY <2>3 DEF LowerBehind
  <2>5. LowerIsPerByte'
    BY <2>1, <2>3 DEF LowerIsPerByte
  <2>6. QED
    BY <2>4, <2>5
<1>7. CASE ~ (c >= RuneSelf)
  <2>1. call' = call /\ at' = at + 1 /\ kept' = b /\ answer' = NoAnswer /\ text' = text
    BY <1>1, <1>7 DEF GoesOn, text
  <2>2. b[at + 1] = LowerByte(c) /\ c < RuneSelf
    <3>1. at + 1 \in DOMAIN kept
      BY <1>3, <1>4
    <3>2. b[at + 1] = LowerByte(c)
      BY <3>1 DEF TailByte
    <3>3. c < RuneSelf
      BY <1>5, <1>7 DEF Bytes, RuneSelf
    <3>4. QED
      BY <3>2, <3>3
  <2>3. ASSUME NEW i \in 1..at PROVE b[i] = kept[i]
    <3>1. i \in DOMAIN kept /\ i # at + 1
      BY <1>1, <1>2, <1>3, <1>4
    <3>2. QED
      BY <3>1
  <2>4. ASSUME NEW i \in 1..at + 1
        PROVE  text[i] < RuneSelf /\ b[i] = LowerByte(text[i])
    <3>1. i \in 1..at \/ i = at + 1
      BY <1>4
    <3> HIDE DEF b
    <3>2. CASE i \in 1..at
      BY <1>3, <2>3, <3>2
    <3>3. CASE i = at + 1
      BY <2>2, <3>3 DEF c
    <3>4. QED
      BY <3>1, <3>2, <3>3
  <2>5. DOMAIN b = DOMAIN text /\ b = [i \in DOMAIN b |-> b[i]] /\ b # << >>
    <3>1. DOMAIN b = DOMAIN text /\ b = [i \in DOMAIN b |-> b[i]]
      BY <1>3
    <3> HIDE DEF b
    <3>2. QED
      BY <1>4, <3>1
  <2> HIDE DEF b
  <2>6. LowerBehind'
    BY <1>4, <2>1, <2>4, <2>5 DEF LowerBehind
  <2>7. LowerIsPerByte'
    BY <2>1 DEF LowerIsPerByte, Answered
  <2>8. QED
    BY <2>6, <2>7
<1>8. QED
  BY <1>6, <1>7

\* lower has folded the whole text.
LEMMA LowerEndStep ==
  ASSUME call \in WordCalls, LowerBehind, LowerEnd
  PROVE  LowerBehind' /\ LowerIsPerByte'
<1>1. /\ call.function = "lower" /\ kept # << >> /\ at = Len(text) /\ Returns(kept)
  BY DEF LowerEnd, Running
<1>2. text \in Seq(Bytes)
  BY TextTyped
<1>3. /\ DOMAIN kept = DOMAIN text /\ kept = [i \in DOMAIN kept |-> kept[i]]
      /\ \A i \in 1..at : text[i] < RuneSelf /\ kept[i] = LowerByte(text[i])
  BY <1>1 DEF LowerBehind
<1>4. DOMAIN text = 1..at
  BY <1>1, <1>2
<1>5. ~ HasRune(text)
  <2>1. \A i \in DOMAIN text : text[i] \in Bytes /\ text[i] < RuneSelf
    <3>1. \A i \in DOMAIN text : text[i] \in Bytes
      BY <1>2
    <3>2. QED
      BY <1>3, <1>4, <3>1
  <2>2. QED
    BY <2>1 DEF HasRune, Bytes, RuneSelf
<1>6. kept = [i \in DOMAIN text |-> LowerByte(text[i])]
  BY <1>3, <1>4
<1>7. call' = call /\ at' = at /\ kept' = kept /\ Said' = kept /\ text' = text
  BY <1>1 DEF Returns, Said, text
<1>8. LowerBehind'
  BY <1>7 DEF LowerBehind
<1>9. LowerIsPerByte'
  BY <1>5, <1>6, <1>7 DEF LowerIsPerByte
<1>10. QED
  BY <1>8, <1>9

-----------------------------------------------------------------------------
(* lineGates and passes *)

\* A long line's word is read where a short one's is padded, and is the same.
LEMMA LoadIsPadded ==
  ASSUME NEW s \in Seq(Bytes), LongEnough(s), NEW off \in {4, 5}
  PROVE  le64(s, off) = paddedWord(s, off)
<1>1. Len(s) \in Nat /\ Len(s) >= 13 /\ DOMAIN s = 1..Len(s)
  BY DEF LongEnough, gateWindowStart, gateWindowLen
<1>2. \A l \in Lanes : off + l \in DOMAIN s
  BY <1>1 DEF Lanes
<1>3. QED
  BY <1>2 DEF le64, paddedWord

\* The word of a line's gates: its window, moved by the quote it opens with.
LEMMA GateWord ==
  ASSUME NEW s \in Seq(Bytes), NEW shift,
         shift = IF s # << >> /\ s[1] = Quote THEN 1 ELSE 0
  PROVE  /\ lineGates(s).plain = paddedWord(s, 4)
         /\ lineGates(s).quoted = paddedWord(s, 4 + shift)
<1>1. gateWindowStart = 4 /\ gateWindowStart + 1 = 5
  BY DEF gateWindowStart
<1>2. Opens(s) => shift = 1 /\ 4 + shift = 5
  BY DEF Opens
<1>3. ~ Opens(s) => shift = 0 /\ 4 + shift = 4
  BY DEF Opens
<1> DEFINE load(off) == IF LongEnough(s) THEN le64(s, off) ELSE paddedWord(s, off)
<1>4. load(4) = paddedWord(s, 4) /\ load(5) = paddedWord(s, 5)
  <2>1. ASSUME NEW off \in {4, 5} PROVE load(off) = paddedWord(s, off)
    BY LoadIsPadded
  <2>2. 4 \in {4, 5} /\ 5 \in {4, 5}
    OBVIOUS
  <2> HIDE DEF load
  <2>3. QED
    BY ONLY <2>1, <2>2, Zenon
<1>5. /\ lineGates(s).plain = load(gateWindowStart)
      /\ lineGates(s).quoted
           = load(IF Opens(s) THEN gateWindowStart + 1 ELSE gateWindowStart)
  BY DEF lineGates
<1> HIDE DEF load
<1>6. QED
  BY <1>1, <1>2, <1>3, <1>4, <1>5

\* passes compares the positions of a line with those of the gate.
LEMMA PassesStep ==
  ASSUME call \in WordCalls, passes
  PROVE  PassesIsPositions'
<1> DEFINE gates == call.gates
           shift == IF call.quoted /\ text # << >> /\ text[1] = Quote THEN 1 ELSE 0
           w == IF call.quoted THEN lineGates(text).quoted ELSE lineGates(text).plain
           c == Compiled(gates)
           positions == \A p \in DOMAIN gates :
                          p + shift + 1 \in DOMAIN text /\ text[p + shift + 1] = gates[p]
<1>1. /\ text \in Seq(Bytes) /\ call.quoted \in BOOLEAN /\ DOMAIN gates \subseteq Window
      /\ \A p \in DOMAIN gates : gates[p] \in Bytes \ {0}
  <2>1. call.function = "passes"
    BY DEF passes, Running
  <2>2. QED
    BY <2>1, TextTyped, WordCallsAssumption
<1>2. w = paddedWord(text, 4 + shift)
  <2> DEFINE q == IF text # << >> /\ text[1] = Quote THEN 1 ELSE 0
  <2>1. /\ lineGates(text).plain = paddedWord(text, 4)
        /\ lineGates(text).quoted = paddedWord(text, 4 + q)
    BY <1>1, GateWord
  <2>2. CASE call.quoted
    BY <2>1, <2>2
  <2>3. CASE ~ call.quoted
    <3>1. shift = 0 /\ 4 + shift = 4
      BY <2>3
    <3>2. QED
      BY <2>1, <2>3, <3>1
  <2>4. QED
    BY <2>2, <2>3
<1>3. shift \in {0, 1}
  OBVIOUS
<1> HIDE DEF w, shift, gates
<1>4. \A l \in Lanes : w[l] = IF 4 + shift + l \in DOMAIN text THEN text[4 + shift + l] ELSE 0
  BY <1>2 DEF paddedWord
<1>5. (Masked(w, c.mask) = c.want)
        <=> \A l \in Lanes : Gated(gates, l) => w[l] = gates[l + 3]
  <2>1. /\ c.mask = [l \in Lanes |-> IF Gated(gates, l) THEN 255 ELSE 0]
        /\ c.want = [l \in Lanes |-> IF Gated(gates, l) THEN gates[l + 3] ELSE 0]
    <3>1. \A l \in Lanes : l + gateWindowStart - 1 = l + 3
      BY DEF gateWindowStart, Lanes
    <3>2. QED
      BY <3>1 DEF Compiled
  <2>2. Masked(w, c.mask) = [l \in Lanes |-> IF Gated(gates, l) THEN w[l] ELSE 0]
    BY <2>1 DEF Masked
  <2> HIDE DEF c
  <2>3. QED
    BY <2>1, <2>2
<1>6. \A l \in Lanes : Gated(gates, l) <=> l + 3 \in DOMAIN gates
  <2>1. \A l \in Lanes : l + gateWindowStart - 1 = l + 3
    BY DEF gateWindowStart, Lanes
  <2>2. QED
    BY <2>1 DEF Gated
<1>7. \A p \in Window : p - 3 \in Lanes /\ (p - 3) + 3 = p /\ 4 + shift + (p - 3) = p + shift + 1
  BY <1>3 DEF Window, gateWindowStart, gateWindowLen, Lanes
<1>8. (\A l \in Lanes : Gated(gates, l) => w[l] = gates[l + 3])
        <=> \A p \in DOMAIN gates : w[p - 3] = gates[p]
  <2>1. ASSUME \A l \in Lanes : Gated(gates, l) => w[l] = gates[l + 3], NEW p \in DOMAIN gates
        PROVE  w[p - 3] = gates[p]
    <3>1. p - 3 \in Lanes /\ (p - 3) + 3 = p
      BY <1>1, <1>7
    <3>2. Gated(gates, p - 3)
      BY <1>6, <3>1
    <3>3. QED
      BY <2>1, <3>1, <3>2
  <2>2. ASSUME \A p \in DOMAIN gates : w[p - 3] = gates[p], NEW l \in Lanes, Gated(gates, l)
        PROVE  w[l] = gates[l + 3]
    <3>1. l + 3 \in DOMAIN gates
      BY <1>6, <2>2
    <3>2. (l + 3) - 3 = l
      BY DEF Lanes
    <3>3. QED
      BY <2>2, <3>1, <3>2
  <2>3. QED
    BY <2>1, <2>2
<1>9. ASSUME NEW p \in DOMAIN gates
      PROVE  (w[p - 3] = gates[p])
               <=> (p + shift + 1 \in DOMAIN text /\ text[p + shift + 1] = gates[p])
  <2>1. p - 3 \in Lanes /\ 4 + shift + (p - 3) = p + shift + 1
    BY <1>1, <1>7
  <2>2. w[p - 3] = IF p + shift + 1 \in DOMAIN text THEN text[p + shift + 1] ELSE 0
    <3>1. w[p - 3] = IF 4 + shift + (p - 3) \in DOMAIN text
                     THEN text[4 + shift + (p - 3)] ELSE 0
      BY <1>4, <2>1
    <3>2. QED
      BY ONLY <2>1, <3>1
  <2>3. gates[p] # 0
    BY <1>1
  <2>4. QED
    BY <2>2, <2>3
<1>10. (Masked(w, c.mask) = c.want) <=> positions
  BY <1>5, <1>8, <1>9
<1>11. call' = call /\ answer' = <<"returns", Masked(w, c.mask) = c.want>>
  BY DEF passes, Returns, w, gates
<1>12. text' = text /\ Said' = (Masked(w, c.mask) = c.want)
  BY <1>11 DEF text, Said
<1>13. (Masked(w, c.mask) = c.want) = positions
  BY <1>10, Zenon
<1>14. Said' = positions
  BY <1>12, <1>13
<1>15. QED
  BY <1>11, <1>12, <1>14 DEF PassesIsPositions, shift, gates

-----------------------------------------------------------------------------
(* jsonInt *)

\* The recursion of the values has a solution, digit by digit.
LEMMA ValuesDefined ==
  ASSUME NEW ds, Len(ds) \in Nat
  PROVE  Values(ds) = [n \in 0..Len(ds) |->
                         IF n = 0 THEN 0 ELSE Values(ds)[n - 1] * 10 + Digit(ds[n])]
<1> DEFINE S == {m \in Nat : \E g : g = [n \in 0..m |->
                                           IF n = 0 THEN 0 ELSE g[n - 1] * 10 + Digit(ds[n])]}
<1>1. 0 \in S
  <2>1. [n \in 0..0 |-> 0]
          = [n \in 0..0 |-> IF n = 0 THEN 0 ELSE [k \in 0..0 |-> 0][n - 1] * 10 + Digit(ds[n])]
    OBVIOUS
  <2>2. QED
    BY <2>1
<1>2. ASSUME NEW m \in Nat, m \in S PROVE m + 1 \in S
  <2>1. PICK g : g = [n \in 0..m |-> IF n = 0 THEN 0 ELSE g[n - 1] * 10 + Digit(ds[n])]
    BY <1>2
  <2> DEFINE h == [n \in 0..m + 1 |-> IF n = m + 1 THEN g[m] * 10 + Digit(ds[m + 1]) ELSE g[n]]
  <2>2. ASSUME NEW n \in 0..m + 1
        PROVE  h[n] = IF n = 0 THEN 0 ELSE h[n - 1] * 10 + Digit(ds[n])
    <3>1. CASE n = m + 1
      <4>1. n - 1 = m /\ n # 0 /\ h[m] = g[m] /\ h[m + 1] = g[m] * 10 + Digit(ds[m + 1])
        BY <3>1
      <4> HIDE DEF h
      <4>2. QED
        BY <3>1, <4>1
    <3>2. CASE n # m + 1 /\ n # 0
      <4>1. n - 1 \in 0..m /\ n \in 0..m
        BY <3>2
      <4>2. h[n] = g[n] /\ h[n - 1] = g[n - 1]
        BY <4>1
      <4>3. g[n] = g[n - 1] * 10 + Digit(ds[n])
        BY <2>1, <3>2, <4>1
      <4> HIDE DEF h
      <4>4. QED
        BY <3>2, <4>2, <4>3
    <3>3. CASE n = 0
      <4>1. 0 \in 0..m /\ 0 # m + 1
        OBVIOUS
      <4>2. h[0] = g[0] /\ g[0] = 0
        BY <2>1, <4>1
      <4>3. QED
        BY <3>3, <4>2
    <3>4. QED
      BY <3>1, <3>2, <3>3
  <2>3. h = [n \in 0..m + 1 |-> h[n]]
    OBVIOUS
  <2> HIDE DEF h
  <2>4. h = [n \in 0..m + 1 |-> IF n = 0 THEN 0 ELSE h[n - 1] * 10 + Digit(ds[n])]
    BY <2>2, <2>3
  <2>5. QED
    BY <2>4
<1>3. Len(ds) \in S
  <2> HIDE DEF S
  <2>1. QED
    BY <1>1, <1>2, Inductive
<1>4. \E g : g = [n \in 0..Len(ds) |-> IF n = 0 THEN 0 ELSE g[n - 1] * 10 + Digit(ds[n])]
  BY <1>3
<1>5. QED
  BY <1>4 DEF Values

\* The value of a text, digit by digit.
LEMMA ValuesStep ==
  ASSUME NEW ds, Len(ds) \in Nat
  PROVE  /\ Values(ds)[0] = 0
         /\ \A n \in 1..Len(ds) : Values(ds)[n] = Values(ds)[n - 1] * 10 + Digit(ds[n])
<1> DEFINE v == Values(ds)
<1>1. v = [n \in 0..Len(ds) |-> IF n = 0 THEN 0 ELSE v[n - 1] * 10 + Digit(ds[n])]
  BY ValuesDefined
<1> HIDE DEF v
<1>2. v[0] = 0
  BY <1>1
<1>3. ASSUME NEW n \in 1..Len(ds) PROVE v[n] = v[n - 1] * 10 + Digit(ds[n])
  <2>1. n \in 0..Len(ds) /\ n # 0
    OBVIOUS
  <2>2. QED
    BY <1>1, <2>1
<1>4. QED
  BY <1>2, <1>3 DEF v

nines(m) == [i \in 1..m |-> Nine]

\* The largest text of so many digits.
LEMMA NinesTyped ==
  ASSUME NEW m \in Nat
  PROVE  /\ nines(m) \in Seq(Bytes) /\ Len(nines(m)) = m
         /\ \A i \in 1..m : nines(m)[i] = Nine /\ Digit(nines(m)[i]) = 9
<1>1. Nine \in Bytes /\ Digit(Nine) = 9
  BY DEF Nine, Bytes, Digit, Zero
<1>2. QED
  BY <1>1 DEF nines

\* Of digits no more than m the value so far is a natural, and that of nines the
\* largest.
LEMMA ValuesBelowNines ==
  ASSUME NEW m \in Nat, NEW ds \in Seq(Bytes), Len(ds) <= m
  PROVE  \A n \in 0..Len(ds) :
           (\A i \in 1..n : IsDigit(ds[i])) =>
             /\ Values(ds)[n] \in Nat /\ Values(nines(m))[n] \in Nat
             /\ Values(ds)[n] <= Values(nines(m))[n]
<1> DEFINE v == Values(ds)
           u == Values(nines(m))
           Below(n) == v[n] \in Nat /\ u[n] \in Nat /\ v[n] <= u[n]
           S == {n \in Nat : n <= Len(ds) /\ (\A i \in 1..n : IsDigit(ds[i])) => Below(n)}
<1>1. v[0] = 0 /\ \A n \in 1..Len(ds) : v[n] = v[n - 1] * 10 + Digit(ds[n])
  BY ValuesStep
<1>2. u[0] = 0 /\ \A n \in 1..m : u[n] = u[n - 1] * 10 + 9
  <2>1. u[0] = 0 /\ \A n \in 1..m : u[n] = u[n - 1] * 10 + Digit(nines(m)[n])
    BY NinesTyped, ValuesStep
  <2> HIDE DEF u
  <2>2. QED
    BY <2>1, NinesTyped
<1> HIDE DEF u, v
<1>3. 0 \in S
  BY <1>1, <1>2
<1>4. ASSUME NEW n \in Nat, n \in S PROVE n + 1 \in S
  <2> SUFFICES ASSUME n + 1 <= Len(ds), \A i \in 1..n + 1 : IsDigit(ds[i])
               PROVE  Below(n + 1)
    OBVIOUS
  <2>1. v[n] \in Nat /\ u[n] \in Nat /\ v[n] <= u[n]
    <3>1. n <= Len(ds) /\ \A i \in 1..n : IsDigit(ds[i])
      OBVIOUS
    <3>2. QED
      BY <1>4, <3>1
  <2>2. n + 1 \in 1..Len(ds) /\ n + 1 \in 1..m /\ (n + 1) - 1 = n
    OBVIOUS
  <2>3. v[n + 1] = v[n] * 10 + Digit(ds[n + 1])
    <3>1. v[n + 1] = v[(n + 1) - 1] * 10 + Digit(ds[n + 1])
      BY <1>1, <2>2
    <3>2. QED
      BY <2>2, <3>1
  <2>4. u[n + 1] = u[n] * 10 + 9
    <3>1. u[n + 1] = u[(n + 1) - 1] * 10 + 9
      BY <1>2, <2>2
    <3>2. QED
      BY <2>2, <3>1
  <2>5. Digit(ds[n + 1]) \in 0..9
    <3>1. IsDigit(ds[n + 1]) /\ ds[n + 1] \in Bytes
      BY <2>2
    <3>2. ds[n + 1] \in 0..255 /\ (ds[n + 1] - 48) % 256 <= 9
      BY <3>1 DEF IsDigit, Digit, Zero, Bytes
    <3>3. ASSUME NEW c \in 0..255, (c - 48) % 256 <= 9 PROVE (c - 48) % 256 \in 0..9
      BY ONLY <3>3
    <3>4. QED
      BY <3>2, <3>3 DEF Digit, Zero
  <2>6. ASSUME NEW a \in Nat, NEW b \in Nat, a <= b, NEW d \in 0..9
        PROVE  a * 10 + d \in Nat /\ b * 10 + 9 \in Nat /\ a * 10 + d <= b * 10 + 9
    BY ONLY <2>6
  <2>7. QED
    BY <2>1, <2>3, <2>4, <2>5, <2>6
<1>5. Nat \subseteq S
  <2> HIDE DEF S
  <2>1. QED
    BY <1>3, <1>4, Inductive
<1>6. \A n \in 0..Len(ds) : n \in Nat /\ n <= Len(ds)
  OBVIOUS
<1>7. QED
  BY <1>5, <1>6 DEF u, v

\* The value of nines grows with their number.
LEMMA NinesGrow ==
  ASSUME NEW m \in Nat, NEW n \in 0..m
  PROVE  Values(nines(m))[n] <= Values(nines(m))[m]
<1> DEFINE u == Values(nines(m))
           S == {k \in Nat : n + k <= m => u[n] <= u[n + k]}
<1>1. \A k \in 0..m : u[k] \in Nat
  <2>1. Len(nines(m)) = m /\ nines(m) \in Seq(Bytes) /\ Len(nines(m)) <= m
    BY NinesTyped
  <2>2. \A i \in 1..m : IsDigit(nines(m)[i])
    <3>1. 9 <= 9
      OBVIOUS
    <3>2. QED
      BY <3>1, NinesTyped DEF IsDigit
  <2>3. \A k \in 0..m : \A i \in 1..k : i \in 1..m
    OBVIOUS
  <2>4. QED
    BY <2>1, <2>2, <2>3, ValuesBelowNines
<1>2. \A k \in 1..m : u[k] = u[k - 1] * 10 + 9
  <2>1. \A k \in 1..m : u[k] = u[k - 1] * 10 + Digit(nines(m)[k])
    BY NinesTyped, ValuesStep
  <2> HIDE DEF u
  <2>2. QED
    BY <2>1, NinesTyped
<1> HIDE DEF u
<1>3. 0 \in S
  <2>1. u[n] \in Nat /\ n + 0 = n
    BY <1>1
  <2>2. QED
    BY <2>1
<1>4. ASSUME NEW k \in Nat, k \in S PROVE k + 1 \in S
  <2> SUFFICES ASSUME n + (k + 1) <= m PROVE u[n] <= u[n + (k + 1)]
    OBVIOUS
  <2>1. n + (k + 1) \in 1..m /\ (n + (k + 1)) - 1 = n + k /\ n + k \in 0..m /\ n + k <= m
    OBVIOUS
  <2>2. u[n + (k + 1)] = u[n + k] * 10 + 9
    <3>1. u[n + (k + 1)] = u[(n + (k + 1)) - 1] * 10 + 9
      BY <1>2, <2>1
    <3>2. QED
      BY <2>1, <3>1
  <2>3. u[n] \in Nat /\ u[n + k] \in Nat /\ u[n] <= u[n + k]
    BY <1>1, <1>4, <2>1
  <2>4. QED
    BY <2>2, <2>3
<1>5. m - n \in S
  <2>1. m - n \in Nat
    OBVIOUS
  <2> HIDE DEF S
  <2>2. QED
    BY <1>3, <1>4, <2>1, Inductive
<1>6. n + (m - n) = m
  OBVIOUS
<1>7. QED
  BY <1>5, <1>6 DEF u

\* Trusted digits make an integer, and none of the values on the way wraps around.
LEMMA TrustedDigitsFit ==
  ASSUME NEW ds \in Seq(Bytes), Short(ds), NEW n \in 0..Len(ds),
         \A i \in 1..n : IsDigit(ds[i])
  PROVE  Values(ds)[n] \in 0..MaxInt
<1>1. MaxInt \in Nat /\ FastDigits \in Nat /\ Len(ds) <= FastDigits /\ n \in 0..FastDigits
  BY DigitsFitAssumption DEF Short
<1>2. Values(nines(FastDigits))[FastDigits] <= MaxInt
  <2>1. ValueOf(nines(FastDigits)) <= MaxInt
    BY DigitsFitAssumption DEF nines
  <2>2. QED
    BY <1>1, <2>1, NinesTyped DEF ValueOf
<1>3. /\ Values(ds)[n] \in Nat /\ Values(nines(FastDigits))[n] \in Nat
      /\ Values(ds)[n] <= Values(nines(FastDigits))[n]
  BY <1>1, ValuesBelowNines
<1>4. Values(nines(FastDigits))[n] <= Values(nines(FastDigits))[FastDigits]
  BY <1>1, NinesGrow
<1>5. Values(nines(FastDigits))[FastDigits] \in Nat
  <2>1. /\ Len(nines(FastDigits)) = FastDigits /\ nines(FastDigits) \in Seq(Bytes)
        /\ \A i \in 1..FastDigits : IsDigit(nines(FastDigits)[i])
    <3>1. 9 <= 9
      OBVIOUS
    <3>2. QED
      BY <1>1, <3>1, NinesTyped DEF IsDigit
  <2>2. FastDigits \in 0..Len(nines(FastDigits)) /\ Len(nines(FastDigits)) <= FastDigits
    BY <1>1, <2>1
  <2>3. QED
    BY <1>1, <2>1, <2>2, ValuesBelowNines
<1>6. QED
  BY ONLY <1>1, <1>2, <1>3, <1>4, <1>5

\* A value in range does not wrap.
LEMMA WrappedInRange ==
  ASSUME NEW v \in 0..MaxInt
  PROVE  Wrapped(v) = v
<1>1. MaxInt \in Nat
  BY DigitsFitAssumption
<1>2. ASSUME NEW a \in Nat, NEW b \in Nat, a < b PROVE a % b = a
  BY ONLY <1>2
<1> DEFINE a == v + MaxInt + 1
           b == 2 * (MaxInt + 1)
<1>3. a \in Nat /\ b \in Nat /\ a < b
  BY <1>1
<1>4. a % b = a
  <2> HIDE DEF a, b
  <2>1. QED
    BY <1>2, <1>3
<1>5. Wrapped(v) = a - (MaxInt + 1)
  BY <1>4 DEF Wrapped
<1>6. QED
  BY <1>1, <1>5

\* The loop has seen nothing but digits, and holds their value.
IntBehind ==
  call.function = "jsonInt" =>
    /\ at \in 0..Len(text) /\ (at > 0 => Short(text))
    /\ \A i \in 1..at : IsDigit(text[i])
    /\ kept = Values(text)[at]

\* jsonInt adds a digit, whose value fits.
LEMMA IntDigitStep ==
  ASSUME call \in WordCalls, IntBehind, IntDigit
  PROVE  IntBehind' /\ JsonIntIsParseInt'
<1>1. /\ call.function = "jsonInt" /\ answer = NoAnswer /\ Short(text) /\ at < Len(text)
      /\ IsDigit(text[at + 1]) /\ GoesOn(at + 1, Wrapped(kept * 10 + Digit(text[at + 1])))
  BY DEF IntDigit, Running
<1>2. text \in Seq(Bytes) /\ Len(text) \in Nat
  BY TextTyped
<1>3. at \in 0..Len(text) /\ (\A i \in 1..at : IsDigit(text[i])) /\ kept = Values(text)[at]
  BY <1>1 DEF IntBehind
<1>4. at \in Nat /\ at + 1 \in 1..Len(text) /\ at + 1 \in 0..Len(text) /\ (at + 1) - 1 = at
  BY <1>1, <1>2, <1>3
<1>5. \A i \in 1..at + 1 : i \in 1..at \/ i = at + 1
  BY <1>4
<1>6. \A i \in 1..at + 1 : IsDigit(text[i])
  BY <1>1, <1>3, <1>5
<1>7. Values(text)[at + 1] = kept * 10 + Digit(text[at + 1])
  <2>1. Values(text)[at + 1] = Values(text)[(at + 1) - 1] * 10 + Digit(text[at + 1])
    BY <1>2, <1>4, ValuesStep
  <2>2. QED
    BY <1>3, <1>4, <2>1
<1>8. Values(text)[at + 1] \in 0..MaxInt
  BY <1>1, <1>2, <1>4, <1>6, TrustedDigitsFit
<1>9. Wrapped(Values(text)[at + 1]) = Values(text)[at + 1]
  BY <1>8, WrappedInRange
<1>10. /\ call' = call /\ text' = text /\ at' = at + 1 /\ answer' = NoAnswer
       /\ kept' = Values(text)[at + 1]
  BY <1>1, <1>7, <1>9 DEF GoesOn, text
<1>11. IntBehind'
  BY <1>1, <1>4, <1>6, <1>10 DEF IntBehind
<1>12. JsonIntIsParseInt'
  BY <1>10 DEF JsonIntIsParseInt, Answered
<1>13. QED
  BY <1>11, <1>12

\* What is all digits is read without a sign.
LEMMA ParseIntOfDigits ==
  ASSUME NEW n \in Seq(Bytes), n # << >>, \A i \in DOMAIN n : IsDigit(n[i]),
         ValueOf(n) \in 0..MaxInt
  PROVE  ParseInt(n) = <<ValueOf(n), TRUE>>
<1>1. 1 \in DOMAIN n /\ n[1] \in 0..255
  BY DEF Bytes
<1>2. IsDigit(n[1])
  BY <1>1
<1>3. n[1] \notin {Dash, Plus}
  BY <1>1, <1>2 DEF IsDigit, Digit, Zero, Dash, Plus
<1>4. MaxInt \in Nat
  BY DigitsFitAssumption
<1>5. ValueOf(n) >= - MaxInt - 1 /\ ValueOf(n) <= MaxInt
  BY <1>4
<1>6. QED
  BY <1>3, <1>5 DEF ParseInt

\* jsonInt answers with the digits' value, signed, or hands the text over.
LEMMA IntEndStep ==
  ASSUME call \in WordCalls, IntBehind, IntEnd
  PROVE  IntBehind' /\ JsonIntIsParseInt'
<1>1. call.function = "jsonInt"
  BY DEF IntEnd, Running
<1>2. text \in Seq(Bytes) /\ Len(text) \in Nat
  BY TextTyped
<1>3. \/ text = << >> /\ Returns(NotInt)
      \/ text # << >> /\ Short(text) /\ at = Len(text) /\ Returns(<<kept, TRUE>>)
      \/ Returns(ParseInt(text))
  BY DEF IntEnd
<1>4. ASSUME NEW v, Returns(v), v = ParseInt(text) PROVE IntBehind' /\ JsonIntIsParseInt'
  <2>1. call' = call /\ at' = at /\ kept' = kept /\ Said' = v /\ text' = text
    BY <1>4 DEF Returns, Said, text
  <2>2. IntBehind'
    BY <2>1 DEF IntBehind
  <2>3. JsonIntIsParseInt'
    BY <1>4, <2>1 DEF JsonIntIsParseInt
  <2>4. QED
    BY <2>2, <2>3
<1>5. CASE text = << >> /\ Returns(NotInt)
  <2>1. ParseInt(text) = NotInt
    BY <1>5 DEF ParseInt
  <2>2. QED
    BY <1>4, <1>5, <2>1
<1>6. CASE text # << >> /\ Short(text) /\ at = Len(text) /\ Returns(<<kept, TRUE>>)
  <2>1. (\A i \in 1..at : IsDigit(text[i])) /\ kept = Values(text)[at]
    BY <1>1 DEF IntBehind
  <2>2. \A i \in DOMAIN text : IsDigit(text[i])
    BY <1>2, <1>6, <2>1
  <2>3. kept = ValueOf(text)
    BY <1>6, <2>1 DEF ValueOf
  <2>4. ValueOf(text) \in 0..MaxInt
    <3>1. Len(text) \in 0..Len(text) /\ \A i \in 1..Len(text) : IsDigit(text[i])
      BY <1>2, <1>6, <2>1
    <3>2. QED
      BY <1>2, <1>6, <3>1, TrustedDigitsFit DEF ValueOf
  <2>5. ParseInt(text) = <<kept, TRUE>>
    BY <1>2, <1>6, <2>2, <2>3, <2>4, ParseIntOfDigits
  <2>6. QED
    BY <1>4, <1>6, <2>5
<1>7. CASE Returns(ParseInt(text))
  BY <1>4, <1>7
<1>8. QED
  BY <1>3, <1>5, <1>6, <1>7

-----------------------------------------------------------------------------
(* The specification *)

Behind == call \in WordCalls /\ HexBehind /\ LowerBehind /\ IntBehind

\* A function's step leaves what is said of the others.
LEMMA OthersUntouched ==
  ASSUME Behind, WordsNext
  PROVE  /\ call' = call
         /\ call.function # "hexRun" => HexBehind' /\ HexRunIsPerByte'
         /\ call.function # "validGUID" => GUIDIsPerByte'
         /\ call.function # "lower" => LowerBehind' /\ LowerIsPerByte'
         /\ call.function # "passes" => PassesIsPositions'
         /\ call.function # "jsonInt" => IntBehind' /\ JsonIntIsParseInt'
<1>1. call' = call
  <2>1. CASE HexWord
    BY <2>1 DEF HexWord, Returns, GoesOn
  <2>2. CASE HexEnd
    BY <2>2 DEF HexEnd, Returns
  <2>3. CASE validGUID
    BY <2>3 DEF validGUID, Returns
  <2>4. CASE LowerStart
    BY <2>4 DEF LowerStart, Returns, GoesOn
  <2>5. CASE LowerWord
    BY <2>5 DEF LowerWord, Returns, GoesOn
  <2>6. CASE LowerTail
    BY <2>6 DEF LowerTail, Returns, GoesOn
  <2>7. CASE LowerEnd
    BY <2>7 DEF LowerEnd, Returns
  <2>8. CASE passes
    BY <2>8 DEF passes, Returns
  <2>9. CASE IntDigit
    BY <2>9 DEF IntDigit, GoesOn
  <2>10. CASE IntEnd
    BY <2>10 DEF IntEnd, Returns
  <2>11. QED
    BY <2>1, <2>2, <2>3, <2>4, <2>5, <2>6, <2>7, <2>8, <2>9, <2>10 DEF WordsNext
<1>2. QED
  BY <1>1 DEF HexBehind, LowerBehind, IntBehind, HexRunIsPerByte, GUIDIsPerByte,
              LowerIsPerByte, PassesIsPositions, JsonIntIsParseInt, Answered

\* Every step keeps what each loop knows, and every answer right.
LEMMA WordsStep ==
  ASSUME Behind, WordsAreTheirBytes, [WordsNext]_vars
  PROVE  Behind' /\ WordsAreTheirBytes'
<1>1. CASE WordsNext
  <2>1. /\ call' = call
        /\ call.function # "hexRun" => HexBehind' /\ HexRunIsPerByte'
        /\ call.function # "validGUID" => GUIDIsPerByte'
        /\ call.function # "lower" => LowerBehind' /\ LowerIsPerByte'
        /\ call.function # "passes" => PassesIsPositions'
        /\ call.function # "jsonInt" => IntBehind' /\ JsonIntIsParseInt'
    BY <1>1, OthersUntouched
  <2>2. call \in WordCalls /\ HexBehind /\ LowerBehind /\ IntBehind
    BY DEF Behind
  <2>3. CASE HexWord \/ HexEnd
    <3>1. call.function = "hexRun"
      BY <2>3 DEF HexWord, HexEnd, Running
    <3>2. HexBehind' /\ HexRunIsPerByte'
      BY <2>2, <2>3, HexWordStep, HexEndStep
    <3>3. QED
      BY <2>1, <2>2, <3>1, <3>2 DEF Behind, WordsAreTheirBytes
  <2>4. CASE validGUID
    <3>1. call.function = "validGUID"
      BY <2>4 DEF validGUID, Running
    <3>2. GUIDIsPerByte'
      BY <2>2, <2>4, GUIDStep
    <3>3. QED
      BY <2>1, <2>2, <3>1, <3>2 DEF Behind, WordsAreTheirBytes
  <2>5. CASE LowerStart \/ LowerWord \/ LowerTail \/ LowerEnd
    <3>1. call.function = "lower"
      BY <2>5 DEF LowerStart, LowerWord, LowerTail, LowerEnd, Running
    <3>2. LowerBehind' /\ LowerIsPerByte'
      BY <2>2, <2>5, LowerStartStep, LowerWordStep, LowerTailStep, LowerEndStep
    <3>3. QED
      BY <2>1, <2>2, <3>1, <3>2 DEF Behind, WordsAreTheirBytes
  <2>6. CASE passes
    <3>1. call.function = "passes"
      BY <2>6 DEF passes, Running
    <3>2. PassesIsPositions'
      BY <2>2, <2>6, PassesStep
    <3>3. QED
      BY <2>1, <2>2, <3>1, <3>2 DEF Behind, WordsAreTheirBytes
  <2>7. CASE IntDigit \/ IntEnd
    <3>1. call.function = "jsonInt"
      BY <2>7 DEF IntDigit, IntEnd, Running
    <3>2. IntBehind' /\ JsonIntIsParseInt'
      BY <2>2, <2>7, IntDigitStep, IntEndStep
    <3>3. QED
      BY <2>1, <2>2, <3>1, <3>2 DEF Behind, WordsAreTheirBytes
  <2>8. QED
    BY <1>1, <2>3, <2>4, <2>5, <2>6, <2>7 DEF WordsNext
<1>2. CASE UNCHANGED vars
  BY <1>2 DEF vars, Behind, HexBehind, LowerBehind, IntBehind, WordsAreTheirBytes,
              HexRunIsPerByte, GUIDIsPerByte, LowerIsPerByte, PassesIsPositions,
              JsonIntIsParseInt, Answered, Said, text
<1>3. QED
  BY <1>1, <1>2

\* A call has not looked at anything.
LEMMA WordsStart ==
  ASSUME WordsInit
  PROVE  Behind /\ WordsAreTheirBytes
<1>1. call \in WordCalls /\ at = 0 /\ answer = NoAnswer
  BY DEF WordsInit
<1>2. text \in Seq(Bytes) /\ Len(text) \in Nat
  BY <1>1, TextTyped
<1>3. 0 \in 0..Len(text) /\ 0 % 8 = 0 /\ \A i \in 1..0 : FALSE
  BY <1>2
<1>4. HexBehind
  <2>1. call.function = "hexRun" => kept = TRUE
    BY DEF WordsInit
  <2>2. (\A i \in 1..0 : text[i] = Zero) = TRUE
    BY <1>3
  <2>3. QED
    BY <1>1, <1>3, <2>1, <2>2 DEF HexBehind
<1>5. LowerBehind
  BY <1>1 DEF WordsInit, LowerBehind
<1>6. IntBehind
  <2>1. call.function = "jsonInt" => kept = 0
    BY DEF WordsInit
  <2>2. Values(text)[0] = 0
    BY <1>2, ValuesStep
  <2>3. QED
    BY <1>1, <1>3, <2>1, <2>2 DEF IntBehind
<1>7. WordsAreTheirBytes
  BY <1>1 DEF WordsAreTheirBytes, HexRunIsPerByte, GUIDIsPerByte, LowerIsPerByte,
              PassesIsPositions, JsonIntIsParseInt, Answered
<1>8. QED
  BY <1>1, <1>4, <1>5, <1>6, <1>7 DEF Behind

\* Whatever the text, hexRun, validGUID, lower, the line gates and jsonInt answer
\* what one byte after the other would: no carry or case bit leaves its lane, every
\* byte is looked at, and no number trusted to fit overflows.
THEOREM WordsExact == Words => []WordsAreTheirBytes
<1>1. WordsInit => Behind /\ WordsAreTheirBytes
  BY WordsStart
<1>2. Behind /\ WordsAreTheirBytes /\ [WordsNext]_vars => Behind' /\ WordsAreTheirBytes'
  BY WordsStep
<1>3. QED
  BY <1>1, <1>2, PTL DEF Words

-----------------------------------------------------------------------------
(* removeANSICodes: the length of a sequence *)

\* Min of a non-empty set of naturals is its least member.
LEMMA MinOfNaturals ==
  ASSUME NEW S \in SUBSET Nat, S # {}
  PROVE  Min(S) \in S /\ \A y \in S : Min(S) <= y
BY Least DEF Min

\* The digit groups of a colour sequence, from i to their end at n, in a text with
\* digits at D, semicolons at C and ends at M.
Grouped(D, C, M, i, n) ==
  /\ i < n /\ i \in D /\ n - 1 \in D /\ n \in M
  /\ \A k \in i..n - 1 : k \in D \/ k \in C
  /\ \A k \in i..n - 2 : ~ (k \in C /\ k + 1 \in C)

\* Groups end at the first "m" only.
LEMMA GroupsEndOnce ==
  ASSUME NEW D \in SUBSET Nat, NEW C \in SUBSET Nat, NEW M \in SUBSET Nat,
         \A k \in M : k \notin D /\ k \notin C,
         NEW i \in Nat, NEW n \in Nat, NEW m \in Nat,
         Grouped(D, C, M, i, n), Grouped(D, C, M, i, m)
  PROVE  n = m
BY DEF Grouped

\* The groups from i: digits to a stop, and there they end or go on.
LEMMA GroupByGroup ==
  ASSUME NEW D \in SUBSET Nat, NEW C \in SUBSET Nat, NEW M \in SUBSET Nat,
         \A k \in M : k \notin D /\ k \notin C,  \A k \in C : k \notin D,
         NEW i \in Nat, NEW stop \in Nat, i <= stop,
         \A k \in i..stop - 1 : k \in D, stop \notin D,
         NEW n \in Nat
  PROVE  Grouped(D, C, M, i, n)
           <=> /\ i < stop
               /\ \/ stop \in M /\ n = stop
                  \/ stop \in C /\ Grouped(D, C, M, stop + 1, n)
<1>1. ASSUME Grouped(D, C, M, i, n)
      PROVE  i < stop /\ ((stop \in M /\ n = stop) \/ (stop \in C /\ Grouped(D, C, M, stop + 1, n)))
  <2>1. /\ i < n /\ i \in D /\ n - 1 \in D /\ n \in M
        /\ \A k \in i..n - 1 : k \in D \/ k \in C
        /\ \A k \in i..n - 2 : ~ (k \in C /\ k + 1 \in C)
    BY <1>1 DEF Grouped
  <2>2. i < stop
    BY <2>1
  <2>3. stop <= n
    <3>1. ASSUME n < stop PROVE FALSE
      <4>1. n \in i..stop - 1
        BY <2>1, <3>1
      <4>2. QED
        BY <2>1, <4>1
    <3>2. QED
      BY <3>1
  <2>4. ASSUME stop # n PROVE stop \in C /\ Grouped(D, C, M, stop + 1, n)
    <3>1. stop \in i..n - 1
      BY <2>3, <2>4
    <3>2. stop \in C
      BY <2>1, <3>1
    <3>3. stop # n - 1
      BY <2>1, <3>2
    <3>4. stop \in i..n - 2 /\ stop + 1 \in i..n - 1 /\ stop + 1 < n
      BY <3>1, <3>3
    <3>5. stop + 1 \in D
      BY <2>1, <3>2, <3>4
    <3>6. \A k \in stop + 1..n - 1 : k \in i..n - 1
      BY <3>1
    <3>7. \A k \in stop + 1..n - 2 : k \in i..n - 2
      BY <3>1
    <3>8. QED
      BY <2>1, <3>2, <3>4, <3>5, <3>6, <3>7 DEF Grouped
  <2>5. CASE stop = n
    BY <2>1, <2>2, <2>5
  <2>6. CASE stop # n
    BY <2>2, <2>4, <2>6
  <2>7. QED
    BY <2>5, <2>6
<1>2. ASSUME i < stop, stop \in M, n = stop
      PROVE  Grouped(D, C, M, i, n)
  <2>1. i \in i..stop - 1 /\ stop - 1 \in i..stop - 1
    BY <1>2
  <2>2. \A k \in i..stop - 2 : k \in i..stop - 1
    OBVIOUS
  <2>3. QED
    BY <1>2, <2>1, <2>2 DEF Grouped
<1>3. ASSUME i < stop, stop \in C, Grouped(D, C, M, stop + 1, n)
      PROVE  Grouped(D, C, M, i, n)
  <2>1. /\ stop + 1 < n /\ stop + 1 \in D /\ n - 1 \in D /\ n \in M
        /\ \A k \in stop + 1..n - 1 : k \in D \/ k \in C
        /\ \A k \in stop + 1..n - 2 : ~ (k \in C /\ k + 1 \in C)
    BY <1>3 DEF Grouped
  <2>2. i < n /\ i \in D
    BY <1>3, <2>1
  <2>3. ASSUME NEW k \in i..n - 1 PROVE k \in D \/ k \in C
    <3>1. k \in i..stop - 1 \/ k = stop \/ k \in stop + 1..n - 1
      OBVIOUS
    <3>2. QED
      BY <1>3, <2>1, <3>1
  <2>4. ASSUME NEW k \in i..n - 2 PROVE ~ (k \in C /\ k + 1 \in C)
    <3>1. k \in i..stop - 1 \/ k = stop \/ k \in stop + 1..n - 2
      OBVIOUS
    <3>2. QED
      BY <2>1, <3>1
  <2>5. QED
    BY <2>1, <2>2, <2>3, <2>4 DEF Grouped
<1>4. QED
  BY <1>1, <1>2, <1>3

\* DigitsEnd is where a run of digits ends: just behind them, before none.
LEMMA DigitsEndAt ==
  ASSUME NEW s \in Seq(STRING), NEW i \in 1..Len(s) + 1
  PROVE  /\ DigitsEnd(s, i) \in i..Len(s) + 1
         /\ \A k \in i..DigitsEnd(s, i) - 1 : s[k] = "digit"
         /\ DigitsEnd(s, i) = Len(s) + 1 \/ s[DigitsEnd(s, i)] # "digit"
<1> DEFINE S == {j \in i..Len(s) + 1 : j = Len(s) + 1 \/ s[j] # "digit"}
<1>1. Len(s) \in Nat
  OBVIOUS
<1>2. S \in SUBSET Nat /\ Len(s) + 1 \in S
  BY <1>1
<1>3. PICK j \in S : \A k \in S : j <= k
  BY <1>2, Least
<1>4. j \in i..Len(s) + 1 /\ (j = Len(s) + 1 \/ s[j] # "digit")
  OBVIOUS
<1>5. ASSUME NEW k \in i..j - 1 PROVE s[k] = "digit"
  <2>1. k \in i..Len(s) + 1 /\ ~ (j <= k) /\ k # Len(s) + 1
    BY <1>1, <1>4
  <2>2. k \notin S
    BY <1>3, <2>1
  <2>3. QED
    BY <2>1, <2>2
<1> HIDE DEF S
<1>6. QED
  BY <1>4, <1>5 DEF DigitsEnd


\* Where a text has digits, semicolons and ends.
PlacesOf(s, piece) == {k \in 1..Len(s) : s[k] = piece}
GroupsOf(s, i, n) ==
  Grouped(PlacesOf(s, "digit"), PlacesOf(s, ";"), PlacesOf(s, "m"), i, n)

\* The digits, semicolons and ends of a text are places of it, of one kind each.
LEMMA PlacesTyped ==
  ASSUME NEW s \in Seq(STRING)
  PROVE  /\ PlacesOf(s, "digit") \in SUBSET Nat /\ PlacesOf(s, ";") \in SUBSET Nat
         /\ PlacesOf(s, "m") \in SUBSET Nat
         /\ \A k \in PlacesOf(s, "m") : k \notin PlacesOf(s, "digit") /\ k \notin PlacesOf(s, ";")
         /\ \A k \in PlacesOf(s, ";") : k \notin PlacesOf(s, "digit")
<1>1. \A p : PlacesOf(s, p) \in SUBSET Nat /\ \A k \in PlacesOf(s, p) : s[k] = p
  BY DEF PlacesOf
<1>2. "m" # "digit" /\ "m" # ";" /\ ";" # "digit"
  OBVIOUS
<1>3. QED
  BY <1>1, <1>2

\* What Groups computes: the end of the groups that begin at i, 0 if there are none.
EndOfGroups(s, i) ==
  IF \E n \in Nat : GroupsOf(s, i, n) THEN CHOOSE n \in Nat : GroupsOf(s, i, n) ELSE 0

\* EndOfGroups is the one end there is, or 0.
LEMMA EndOfGroupsIs ==
  ASSUME NEW s \in Seq(STRING), NEW i \in Nat
  PROVE  /\ \A n \in Nat : GroupsOf(s, i, n) => EndOfGroups(s, i) = n
         /\ (\A n \in Nat : ~ GroupsOf(s, i, n)) => EndOfGroups(s, i) = 0
<1>1. ASSUME NEW n \in Nat, GroupsOf(s, i, n) PROVE EndOfGroups(s, i) = n
  <2> DEFINE m == CHOOSE k \in Nat : GroupsOf(s, i, k)
  <2>1. GroupsOf(s, i, m) /\ m \in Nat
    BY <1>1
  <2>2. EndOfGroups(s, i) = m
    BY <1>1 DEF EndOfGroups
  <2> HIDE DEF m
  <2>3. m = n
    BY <1>1, <2>1, PlacesTyped, GroupsEndOnce DEF GroupsOf
  <2>4. QED
    BY <2>2, <2>3
<1>2. QED
  BY <1>1 DEF EndOfGroups

\* The stop is where the digits end, and what is there says how to go on.
LEMMA StopCases ==
  ASSUME NEW s \in Seq(STRING), NEW i \in 1..Len(s) + 1, NEW h, NEW stop,
         stop = DigitsEnd(s, i)
  PROVE  /\ stop \in i..Len(s) + 1
         /\ \A k \in i..stop - 1 : k \in PlacesOf(s, "digit")
         /\ stop \notin PlacesOf(s, "digit")
         /\ GroupStep(s, h, i) =
              IF i < stop /\ stop \in PlacesOf(s, ";") THEN h[stop + 1]
              ELSE IF i < stop /\ stop \in PlacesOf(s, "m") THEN stop ELSE 0
<1>1. /\ stop \in i..Len(s) + 1
      /\ \A k \in i..stop - 1 : s[k] = "digit"
      /\ stop = Len(s) + 1 \/ s[stop] # "digit"
  BY DigitsEndAt
<1>2. \A k \in i..stop - 1 : k \in 1..Len(s)
  BY <1>1
<1>3. \A k \in i..stop - 1 : k \in PlacesOf(s, "digit")
  BY <1>1, <1>2 DEF PlacesOf
<1>4. stop \notin PlacesOf(s, "digit")
  BY <1>1 DEF PlacesOf
<1>5. /\ (i < stop /\ stop \in PlacesOf(s, ";")) <=> (stop \in i + 1..Len(s) /\ s[stop] = ";")
      /\ (i < stop /\ stop \in PlacesOf(s, "m")) <=> (stop \in i + 1..Len(s) /\ s[stop] = "m")
  <2>1. stop \in Int /\ Len(s) \in Nat
    BY <1>1
  <2>2. (i < stop /\ stop \in 1..Len(s)) <=> stop \in i + 1..Len(s)
    BY <2>1
  <2>3. QED
    BY <2>2 DEF PlacesOf
<1>6. (stop = i \/ stop = Len(s) + 1) => ~ (stop \in i + 1..Len(s))
  BY <1>1
<1>7. GroupStep(s, h, i) =
        CASE stop = i \/ stop = Len(s) + 1 -> 0
          [] stop \in i + 1..Len(s) /\ s[stop] = ";" -> h[stop + 1]
          [] stop \in i + 1..Len(s) /\ s[stop] = "m" -> stop
          [] OTHER -> 0
  BY DEF GroupStep
<1>8. ";" # "m"
  OBVIOUS
<1>9. QED
  BY <1>1, <1>3, <1>4, <1>5, <1>6, <1>7, <1>8

\* Taken group by group, the end is found.
LEMMA EndStep ==
  ASSUME NEW s \in Seq(STRING), NEW i \in 1..Len(s) + 1, NEW h,
         \A k \in i + 1..Len(s) + 1 : h[k] = EndOfGroups(s, k)
  PROVE  EndOfGroups(s, i) = GroupStep(s, h, i)
<1> DEFINE stop == DigitsEnd(s, i)
           D == PlacesOf(s, "digit")  C == PlacesOf(s, ";")  M == PlacesOf(s, "m")
<1>1. /\ stop \in i..Len(s) + 1 /\ (\A k \in i..stop - 1 : k \in D) /\ stop \notin D
      /\ GroupStep(s, h, i) = IF i < stop /\ stop \in C THEN h[stop + 1]
                              ELSE IF i < stop /\ stop \in M THEN stop ELSE 0
  BY StopCases
<1>2. /\ D \in SUBSET Nat /\ C \in SUBSET Nat /\ M \in SUBSET Nat
      /\ \A k \in M : k \notin D /\ k \notin C
      /\ \A k \in C : k \notin D
  BY PlacesTyped
<1> HIDE DEF stop, D, C, M
<1>3. i \in Nat /\ stop \in Nat /\ i <= stop /\ stop + 1 \in Nat
  <2>1. stop \in i..Len(s) + 1 /\ Len(s) \in Nat
    BY <1>1
  <2>2. QED
    BY ONLY <2>1, i \in 1..Len(s) + 1
<1>4. ASSUME NEW n \in Nat
      PROVE  Grouped(D, C, M, i, n)
               <=> /\ i < stop
                   /\ \/ stop \in M /\ n = stop
                      \/ stop \in C /\ Grouped(D, C, M, stop + 1, n)
  BY <1>1, <1>2, <1>3, GroupByGroup
<1>5. \A k, n : GroupsOf(s, k, n) <=> Grouped(D, C, M, k, n)
  BY DEF GroupsOf, D, C, M
<1>6. CASE i < stop /\ stop \in C
  <2>1. stop \notin M
    BY <1>2, <1>6
  <2>2. \A n \in Nat : GroupsOf(s, i, n) <=> GroupsOf(s, stop + 1, n)
    BY <1>4, <1>5, <1>6, <2>1
  <2>3. EndOfGroups(s, i) = EndOfGroups(s, stop + 1)
    <3>1. CASE \A n \in Nat : ~ GroupsOf(s, i, n)
      BY <1>3, <2>2, <3>1, EndOfGroupsIs
    <3>2. ASSUME NEW n \in Nat, GroupsOf(s, i, n)
          PROVE  EndOfGroups(s, i) = EndOfGroups(s, stop + 1)
      BY <1>3, <2>2, <3>2, EndOfGroupsIs
    <3>3. QED
      BY <3>1, <3>2
  <2>4. stop + 1 \in i + 1..Len(s) + 1
    <3>1. stop \in 1..Len(s)
      BY <1>6 DEF C, PlacesOf
    <3>2. QED
      BY <1>1, <1>6, <3>1
  <2>5. QED
    BY <1>1, <1>6, <2>3, <2>4
<1>7. CASE i < stop /\ stop \in M
  <2>1. stop \notin C
    BY <1>2, <1>7
  <2>2. GroupsOf(s, i, stop)
    BY <1>3, <1>4, <1>5, <1>7
  <2>3. EndOfGroups(s, i) = stop
    BY <1>3, <2>2, EndOfGroupsIs
  <2>4. QED
    BY <1>1, <1>7, <2>1, <2>3
<1>8. CASE ~ (i < stop /\ stop \in C) /\ ~ (i < stop /\ stop \in M)
  <2>1. \A n \in Nat : ~ GroupsOf(s, i, n)
    BY <1>4, <1>5, <1>8
  <2>2. EndOfGroups(s, i) = 0
    BY <1>3, <2>1, EndOfGroupsIs
  <2>3. QED
    BY <1>1, <1>8, <2>2
<1>9. QED
  BY <1>6, <1>7, <1>8

\* The recursion of Groups has one solution, and that is it.
LEMMA GroupsAre ==
  ASSUME NEW s \in Seq(STRING)
  PROVE  \A i \in 3..Len(s) + 1 : Groups(s)[i] = EndOfGroups(s, i)
<1> DEFINE e == [i \in 3..Len(s) + 1 |-> EndOfGroups(s, i)]
           h == Groups(s)
           Bad == {i \in 3..Len(s) + 1 : h[i] # EndOfGroups(s, i)}
<1>1. ASSUME NEW i \in 3..Len(s) + 1 PROVE e[i] = GroupStep(s, e, i)
  <2>1. \A k \in i + 1..Len(s) + 1 : k \in 3..Len(s) + 1
    OBVIOUS
  <2>2. \A k \in i + 1..Len(s) + 1 : e[k] = EndOfGroups(s, k)
    BY <2>1
  <2>3. i \in 1..Len(s) + 1 /\ e[i] = EndOfGroups(s, i)
    OBVIOUS
  <2> HIDE DEF e
  <2>4. QED
    BY <2>2, <2>3, EndStep
<1>2. e = [i \in 3..Len(s) + 1 |-> GroupStep(s, e, i)]
  <2>1. e = [i \in 3..Len(s) + 1 |-> e[i]]
    OBVIOUS
  <2> HIDE DEF e
  <2>2. QED
    BY <1>1, <2>1
<1>3. h = [i \in 3..Len(s) + 1 |-> GroupStep(s, h, i)]
  <2>1. \E g : g = [i \in 3..Len(s) + 1 |-> GroupStep(s, g, i)]
    <3> HIDE DEF e
    <3>1. QED
      BY <1>2
  <2>2. h = CHOOSE g : g = [i \in 3..Len(s) + 1 |-> GroupStep(s, g, i)]
    BY DEF Groups
  <2> HIDE DEF h
  <2>3. QED
    BY <2>1, <2>2
<1> HIDE DEF h
<1>4. ASSUME Bad # {} PROVE FALSE
  <2> DEFINE Left == {Len(s) + 1 - i : i \in Bad}
  <2>1. Left \in SUBSET Nat /\ Left # {}
    BY <1>4
  <2>2. PICK x \in Left : \A y \in Left : x <= y
    <3> HIDE DEF Left
    <3>1. QED
      BY <2>1, Least
  <2>3. PICK i \in Bad : x = Len(s) + 1 - i
    OBVIOUS
  <2>4. ASSUME NEW k \in i + 1..Len(s) + 1 PROVE h[k] = EndOfGroups(s, k)
    <3>1. k \in 3..Len(s) + 1 /\ ~ (x <= Len(s) + 1 - k)
      BY <2>3
    <3>2. Len(s) + 1 - k \notin Left
      BY <2>2, <3>1
    <3>3. k \notin Bad
      BY <3>2
    <3>4. QED
      BY <3>1, <3>3
  <2>5. i \in 1..Len(s) + 1 /\ i \in 3..Len(s) + 1
    OBVIOUS
  <2>6. EndOfGroups(s, i) = GroupStep(s, h, i)
    BY <2>4, <2>5, EndStep
  <2>7. h[i] = GroupStep(s, h, i)
    BY <1>3, <2>5
  <2>8. QED
    BY <2>6, <2>7
<1>5. QED
  BY <1>4 DEF h

\* A colour sequence of a text, from i to j.
Sequenced(s, i, j) == s[i] = "esc" /\ s[i + 1] = "[" /\ GroupsOf(s, i + 2, j)

\* Part of a text is a colour sequence by the pieces at its places.
LEMMA IsSequenceAt ==
  ASSUME NEW s \in Seq(STRING), NEW i \in 1..Len(s), NEW j \in i..Len(s)
  PROVE  IsSequence(SubSeq(s, i, j)) <=> Sequenced(s, i, j)
<1> DEFINE t == SubSeq(s, i, j)
           n == j - i + 1
<1>1. Len(t) = n /\ \A k \in 1..n : t[k] = s[k + i - 1]
  BY SMT
<1>2. IsSequence(t)
        <=> /\ n >= 4 /\ t[1] = "esc" /\ t[2] = "[" /\ t[n] = "m"
            /\ \A k \in 3..n - 1 : t[k] \in {"digit", ";"}
            /\ t[3] = "digit" /\ t[n - 1] = "digit"
            /\ \A k \in 3..n - 2 : ~(t[k] = ";" /\ t[k + 1] = ";")
  <2> HIDE DEF t
  <2>1. QED
    BY <1>1 DEF IsSequence
<1>3. Len(s) \in Nat /\ i \in Nat /\ j \in Nat /\ i <= j /\ j <= Len(s)
  OBVIOUS
<1> HIDE DEF t
<1> DEFINE D == PlacesOf(s, "digit")  C == PlacesOf(s, ";")  M == PlacesOf(s, "m")
<1>4. \A k \in 1..Len(s) : /\ k \in D <=> s[k] = "digit"
                           /\ k \in C <=> s[k] = ";"
                           /\ k \in M <=> s[k] = "m"
  BY DEF PlacesOf
<1>5. Sequenced(s, i, j)
        <=> s[i] = "esc" /\ s[i + 1] = "[" /\ Grouped(D, C, M, i + 2, j)
  BY DEF Sequenced, GroupsOf
<1> HIDE DEF D, C, M
<1>6. ASSUME n >= 4
      PROVE  IsSequence(t) <=> Sequenced(s, i, j)
  <2>1. n \in Nat
    BY <1>3
  <2>2. /\ t[1] = s[i] /\ t[2] = s[i + 1] /\ t[3] = s[i + 2]
        /\ t[n - 1] = s[j - 1] /\ t[n] = s[j]
    <3>1. /\ 1 \in 1..n /\ 2 \in 1..n /\ 3 \in 1..n /\ n - 1 \in 1..n /\ n \in 1..n
          /\ 1 + i - 1 = i /\ 2 + i - 1 = i + 1 /\ 3 + i - 1 = i + 2
          /\ (n - 1) + i - 1 = j - 1 /\ n + i - 1 = j
      BY <1>3, <1>6
    <3> HIDE DEF n
    <3>2. t[1] = s[1 + i - 1] /\ t[2] = s[2 + i - 1] /\ t[3] = s[3 + i - 1]
      BY <1>1, <3>1
    <3>3. t[n - 1] = s[(n - 1) + i - 1] /\ t[n] = s[n + i - 1]
      BY <1>1, <3>1
    <3>4. QED
      BY ONLY <3>1, <3>2, <3>3
  <2>3. /\ i + 2 \in 1..Len(s) /\ j - 1 \in 1..Len(s) /\ j \in 1..Len(s) /\ i + 2 < j
    BY <1>3, <1>6
  <2>4. (\A k \in 3..n - 1 : t[k] \in {"digit", ";"})
          <=> \A k \in i + 2..j - 1 : k \in D \/ k \in C
    <3>1. \A k \in 3..n - 1 : k \in 1..n /\ k + i - 1 \in i + 2..j - 1 /\ k + i - 1 \in 1..Len(s)
      BY <1>3
    <3>2. \A k \in i + 2..j - 1 : /\ k - i + 1 \in 3..n - 1 /\ (k - i + 1) + i - 1 = k
                                  /\ k \in 1..Len(s) /\ k - i + 1 \in 1..n
      BY <1>3
    <3> HIDE DEF n
    <3>3. ASSUME \A k \in 3..n - 1 : t[k] \in {"digit", ";"}, NEW k \in i + 2..j - 1
          PROVE  k \in D \/ k \in C
      <4>1. t[k - i + 1] \in {"digit", ";"} /\ t[k - i + 1] = s[k]
        BY <1>1, <3>2, <3>3
      <4>2. QED
        BY <1>4, <3>2, <4>1
    <3>4. ASSUME \A k \in i + 2..j - 1 : k \in D \/ k \in C, NEW k \in 3..n - 1
          PROVE  t[k] \in {"digit", ";"}
      <4>1. t[k] = s[k + i - 1]
        BY <1>1, <3>1
      <4>2. k + i - 1 \in D \/ k + i - 1 \in C
        BY <3>1, <3>4
      <4>3. QED
        BY <1>4, <3>1, <4>1, <4>2
    <3>5. QED
      BY <3>3, <3>4
  <2>5. (\A k \in 3..n - 2 : ~(t[k] = ";" /\ t[k + 1] = ";"))
          <=> \A k \in i + 2..j - 2 : ~ (k \in C /\ k + 1 \in C)
    <3>1. \A k \in 3..n - 2 : /\ k \in 1..n /\ k + 1 \in 1..n
                              /\ k + i - 1 \in i + 2..j - 2 /\ (k + 1) + i - 1 = (k + i - 1) + 1
                              /\ k + i - 1 \in 1..Len(s) /\ (k + i - 1) + 1 \in 1..Len(s)
      BY <1>3
    <3>2. \A k \in i + 2..j - 2 : /\ k - i + 1 \in 3..n - 2 /\ (k - i + 1) + i - 1 = k
                                  /\ ((k - i + 1) + 1) + i - 1 = k + 1
                                  /\ k \in 1..Len(s) /\ k + 1 \in 1..Len(s)
                                  /\ k - i + 1 \in 1..n /\ (k - i + 1) + 1 \in 1..n
      BY <1>3
    <3> HIDE DEF n
    <3>3. ASSUME \A k \in 3..n - 2 : ~(t[k] = ";" /\ t[k + 1] = ";"), NEW k \in i + 2..j - 2
          PROVE  ~ (k \in C /\ k + 1 \in C)
      <4>1. t[k - i + 1] = s[k] /\ t[(k - i + 1) + 1] = s[k + 1]
        <5>1. /\ k - i + 1 \in 1..n /\ (k - i + 1) + 1 \in 1..n
              /\ (k - i + 1) + i - 1 = k /\ ((k - i + 1) + 1) + i - 1 = k + 1
          BY <3>2
        <5>2. /\ t[k - i + 1] = s[(k - i + 1) + i - 1]
              /\ t[(k - i + 1) + 1] = s[((k - i + 1) + 1) + i - 1]
          BY <1>1, <5>1
        <5>3. QED
          BY ONLY <5>1, <5>2
      <4>2. k - i + 1 \in 3..n - 2
        BY <3>2
      <4>3. ~ (t[k - i + 1] = ";" /\ t[(k - i + 1) + 1] = ";")
        BY <3>3, <4>2
      <4>4. QED
        BY <1>4, <3>2, <4>1, <4>3
    <3>4. ASSUME \A k \in i + 2..j - 2 : ~ (k \in C /\ k + 1 \in C), NEW k \in 3..n - 2
          PROVE  ~(t[k] = ";" /\ t[k + 1] = ";")
      <4>1. t[k] = s[k + i - 1] /\ t[k + 1] = s[(k + i - 1) + 1]
        <5>1. t[k] = s[k + i - 1] /\ t[k + 1] = s[(k + 1) + i - 1]
          BY <1>1, <3>1
        <5>2. QED
          BY <3>1, <5>1
      <4>2. ~ (k + i - 1 \in C /\ (k + i - 1) + 1 \in C)
        BY <3>1, <3>4
      <4>3. QED
        BY <1>4, <3>1, <4>1, <4>2
    <3>5. QED
      BY <3>3, <3>4
  <2>6. Grouped(D, C, M, i + 2, j)
          <=> /\ i + 2 \in D /\ j - 1 \in D /\ j \in M
              /\ \A k \in i + 2..j - 1 : k \in D \/ k \in C
              /\ \A k \in i + 2..j - 2 : ~ (k \in C /\ k + 1 \in C)
    BY <2>3 DEF Grouped
  <2>7. (i + 2 \in D <=> s[i + 2] = "digit") /\ (j - 1 \in D <=> s[j - 1] = "digit")
        /\ (j \in M <=> s[j] = "m")
    BY <1>4, <2>3
  <2> HIDE DEF n
  <2>8. QED
    BY <1>2, <1>5, <1>6, <2>2, <2>4, <2>5, <2>6, <2>7
<1>7. ASSUME ~ (n >= 4)
      PROVE  ~ IsSequence(t) /\ ~ Sequenced(s, i, j)
  <2>1. ~ IsSequence(t)
    BY <1>2, <1>7
  <2>2. ASSUME Sequenced(s, i, j) PROVE FALSE
    <3>1. i + 2 < j /\ s[i + 1] = "["
      BY <1>5, <2>2 DEF Grouped
    <3>2. QED
      BY <1>3, <1>7, <3>1
  <2>3. QED
    BY <2>1, <2>2
<1>8. QED
  BY <1>6, <1>7 DEF t

\* A sequence is four pieces at least, and only the first is an escape.
LEMMA InsideSequence ==
  ASSUME NEW s \in Seq(STRING), NEW i \in 1..Len(s), NEW j, Sequenced(s, i, j)
  PROVE  j \in i + 3..Len(s) /\ s[i] = "esc" /\ \A k \in i + 1..j : s[k] # "esc"
<1> DEFINE D == PlacesOf(s, "digit")  C == PlacesOf(s, ";")  M == PlacesOf(s, "m")
<1>1. \A p : \A k \in PlacesOf(s, p) : k \in 1..Len(s) /\ s[k] = p
  BY DEF PlacesOf
<1>2. s[i] = "esc" /\ s[i + 1] = "[" /\ Grouped(D, C, M, i + 2, j)
  BY DEF Sequenced, GroupsOf
<1>3. \A k \in D : k \in 1..Len(s) /\ s[k] = "digit"
  BY <1>1
<1>4. \A k \in C : k \in 1..Len(s) /\ s[k] = ";"
  BY <1>1
<1>5. \A k \in M : k \in 1..Len(s) /\ s[k] = "m"
  BY <1>1
<1> HIDE DEF D, C, M
<1>6. /\ i + 2 < j /\ j \in M
      /\ \A k \in i + 2..j - 1 : k \in D \/ k \in C
  BY <1>2 DEF Grouped
<1>7. j \in 1..Len(s) /\ s[j] = "m" /\ j \in i + 3..Len(s)
  BY <1>5, <1>6
<1>8. ASSUME NEW k \in i + 1..j PROVE s[k] # "esc"
  <2>1. k = i + 1 \/ k \in i + 2..j - 1 \/ k = j
    BY <1>7
  <2>2. CASE k = i + 1
    BY <1>2, <2>2
  <2>3. CASE k \in i + 2..j - 1
    BY <1>3, <1>4, <1>6, <2>3
  <2>4. CASE k = j
    BY <1>7, <2>4
  <2>5. QED
    BY <2>1, <2>2, <2>3, <2>4
<1>9. QED
  BY <1>2, <1>7, <1>8

\* Part of a text, piece by piece.
LEMMA SubSeqIs ==
  ASSUME NEW s \in Seq(STRING), NEW a \in 1..Len(s) + 1, NEW b \in a - 1..Len(s)
  PROVE  /\ SubSeq(s, a, b) \in Seq(STRING) /\ Len(SubSeq(s, a, b)) = b - a + 1
         /\ \A k \in 1..b - a + 1 : SubSeq(s, a, b)[k] = s[a + k - 1]
<1>1. SubSeq(s, a, b) \in Seq(STRING)
  OBVIOUS
<1>2. Len(SubSeq(s, a, b)) = b - a + 1
  OBVIOUS
<1>3. \A k \in 1..b - a + 1 : SubSeq(s, a, b)[k] = s[a + k - 1]
  OBVIOUS
<1>4. QED
  BY <1>1, <1>2, <1>3

\* Two texts of the same pieces are the same.
LEMMA SameSeq ==
  ASSUME NEW a \in Seq(STRING), NEW b \in Seq(STRING), Len(a) = Len(b),
         \A k \in 1..Len(a) : a[k] = b[k]
  PROVE  a = b
OBVIOUS

\* Two texts one after the other, piece by piece.
LEMMA ConcatIs ==
  ASSUME NEW c \in Seq(STRING), NEW d \in Seq(STRING)
  PROVE  /\ c \o d \in Seq(STRING) /\ Len(c \o d) = Len(c) + Len(d)
         /\ \A k \in 1..Len(c) : (c \o d)[k] = c[k]
         /\ \A k \in 1..Len(d) : (c \o d)[Len(c) + k] = d[k]
<1>1. c \o d \in Seq(STRING)
  OBVIOUS
<1>2. Len(c \o d) = Len(c) + Len(d)
  OBVIOUS
<1>3. \A k \in 1..Len(c) : (c \o d)[k] = c[k]
  OBVIOUS
<1>4. \A k \in 1..Len(d) : (c \o d)[Len(c) + k] = d[k]
  OBVIOUS
<1>5. QED
  BY <1>1, <1>2, <1>3, <1>4

\* ansiSeqLen measures the sequence that begins a text, if one does.
LEMMA AnsiSeqLenAt ==
  ASSUME NEW t \in Seq(STRING)
  PROVE  /\ ansiSeqLen(t) # 0 => Sequenced(t, 1, ansiSeqLen(t))
         /\ \A n : t # << >> /\ Sequenced(t, 1, n) => ansiSeqLen(t) = n
<1>1. HasAt(t, 1, <<"esc", "[">>) <=> Len(t) >= 2 /\ t[1] = "esc" /\ t[2] = "["
  <2>1. Len(<<"esc", "[">>) = 2 /\ 1 + 2 - 1 = 2
    OBVIOUS
  <2>2. HasAt(t, 1, <<"esc", "[">>) <=> 2 <= Len(t) /\ SubSeq(t, 1, 2) = <<"esc", "[">>
    BY <2>1 DEF HasAt
  <2>3. Len(t) >= 2 => (SubSeq(t, 1, 2) = <<"esc", "[">> <=> t[1] = "esc" /\ t[2] = "[")
    <3> SUFFICES ASSUME Len(t) >= 2
                 PROVE  SubSeq(t, 1, 2) = <<"esc", "[">> <=> t[1] = "esc" /\ t[2] = "["
      OBVIOUS
    <3> DEFINE u == SubSeq(t, 1, 2)
    <3>1. 1 \in 1..Len(t) + 1 /\ 2 \in 1 - 1..Len(t)
      OBVIOUS
    <3>2. u \in Seq(STRING) /\ Len(u) = 2 /\ u[1] = t[1] /\ u[2] = t[2]
      <4>1. /\ u \in Seq(STRING) /\ Len(u) = 2 - 1 + 1
            /\ \A k \in 1..2 - 1 + 1 : u[k] = t[1 + k - 1]
        BY <3>1, SubSeqIs
      <4> HIDE DEF u
      <4>2. QED
        BY <4>1
    <3> HIDE DEF u
    <3>3. u = <<"esc", "[">> <=> u[1] = "esc" /\ u[2] = "["
      BY <3>2
    <3>4. QED
      BY <3>2, <3>3 DEF u
  <2>4. QED
    BY <2>2, <2>3
<1>2. ASSUME Len(t) >= 2
      PROVE  /\ \A n \in Nat : GroupsOf(t, 3, n) => Groups(t)[3] = n
             /\ (\A n \in Nat : ~ GroupsOf(t, 3, n)) => Groups(t)[3] = 0
  <2>1. 3 \in 3..Len(t) + 1
    BY <1>2
  <2>2. Groups(t)[3] = EndOfGroups(t, 3)
    BY <2>1, GroupsAre
  <2>3. QED
    BY <2>2, EndOfGroupsIs
<1>3. \A n : Sequenced(t, 1, n) <=> t[1] = "esc" /\ t[2] = "[" /\ GroupsOf(t, 3, n)
  BY DEF Sequenced
<1>4. \A n : GroupsOf(t, 3, n) => n \in 1..Len(t)
  BY DEF GroupsOf, Grouped, PlacesOf
<1>5. ASSUME ansiSeqLen(t) # 0 PROVE Sequenced(t, 1, ansiSeqLen(t))
  <2>1. HasAt(t, 1, <<"esc", "[">>) /\ ansiSeqLen(t) = Groups(t)[3]
    BY <1>5 DEF ansiSeqLen
  <2>2. GroupsOf(t, 3, Groups(t)[3])
    BY <1>1, <1>2, <1>5, <2>1
  <2>3. QED
    BY <1>1, <1>3, <2>1, <2>2
<1>6. ASSUME NEW n, t # << >>, Sequenced(t, 1, n) PROVE ansiSeqLen(t) = n
  <2>1. n \in Nat /\ Len(t) >= 2
    <3>1. 1 \in 1..Len(t)
      BY <1>6
    <3>2. n \in 1 + 3..Len(t)
      BY <1>6, <3>1, InsideSequence
    <3>3. QED
      BY <3>2
  <2>2. HasAt(t, 1, <<"esc", "[">>) /\ GroupsOf(t, 3, n)
    BY <1>1, <1>3, <1>6, <2>1
  <2>3. QED
    BY <1>2, <2>1, <2>2 DEF ansiSeqLen
<1>7. QED
  BY <1>5, <1>6

\* So it does at a place of a text.
LEMMA AnsiSeqLenFrom ==
  ASSUME NEW s \in Seq(STRING), NEW i \in 1..Len(s), NEW n,
         n = ansiSeqLen(SubSeq(s, i, Len(s)))
  PROVE  /\ n # 0 => n \in Nat /\ Sequenced(s, i, i + n - 1)
         /\ \A j : Sequenced(s, i, j) => n # 0 /\ j = i + n - 1
<1> DEFINE t == SubSeq(s, i, Len(s))
<1>1. /\ t \in Seq(STRING) /\ Len(t) = Len(s) - i + 1 /\ t # << >> /\ Len(t) \in Nat
      /\ \A k \in 1..Len(t) : t[k] = s[i + k - 1]
  <2>1. i \in 1..Len(s) + 1 /\ Len(s) \in i - 1..Len(s)
    OBVIOUS
  <2>2. /\ t \in Seq(STRING) /\ Len(t) = Len(s) - i + 1
        /\ \A k \in 1..Len(s) - i + 1 : t[k] = s[i + k - 1]
    BY <2>1, SubSeqIs
  <2> HIDE DEF t
  <2>3. Len(t) \in Nat /\ Len(t) # 0
    BY <2>2
  <2>4. QED
    BY <2>2, <2>3
<1>2. ASSUME NEW k \in 1..Len(s) - i + 1
      PROVE  Sequenced(t, 1, k) <=> Sequenced(s, i, i + k - 1)
  <2>1. i + k - 1 \in i..Len(s) /\ 1 \in 1..Len(t) /\ k \in 1..Len(t)
    BY <1>1
  <2>2. SubSeq(t, 1, k) = SubSeq(s, i, i + k - 1)
    BY <2>1, SMT
  <2> HIDE DEF t
  <2>3. IsSequence(SubSeq(t, 1, k)) <=> Sequenced(t, 1, k)
    BY <1>1, <2>1, IsSequenceAt
  <2>4. IsSequence(SubSeq(s, i, i + k - 1)) <=> Sequenced(s, i, i + k - 1)
    BY <2>1, IsSequenceAt
  <2>5. QED
    BY <2>2, <2>3, <2>4
<1> HIDE DEF t
<1>3. n = ansiSeqLen(t)
  BY DEF t
<1>4. ASSUME n # 0 PROVE n \in Nat /\ Sequenced(s, i, i + n - 1)
  <2>1. Sequenced(t, 1, n)
    BY <1>1, <1>3, <1>4, AnsiSeqLenAt
  <2>2. n \in 1 + 3..Len(t)
    <3>1. 1 \in 1..Len(t)
      BY <1>1
    <3>2. QED
      BY <1>1, <2>1, <3>1, InsideSequence
  <2>3. n \in 1..Len(s) - i + 1 /\ n \in Nat
    BY <1>1, <2>2
  <2>4. QED
    BY <1>2, <2>1, <2>3
<1>5. ASSUME NEW j, Sequenced(s, i, j) PROVE n # 0 /\ j = i + n - 1
  <2>1. j \in i + 3..Len(s)
    BY <1>5, InsideSequence
  <2>2. j - i + 1 \in 1..Len(s) - i + 1 /\ i + (j - i + 1) - 1 = j
    BY <2>1
  <2>3. Sequenced(t, 1, j - i + 1)
    BY <1>2, <1>5, <2>2
  <2>4. n = j - i + 1
    BY <1>1, <1>3, <2>3, AnsiSeqLenAt
  <2>5. QED
    BY <2>1, <2>4
<1>6. QED
  BY <1>4, <1>5

-----------------------------------------------------------------------------
(* removeANSICodes: what is kept *)

\* The next escape, from a place on.
LEMMA EscapeFrom ==
  ASSUME NEW s \in Seq(STRING), NEW x \in 1..Len(s) + 1, NEW a,
         a = IndexFrom(s, x, <<"esc">>)
  PROVE  \/ a = 0 /\ \A k \in x..Len(s) : s[k] # "esc"
         \/ a \in x..Len(s) /\ s[a] = "esc" /\ \A k \in x..a - 1 : s[k] # "esc"
<1> DEFINE hits == {j \in x..Len(s) : s[j] = "esc"}
<1>1. ASSUME NEW j \in x..Len(s) PROVE HasAt(s, j, <<"esc">>) <=> s[j] = "esc"
  <2>1. Len(<<"esc">>) = 1 /\ j + 1 - 1 = j /\ j <= Len(s) /\ j \in 1..Len(s)
    OBVIOUS
  <2>2. SubSeq(s, j, j) = <<"esc">> <=> s[j] = "esc"
    <3> DEFINE u == SubSeq(s, j, j)
    <3>1. j \in 1..Len(s) + 1 /\ j \in j - 1..Len(s) /\ j - j + 1 = 1 /\ j + 1 - 1 = j
      OBVIOUS
    <3>2. /\ u \in Seq(STRING) /\ Len(u) = j - j + 1
          /\ \A k \in 1..j - j + 1 : u[k] = s[j + k - 1]
      BY <3>1, SubSeqIs
    <3> HIDE DEF u
    <3>3. u \in Seq(STRING) /\ Len(u) = 1 /\ u[1] = s[j]
      <4>1. 1 \in 1..j - j + 1
        BY <3>1
      <4>2. u[1] = s[j + 1 - 1]
        BY <3>2, <4>1
      <4>3. QED
        BY <3>1, <3>2, <4>2
    <3>4. u = <<"esc">> <=> u[1] = "esc"
      BY <3>3
    <3>5. QED
      BY <3>3, <3>4 DEF u
  <2>3. HasAt(s, j, <<"esc">>) <=> SubSeq(s, j, j) = <<"esc">>
    BY <2>1 DEF HasAt
  <2>4. QED
    BY <2>2, <2>3
<1>2. a = IF hits = {} THEN 0 ELSE Min(hits)
  <2>1. {j \in x..Len(s) : HasAt(s, j, <<"esc">>)} = hits
    BY <1>1
  <2>2. QED
    BY <2>1 DEF IndexFrom
<1>3. hits \in SUBSET Nat
  OBVIOUS
<1>4. CASE hits = {}
  BY <1>2, <1>4
<1>5. CASE hits # {}
  <2>1. a \in hits /\ \A y \in hits : a <= y
    <3>1. a = Min(hits)
      BY <1>2, <1>5
    <3> HIDE DEF hits
    <3>2. QED
      BY <1>3, <1>5, <3>1, MinOfNaturals
  <2>2. ASSUME NEW k \in x..a - 1 PROVE s[k] # "esc"
    <3>1. k \in x..Len(s) /\ ~ (a <= k)
      BY <2>1
    <3>2. k \notin hits
      BY <2>1, <3>1
    <3>3. QED
      BY <3>1, <3>2
  <2>3. QED
    BY <2>1, <2>2
<1>6. QED
  BY <1>4, <1>5

\* c is the places P of s before e, in order.
Ranked(s, P, c, e) ==
  /\ c \in Seq(STRING) /\ Len(c) = Cardinality({q \in P : q < e})
  /\ \A p \in P : p < e => c[Cardinality({q \in P : q <= p})] = s[p]

\* No places from e to f: nothing to be kept there.
LEMMA RankedAcross ==
  ASSUME NEW s, NEW P \in SUBSET Nat, NEW c, NEW e \in Nat, NEW f \in Nat,
         Ranked(s, P, c, e), e <= f, \A p \in e..f - 1 : p \notin P
  PROVE  Ranked(s, P, c, f)
<1>1. \A p \in P : p < e <=> p < f
  OBVIOUS
<1>2. {q \in P : q < e} = {q \in P : q < f}
  BY <1>1
<1>3. QED
  BY <1>1, <1>2 DEF Ranked

\* All places from a to e: what is there is kept.
LEMMA RankedOn ==
  ASSUME NEW s \in Seq(STRING), NEW P \in SUBSET (1..Len(s)), NEW c,
         NEW a \in 1..Len(s) + 1, NEW e \in a..Len(s) + 1,
         Ranked(s, P, c, a), \A p \in a..e - 1 : p \in P
  PROVE  Ranked(s, P, c \o SubSeq(s, a, e - 1), e)
<1> DEFINE d == SubSeq(s, a, e - 1)
           Before == {q \in P : q < a}
<1>1. /\ c \in Seq(STRING) /\ Len(c) = Cardinality(Before)
      /\ \A p \in P : p < a => c[Cardinality({q \in P : q <= p})] = s[p]
  BY DEF Ranked
<1>2. /\ d \in Seq(STRING) /\ Len(d) = e - a
      /\ \A k \in 1..e - a : d[k] = s[a + k - 1]
  <2>1. e - 1 \in a - 1..Len(s) /\ (e - 1) - a + 1 = e - a
    OBVIOUS
  <2>2. /\ d \in Seq(STRING) /\ Len(d) = (e - 1) - a + 1
        /\ \A k \in 1..(e - 1) - a + 1 : d[k] = s[a + k - 1]
    BY <2>1, SubSeqIs
  <2> HIDE DEF d
  <2>3. QED
    BY <2>1, <2>2
<1>3. IsFiniteSet(P)
  <2>1. IsFiniteSet(1..Len(s))
    BY FS_Interval
  <2>2. QED
    BY <2>1, FS_Subset
<1>4. IsFiniteSet(Before) /\ Cardinality(Before) \in Nat
  <2>1. Before \in SUBSET P
    OBVIOUS
  <2> HIDE DEF Before
  <2>2. QED
    BY <1>3, <2>1, FS_Subset, FS_CardinalityType
<1> HIDE DEF d, Before
<1>5. ASSUME NEW f \in a..e
      PROVE  Cardinality(Before \cup (a..f - 1)) = Len(c) + (f - a)
  <2>1. IsFiniteSet(a..f - 1) /\ Cardinality(a..f - 1) = f - a
    <3>1. a \in Int /\ f - 1 \in Int /\ (a > f - 1 => f - a = 0) /\ (f - 1) - a + 1 = f - a
      OBVIOUS
    <3>2. /\ IsFiniteSet(a..f - 1)
          /\ Cardinality(a..f - 1) = IF a > f - 1 THEN 0 ELSE (f - 1) - a + 1
      BY <3>1, FS_Interval
    <3>3. QED
      BY <3>1, <3>2
  <2>2. Before \cap (a..f - 1) = {}
    BY DEF Before
  <2>3. Cardinality({}) = 0
    BY FS_EmptySet
  <2>4. Cardinality(Before \cup (a..f - 1))
          = Cardinality(Before) + Cardinality(a..f - 1) - Cardinality(Before \cap (a..f - 1))
    BY <1>4, <2>1, FS_Union
  <2>5. Cardinality(Before \cap (a..f - 1)) = 0
    BY <2>2, <2>3
  <2>6. QED
    BY <1>1, <1>4, <2>1, <2>4, <2>5
<1>6. \A q \in P : q \in Nat
  OBVIOUS
<1>7. ASSUME NEW f \in a..e PROVE {q \in P : q < f} = Before \cup (a..f - 1)
  <2>1. \A q \in P : q < f <=> q < a \/ q \in a..f - 1
    BY <1>6
  <2>2. \A q \in a..f - 1 : q \in P
    OBVIOUS
  <2>3. QED
    BY <2>1, <2>2 DEF Before
<1>8. /\ c \o d \in Seq(STRING) /\ Len(c \o d) = Len(c) + (e - a)
      /\ \A k \in 1..Len(c) : (c \o d)[k] = c[k]
      /\ \A k \in 1..e - a : (c \o d)[Len(c) + k] = d[k]
  <2>1. /\ c \o d \in Seq(STRING) /\ Len(c \o d) = Len(c) + Len(d)
        /\ \A k \in 1..Len(c) : (c \o d)[k] = c[k]
        /\ \A k \in 1..Len(d) : (c \o d)[Len(c) + k] = d[k]
    BY <1>1, <1>2, ConcatIs
  <2>2. Len(d) = e - a
    BY <1>2
  <2>3. QED
    BY ONLY <2>1, <2>2
<1>9. Len(c \o d) = Cardinality({q \in P : q < e})
  <2>1. e \in a..e
    OBVIOUS
  <2>2. QED
    BY <1>5, <1>7, <1>8, <2>1
<1>10. ASSUME NEW p \in P, p < e
       PROVE  (c \o d)[Cardinality({q \in P : q <= p})] = s[p]
  <2> DEFINE UpTo == {q \in P : q <= p}
  <2>1. CASE p < a
    <3>1. UpTo \in SUBSET Before /\ p \in UpTo
      <4>1. \A q \in P : q <= p => q < a
        BY <1>6, <2>1
      <4>2. p <= p
        BY <1>6
      <4>3. QED
        BY <4>1, <4>2 DEF Before
    <3> HIDE DEF UpTo
    <3>2. IsFiniteSet(UpTo) /\ Cardinality(UpTo) <= Cardinality(Before)
      BY <1>4, <3>1, FS_Subset
    <3>3. Cardinality(UpTo) \in Nat /\ Cardinality(UpTo) # 0
      BY <3>1, <3>2, FS_CardinalityType, FS_EmptySet
    <3>4. Cardinality(UpTo) \in 1..Len(c)
      BY <1>1, <1>4, <3>2, <3>3
    <3>5. c[Cardinality(UpTo)] = s[p]
      BY <1>1, <2>1 DEF UpTo
    <3>6. QED
      BY <1>8, <3>4, <3>5 DEF UpTo
  <2>2. CASE ~ (p < a)
    <3>1. p \in a..e - 1 /\ p + 1 \in a..e
      BY <1>10, <2>2
    <3>2. Cardinality(UpTo) = Len(c) + ((p + 1) - a)
      <4>1. UpTo = {q \in P : q < p + 1}
        <5>1. \A q \in P : q <= p <=> q < p + 1
          BY <1>6
        <5>2. QED
          BY <5>1
      <4> HIDE DEF UpTo
      <4>2. QED
        BY <1>5, <1>7, <3>1, <4>1
    <3>3. (p + 1) - a \in 1..e - a /\ a + ((p + 1) - a) - 1 = p
      BY <3>1
    <3>4. (c \o d)[Len(c) + ((p + 1) - a)] = d[(p + 1) - a]
      BY <1>8, <3>3
    <3>5. d[(p + 1) - a] = s[a + ((p + 1) - a) - 1]
      BY <1>2, <3>3
    <3> HIDE DEF UpTo
    <3>6. (c \o d)[Cardinality(UpTo)] = s[p]
      BY ONLY <3>2, <3>3, <3>4, <3>5
    <3>7. QED
      BY <3>6 DEF UpTo
  <2>3. QED
    BY <2>1, <2>2
<1>11. QED
  BY <1>8, <1>9, <1>10 DEF Ranked, d

-----------------------------------------------------------------------------
(* removeANSICodes *)

\* The text of a call of either scan is a sequence of pieces.
LEMMA ScanTyped ==
  ASSUME call \in ScanCalls
  PROVE  call.function \in {"removeANSICodes", "resourceGroupID"} => text \in Seq(STRING)
<1>1. CASE \E t \in Coloured : call = [function |-> "removeANSICodes", text |-> t]
  BY <1>1, PiecesAssumption DEF text
<1>2. CASE \E t \in Identifiers : call = [function |-> "resourceGroupID", text |-> t]
  BY <1>2, PiecesAssumption DEF text
<1>3. CASE \E ms \in Records :
              call = [function |-> "pinoSeverity", text |-> Written(ms), members |-> ms]
  <2>1. call.function = "pinoSeverity"
    BY <1>3
  <2>2. QED
    BY <2>1
<1>4. QED
  BY <1>1, <1>2, <1>3 DEF ScanCalls

\* How far the text is known: to the escape found, or to its end.
Frontier == IF at = 0 THEN Len(text) + 1 ELSE at

ColoursBehind ==
  call.function = "removeANSICodes" =>
    /\ at = 0 \/ at \in 1..Len(text)
    /\ kept.last \in 1..Frontier
    /\ \A i \in 1..Frontier - 1 : \A j : Sequenced(text, i, j) => j < kept.last
    /\ Ranked(text, Plain, kept.b, kept.last)

\* A byte is plain unless a sequence goes over it.
LEMMA PlainIs ==
  ASSUME text \in Seq(STRING)
  PROVE  /\ Plain \in SUBSET (1..Len(text))
         /\ \A p \in 1..Len(text) :
              p \notin Plain <=> \E i \in 1..p : \E j \in p..Len(text) : Sequenced(text, i, j)
<1>1. DOMAIN text = 1..Len(text)
  OBVIOUS
<1>2. ASSUME NEW p \in 1..Len(text)
      PROVE  InSequence(p) <=> \E i \in 1..p : \E j \in p..Len(text) : Sequenced(text, i, j)
  <2>1. ASSUME NEW i \in 1..p, NEW j \in p..Len(text)
        PROVE  IsSequence(SubSeq(text, i, j)) <=> Sequenced(text, i, j)
    <3>1. i \in 1..Len(text) /\ j \in i..Len(text)
      OBVIOUS
    <3>2. QED
      BY <3>1, IsSequenceAt
  <2>2. QED
    BY <2>1 DEF InSequence
<1>3. QED
  BY <1>1, <1>2 DEF Plain

\* What lies between the last sequence and the frontier is plain.
LEMMA PlainBeforeFrontier ==
  ASSUME text \in Seq(STRING), NEW f \in 1..Len(text) + 1, NEW last \in 1..f,
         \A i \in 1..f - 1 : \A j : Sequenced(text, i, j) => j < last
  PROVE  \A p \in last..f - 1 : p \in Plain
<1> SUFFICES ASSUME NEW p \in last..f - 1, p \notin Plain PROVE FALSE
  OBVIOUS
<1>1. p \in 1..Len(text)
  OBVIOUS
<1>2. PICK i \in 1..p, j \in p..Len(text) : Sequenced(text, i, j)
  BY <1>1, PlainIs
<1>3. i \in 1..f - 1
  BY <1>1
<1>4. j < last
  BY <1>2, <1>3
<1>5. QED
  BY <1>4

\* Bytes of one sequence are in no other, and none of them is plain.
LEMMA SequenceIsNotPlain ==
  ASSUME text \in Seq(STRING), NEW i \in 1..Len(text), NEW j, Sequenced(text, i, j)
  PROVE  j \in i + 3..Len(text) /\ \A p \in i..j : p \notin Plain
<1>1. j \in i + 3..Len(text)
  BY InsideSequence
<1>2. ASSUME NEW p \in i..j PROVE p \notin Plain
  <2>1. p \in 1..Len(text) /\ i \in 1..p /\ j \in p..Len(text)
    BY <1>1
  <2>2. QED
    BY <2>1, PlainIs
<1>3. QED
  BY <1>1, <1>2

NextFrontier(x) == IF NextEscape(x) = 0 THEN Len(text) + 1 ELSE NextEscape(x)

\* Between a place and the escape found from there no sequence begins.
LEMMA NoneUpToNext ==
  ASSUME text \in Seq(STRING), NEW x \in 1..Len(text) + 1
  PROVE  /\ NextEscape(x) = 0 \/ NextEscape(x) \in 1..Len(text)
         /\ NextFrontier(x) \in x..Len(text) + 1
         /\ \A i \in x..NextFrontier(x) - 1 : \A j : ~ Sequenced(text, i, j)
<1> DEFINE a == NextEscape(x)
<1>1. \/ a = 0 /\ \A k \in x..Len(text) : text[k] # "esc"
      \/ a \in x..Len(text) /\ text[a] = "esc" /\ \A k \in x..a - 1 : text[k] # "esc"
  <2>1. CASE x > Len(text)
    <3>1. a = 0 /\ \A k \in x..Len(text) : FALSE
      BY <2>1 DEF NextEscape
    <3>2. QED
      BY <3>1
  <2>2. CASE ~ (x > Len(text))
    <3>1. a = IndexFrom(text, x, <<"esc">>)
      BY <2>2 DEF NextEscape
    <3> HIDE DEF a
    <3>2. QED
      BY <3>1, EscapeFrom
  <2>3. QED
    BY <2>1, <2>2
<1>2. NextFrontier(x) = IF a = 0 THEN Len(text) + 1 ELSE a
  BY DEF NextFrontier
<1> HIDE DEF a
<1>3. a = 0 \/ a \in 1..Len(text)
  BY <1>1
<1>4. NextFrontier(x) \in x..Len(text) + 1
  BY <1>1, <1>2
<1>5. \A k \in x..NextFrontier(x) - 1 : text[k] # "esc"
  BY <1>1, <1>2
<1>6. \A i, j : Sequenced(text, i, j) => text[i] = "esc"
  BY DEF Sequenced
<1>7. QED
  BY <1>3, <1>4, <1>5, <1>6 DEF a

\* removeANSICodes looks at an escape: it drops the sequence there, or goes on.
LEMMA EscapeStep ==
  ASSUME call \in ScanCalls, ColoursBehind, Escape
  PROVE  ColoursBehind' /\ ColoursAreRemoved'
<1> DEFINE n == ansiSeqLen(From(at))
           last == kept.last
           b == kept.b
           L == Len(text)
<1>1. call.function = "removeANSICodes" /\ answer = NoAnswer /\ at # 0
  BY DEF Escape, Running
<1>2. text \in Seq(STRING)
  BY <1>1, ScanTyped
<1>3. /\ at \in 1..L /\ last \in 1..at
      /\ \A i \in 1..at - 1 : \A j : Sequenced(text, i, j) => j < last
      /\ Ranked(text, Plain, b, last)
  BY <1>1 DEF ColoursBehind, Frontier
<1>4. /\ n # 0 => n \in Nat /\ Sequenced(text, at, at + n - 1)
      /\ \A j : Sequenced(text, at, j) => n # 0 /\ j = at + n - 1
  BY <1>2, <1>3, AnsiSeqLenFrom DEF From
<1>5. IF n > 0 THEN GoesOn(NextEscape(at + n), [b |-> b \o SubSeq(text, last, at - 1),
                                                last |-> at + n])
      ELSE GoesOn(NextEscape(at + 1), kept)
  BY DEF Escape
<1> HIDE DEF n, last, b
\* Both ways: a new frontier, from which what is known follows.
<1>6. ASSUME NEW x \in 1..L + 1, NEW b2, NEW last2, last2 \in 1..x, last <= last2,
             call' = call, at' = NextEscape(x), kept'.b = b2, kept'.last = last2,
             answer' = NoAnswer,
             \A i \in at..x - 1 : \A j : Sequenced(text, i, j) => j < last2,
             at <= x, Ranked(text, Plain, b2, last2)
      PROVE  ColoursBehind' /\ ColoursAreRemoved'
  <2>1. /\ NextEscape(x) = 0 \/ NextEscape(x) \in 1..L
        /\ NextFrontier(x) \in x..L + 1
        /\ \A i \in x..NextFrontier(x) - 1 : \A j : ~ Sequenced(text, i, j)
    BY <1>2, NoneUpToNext
  <2>2. /\ call' = call /\ text' = text /\ at' = NextEscape(x) /\ kept'.b = b2
        /\ kept'.last = last2 /\ answer' = NoAnswer
    BY <1>6 DEF text
  <2>3. Frontier' = NextFrontier(x) /\ Plain' = Plain
    BY <2>2 DEF Frontier, NextFrontier, Plain, InSequence
  <2>4. ASSUME NEW i \in 1..NextFrontier(x) - 1, NEW j, Sequenced(text, i, j)
        PROVE  j < last2
    <3>1. i \in 1..at - 1 \/ i \in at..x - 1 \/ i \in x..NextFrontier(x) - 1
      BY <1>3, <1>6, <2>1
    <3>2. CASE i \in 1..at - 1
      <4>1. j < last
        BY <1>3, <2>4, <3>2
      <4>2. i \in 1..L
        BY <1>3, <3>2
      <4>3. j \in i + 3..L
        BY <1>2, <2>4, <4>2, InsideSequence
      <4>4. QED
        BY <1>3, <1>6, <4>1, <4>3
    <3>3. CASE i \in at..x - 1
      BY <1>6, <2>4, <3>3
    <3>4. CASE i \in x..NextFrontier(x) - 1
      BY <2>1, <2>4, <3>4
    <3>5. QED
      BY <3>1, <3>2, <3>3, <3>4
  <2>5. last2 \in 1..NextFrontier(x)
    BY <1>6, <2>1
  <2>6. ColoursBehind'
    BY <1>6, <2>1, <2>2, <2>3, <2>4, <2>5 DEF ColoursBehind
  <2>7. ColoursAreRemoved'
    BY <2>2 DEF ColoursAreRemoved, Answered
  <2>8. QED
    BY <2>6, <2>7
<1>7. Plain \in SUBSET (1..L)
  BY <1>2, PlainIs
<1>8. CASE n # 0
  <2>1. n \in Nat /\ Sequenced(text, at, at + n - 1) /\ n > 0
    BY <1>4, <1>8
  <2>2. at + n - 1 \in at + 3..L /\ \A p \in at..at + n - 1 : p \notin Plain
    BY <1>2, <1>3, <2>1, SequenceIsNotPlain
  <2>3. Ranked(text, Plain, b \o SubSeq(text, last, at - 1), at)
    <3>1. \A p \in last..at - 1 : p \in Plain
      <4>1. at \in 1..Len(text) + 1
        BY <1>3
      <4>2. QED
        BY <1>2, <1>3, <4>1, PlainBeforeFrontier
    <3>2. last \in 1..Len(text) + 1 /\ at \in last..Len(text) + 1
      BY <1>3
    <3>3. QED
      BY <1>2, <1>3, <1>7, <3>1, <3>2, RankedOn
  <2>4. Ranked(text, Plain, b \o SubSeq(text, last, at - 1), at + n)
    <3>1. at \in Nat /\ at + n \in Nat /\ at <= at + n
      BY <1>3, <2>1
    <3>2. Plain \in SUBSET Nat
      BY <1>7
    <3>3. ASSUME NEW p \in at..(at + n) - 1 PROVE p \notin Plain
      <4>1. p \in at..at + n - 1
        <5>1. (at + n) - 1 = at + n - 1
          BY <2>1, <3>1
        <5>2. QED
          BY <5>1
      <4>2. QED
        BY <2>2, <4>1
    <3>4. QED
      BY <2>3, <3>1, <3>2, <3>3, RankedAcross
  <2>5. ASSUME NEW i \in at..(at + n) - 1, NEW j, Sequenced(text, i, j) PROVE j < at + n
    <3>1. CASE i = at
      BY <1>3, <1>4, <2>1, <2>5, <3>1
    <3>2. CASE i # at
      <4>1. i \in at + 1..at + n - 1
        BY <1>3, <2>1, <3>2
      <4>2. text[i] # "esc"
        BY <1>2, <1>3, <2>1, <4>1, InsideSequence
      <4>3. QED
        BY <2>5, <4>2 DEF Sequenced
    <3>3. QED
      BY <3>1, <3>2
  <2>6. at + n \in 1..L + 1 /\ at + n \in 1..at + n /\ last <= at + n /\ at <= at + n
    BY <1>3, <2>1, <2>2
  <2>7. /\ call' = call /\ at' = NextEscape(at + n) /\ answer' = NoAnswer
        /\ kept'.b = b \o SubSeq(text, last, at - 1) /\ kept'.last = at + n
    <3>1. GoesOn(NextEscape(at + n), [b |-> b \o SubSeq(text, last, at - 1), last |-> at + n])
      BY <1>5, <2>1
    <3>2. QED
      BY <1>1, <3>1 DEF GoesOn
  <2>8. QED
    BY <1>6, <2>4, <2>5, <2>6, <2>7
<1>9. CASE n = 0
  <2>1. GoesOn(NextEscape(at + 1), kept)
    <3>1. ~ (n > 0)
      BY <1>9
    <3>2. QED
      BY <1>5, <3>1
  <2>2. at + 1 \in 1..L + 1 /\ last \in 1..at + 1 /\ last <= last /\ at <= at + 1
    BY <1>3
  <2>3. \A i \in at..(at + 1) - 1 : \A j : Sequenced(text, i, j) => j < last
    <3>1. \A i \in at..(at + 1) - 1 : i = at
      BY <1>3
    <3>2. QED
      BY <1>4, <1>9, <3>1
  <2>4. /\ call' = call /\ at' = NextEscape(at + 1) /\ answer' = NoAnswer
        /\ kept'.b = b /\ kept'.last = last
    BY <1>1, <2>1 DEF GoesOn, b, last
  <2>5. QED
    BY <1>3, <1>6, <2>1, <2>2, <2>3, <2>4
<1>10. QED
  BY <1>8, <1>9

\* No place is before the first.
LEMMA NoneBelowOne ==
  ASSUME NEW n, NEW P \in SUBSET (1..n)
  PROVE  (\A q \in P : ~ (q < 1)) /\ {q \in P : q < 1} = {}
<1>1. ASSUME NEW q \in P PROVE ~ (q < 1)
  <2>1. q \in 1..n
    OBVIOUS
  <2>2. QED
    BY <2>1
<1>2. QED
  BY <1>1

\* removeANSICodes has seen every escape, and keeps the rest of the text.
LEMMA RestStep ==
  ASSUME call \in ScanCalls, ColoursBehind, Rest
  PROVE  ColoursBehind' /\ ColoursAreRemoved'
<1> DEFINE last == kept.last
           b == kept.b
           L == Len(text)
           said == IF last = 1 THEN text ELSE b \o From(last)
<1>1. /\ call.function = "removeANSICodes" /\ at = 0
      /\ call' = call /\ at' = at /\ kept' = kept /\ answer' = <<"returns", said>>
  BY DEF Rest, Running, Returns
<1>2. text \in Seq(STRING)
  BY <1>1, ScanTyped
<1> HIDE DEF last, b, said
<1>3. /\ last \in 1..L + 1
      /\ \A i \in 1..(L + 1) - 1 : \A j : Sequenced(text, i, j) => j < last
      /\ Ranked(text, Plain, b, last)
  BY <1>1 DEF ColoursBehind, Frontier, last, b
<1>4. Plain \in SUBSET (1..L)
  BY <1>2, PlainIs
<1>5. \A p \in last..(L + 1) - 1 : p \in Plain
  <2>1. L + 1 \in 1..L + 1
    BY <1>2
  <2>2. QED
    BY <1>2, <1>3, <2>1, PlainBeforeFrontier
<1>6. L + 1 \in last..L + 1
  BY <1>3
<1>7. Ranked(text, Plain, b \o SubSeq(text, last, (L + 1) - 1), L + 1)
  BY <1>2, <1>3, <1>4, <1>5, <1>6, RankedOn
<1>8. (L + 1) - 1 = L
  BY <1>2
<1>9. Ranked(text, Plain, b \o From(last), L + 1)
  BY <1>7, <1>8 DEF From
<1>10. last = 1 => b \o From(last) = text
  <2> SUFFICES ASSUME last = 1 PROVE b \o From(last) = text
    OBVIOUS
  <2>1. b = << >>
    <3>1. {q \in Plain : q < 1} = {}
      BY <1>4, NoneBelowOne
    <3>2. b \in Seq(STRING) /\ Len(b) = 0
      BY <1>3, <3>1, FS_EmptySet DEF Ranked
    <3>3. QED
      BY <3>2
  <2>2. From(last) = text
    <3>1. 1 \in 1..Len(text) + 1 /\ Len(text) \in 1 - 1..Len(text) /\ Len(text) - 1 + 1 = Len(text)
      BY <1>2
    <3>2. /\ SubSeq(text, 1, Len(text)) \in Seq(STRING)
          /\ Len(SubSeq(text, 1, Len(text))) = Len(text) - 1 + 1
          /\ \A k \in 1..Len(text) - 1 + 1 : SubSeq(text, 1, Len(text))[k] = text[1 + k - 1]
      BY <1>2, <3>1, SubSeqIs
    <3>3. \A k \in 1..Len(text) : 1 + k - 1 = k
      OBVIOUS
    <3>4. SubSeq(text, 1, Len(text)) = text
      BY <1>2, <3>1, <3>2, <3>3, SameSeq
    <3>5. QED
      BY <3>4 DEF From
  <2>3. QED
    BY <1>2, <2>1, <2>2
<1>11. Ranked(text, Plain, said, L + 1)
  BY <1>9, <1>10 DEF said
<1>12. text' = text /\ Plain' = Plain /\ Said' = said /\ Frontier' = Frontier
  BY <1>1 DEF text, Plain, InSequence, Said, Frontier
<1>13. ColoursBehind'
  BY <1>1, <1>12 DEF ColoursBehind
<1>14. /\ said \in Seq(STRING) /\ Len(said) = Cardinality(Plain)
       /\ \A p \in Plain : said[PlainUpTo(p)] = text[p]
  <2>1. \A q \in Plain : q < L + 1
    BY <1>2, <1>4
  <2>2. {q \in Plain : q < L + 1} = Plain
    BY <2>1
  <2>3. QED
    BY <1>11, <2>1, <2>2 DEF Ranked, PlainUpTo
<1>15. \A p : PlainUpTo(p)' = PlainUpTo(p)
  BY <1>12 DEF PlainUpTo
<1>16. ColoursAreRemoved'
  BY <1>12, <1>14, <1>15 DEF ColoursAreRemoved
<1>17. QED
  BY <1>13, <1>16

\* removeANSICodes begins at the first escape, having kept nothing.
LEMMA ColoursStart ==
  ASSUME ScansInit
  PROVE  ColoursBehind /\ ColoursAreRemoved
<1>1. call \in ScanCalls /\ kept.b = << >> /\ kept.last = 1 /\ answer = NoAnswer
  BY DEF ScansInit, Nothing
<1>2. ASSUME call.function = "removeANSICodes" PROVE ColoursBehind
  <2>1. text \in Seq(STRING)
    BY <1>1, <1>2, ScanTyped
  <2>2. at = IndexFrom(text, 1, <<"esc">>)
    BY <1>2 DEF ScansInit
  <2>3. \/ at = 0 /\ \A k \in 1..Len(text) : text[k] # "esc"
        \/ at \in 1..Len(text) /\ text[at] = "esc" /\ \A k \in 1..at - 1 : text[k] # "esc"
    <3>1. 1 \in 1..Len(text) + 1
      BY <2>1
    <3>2. QED
      BY <2>1, <2>2, <3>1, EscapeFrom
  <2>4. Frontier \in 1..Len(text) + 1 /\ \A k \in 1..Frontier - 1 : text[k] # "esc"
    BY <2>1, <2>3 DEF Frontier
  <2>5. \A i, j : Sequenced(text, i, j) => text[i] = "esc"
    BY DEF Sequenced
  <2>6. Ranked(text, Plain, << >>, 1)
    <3>1. Plain \in SUBSET (1..Len(text))
      BY <2>1, PlainIs
    <3>2. {q \in Plain : q < 1} = {} /\ \A q \in Plain : ~ (q < 1)
      BY <3>1, NoneBelowOne
    <3>3. << >> \in Seq(STRING) /\ Len(<< >>) = 0
      OBVIOUS
    <3>4. QED
      BY <3>2, <3>3, FS_EmptySet DEF Ranked
  <2>7. 1 \in 1..Frontier
    BY <2>4
  <2>8. QED
    BY <1>1, <2>3, <2>4, <2>5, <2>6, <2>7 DEF ColoursBehind
<1>3. ColoursBehind
  BY <1>2 DEF ColoursBehind
<1>4. QED
  BY <1>1, <1>3 DEF ColoursAreRemoved, Answered

-----------------------------------------------------------------------------
(* resourceGroupID *)

\* Three members make a sequence.
LEMMA Three ==
  ASSUME NEW S, NEW a \in S, NEW b \in S, NEW c \in S
  PROVE  <<a, b, c>> \in Seq(S)
<1> DEFINE w == <<a, b, c>>
<1>1. w = [k \in 1..3 |-> w[k]]
  BY SMT
<1>2. Len(w) = 3 /\ w[1] = a /\ w[2] = b /\ w[3] = c
  OBVIOUS
<1>3. 1..3 = {1, 2, 3}
  OBVIOUS
<1> HIDE DEF w
<1>4. \A k \in 1..3 : w[k] \in S
  BY <1>2, <1>3
<1>5. w \in Seq(S)
  BY <1>1, <1>2, <1>4
<1>6. QED
  BY <1>5 DEF w

\* The pattern's words, piece by piece.
LEMMA Seven ==
  ASSUME NEW a, NEW b, NEW c, NEW d, NEW e, NEW f, NEW g
  PROVE  <<a, b, c>> \o <<d>> \o <<e, f, g>> = <<a, b, c, d, e, f, g>>
<1> DEFINE S == {a, b, c, d, e, f, g}
           u == <<a, b, c, d, e, f, g>>
           v == <<a, b, c>> \o <<d>> \o <<e, f, g>>
<1>0. <<a, b, c>> \in Seq(S) /\ <<d>> \in Seq(S) /\ <<e, f, g>> \in Seq(S)
  <2>1. a \in S /\ b \in S /\ c \in S /\ d \in S /\ e \in S /\ f \in S /\ g \in S
    OBVIOUS
  <2> HIDE DEF S
  <2>2. QED
    BY <2>1, Three
<1> HIDE DEF S
<1>1. v = [k \in 1..7 |-> v[k]]
  <2> DEFINE x == <<a, b, c>> \o <<d>>
  <2>1. x \in Seq(S) /\ Len(x) = 4
    BY <1>0
  <2>2. Len(<<e, f, g>>) = 3
    OBVIOUS
  <2> HIDE DEF x
  <2>3. ASSUME NEW y \in Seq(S), Len(y) = 3
        PROVE  x \o y = [k \in 1..7 |-> (x \o y)[k]]
    <3>1. x \o y \in Seq(S) /\ Len(x \o y) = 7
      <4>1. ASSUME NEW p \in Seq(S), NEW q \in Seq(S)
            PROVE  p \o q \in Seq(S) /\ Len(p \o q) = Len(p) + Len(q)
        OBVIOUS
      <4>2. x \o y \in Seq(S) /\ Len(x \o y) = Len(x) + Len(y)
        BY <2>1, <4>1
      <4>3. QED
        BY <2>1, <2>3, <4>2
    <3>2. ASSUME NEW z \in Seq(S), Len(z) = 7 PROVE z = [k \in 1..7 |-> z[k]]
      BY <3>2
    <3> DEFINE z == x \o y
    <3>3. z \in Seq(S) /\ Len(z) = 7
      BY <3>1
    <3> HIDE DEF z
    <3>4. z = [k \in 1..7 |-> z[k]]
      BY <3>2, <3>3
    <3>5. QED
      BY <3>4 DEF z
  <2>4. QED
    BY <1>0, <2>2, <2>3 DEF x
<1>2. u = [k \in 1..7 |-> u[k]]
  OBVIOUS
<1>3. /\ v[1] = a /\ v[2] = b /\ v[3] = c /\ v[4] = d /\ v[5] = e
      /\ v[6] = f /\ v[7] = g
  BY <1>0
<1>4. /\ u[1] = a /\ u[2] = b /\ u[3] = c /\ u[4] = d /\ u[5] = e
      /\ u[6] = f /\ u[7] = g
  OBVIOUS
<1>5. 1..7 = {1, 2, 3, 4, 5, 6, 7}
  OBVIOUS
<1> HIDE DEF u, v
<1>6. \A k \in 1..7 : u[k] = v[k]
  BY <1>3, <1>4, <1>5
<1>7. u = v
  BY <1>1, <1>2, <1>6
<1>8. QED
  BY <1>7 DEF u, v

\* A prefix and, from its last slash, another.
LEMMA Five ==
  ASSUME NEW a, NEW b, NEW c, NEW d, NEW e
  PROVE  <<a, b, c>> \o Tail(<<a, d, e>>) = <<a, b, c, d, e>>
<1> DEFINE S == {a, b, c, d, e}
           u == <<a, b, c, d, e>>
           v == <<a, b, c>> \o Tail(<<a, d, e>>)
<1>0. <<a, b, c>> \in Seq(S) /\ <<a, d, e>> \in Seq(S)
  <2>1. a \in S /\ b \in S /\ c \in S /\ d \in S /\ e \in S
    OBVIOUS
  <2> HIDE DEF S
  <2>2. QED
    BY <2>1, Three
<1> HIDE DEF S
<1>a. Tail(<<a, d, e>>) \in Seq(S) /\ Len(Tail(<<a, d, e>>)) = 2
       /\ Tail(<<a, d, e>>)[1] = d /\ Tail(<<a, d, e>>)[2] = e
  BY <1>0
<1>1. v = [k \in 1..5 |-> v[k]]
  BY <1>0, <1>a
<1>2. u = [k \in 1..5 |-> u[k]]
  OBVIOUS
<1>3. v[1] = a /\ v[2] = b /\ v[3] = c /\ v[4] = d /\ v[5] = e
  BY <1>0, <1>a
<1>4. u[1] = a /\ u[2] = b /\ u[3] = c /\ u[4] = d /\ u[5] = e
  OBVIOUS
<1>5. 1..5 = {1, 2, 3, 4, 5}
  OBVIOUS
<1> HIDE DEF u, v
<1>6. \A k \in 1..5 : u[k] = v[k]
  BY <1>3, <1>4, <1>5
<1>7. u = v
  BY <1>1, <1>2, <1>6
<1>8. QED
  BY <1>7 DEF u, v

\* A word of n pieces.
PiecesOf(w, n) == w = [k \in 1..n |-> w[k]] /\ Len(w) = n

\* They are at a place of a text.
PiecesAt(s, i, w, n) == i + n - 1 <= Len(s) /\ \A k \in 1..n : s[i + k - 1] = w[k]

\* It is at a place piece by piece.
LEMMA WordAt ==
  ASSUME NEW s \in Seq(STRING), NEW i \in Nat \ {0}, NEW n \in Nat \ {0},
         NEW w, PiecesOf(w, n)
  PROVE  HasAt(s, i, w) <=> PiecesAt(s, i, w, n)
<1>1. ASSUME i + n - 1 <= Len(s)
      PROVE  (SubSeq(s, i, i + n - 1) = w) <=> \A k \in 1..n : s[i + k - 1] = w[k]
  <2> DEFINE u == SubSeq(s, i, i + n - 1)
  <2>1. u = [k \in 1..n |-> u[k]]
    <3>1. (i + n - 1) - i + 1 = n
      OBVIOUS
    <3>2. QED
      BY <1>1, <3>1
  <2>2. \A k \in 1..n : u[k] = s[i + k - 1]
    BY <1>1
  <2> HIDE DEF u
  <2>3. (\A k \in 1..n : u[k] = w[k]) <=> u = w
    BY <2>1 DEF PiecesOf
  <2>4. QED
    BY <2>2, <2>3 DEF u
<1>2. QED
  BY <1>1 DEF HasAt, PiecesOf, PiecesAt

Whole == subscriptions \o <<"guid">> \o resourceGroups

\* The words of the identifier, written out.
LEMMA WordsAre ==
  /\ Whole = <<"/", "subscriptions", "/", "guid", "/", "resourcegroups", "/">>
  /\ subscriptions \o Tail(subscriptions) = <<"/", "subscriptions", "/", "subscriptions", "/">>
<1>1. Whole = <<"/", "subscriptions", "/", "guid", "/", "resourcegroups", "/">>
  BY Seven DEF Whole, subscriptions, resourceGroups
<1>2. subscriptions \o Tail(subscriptions)
        = <<"/", "subscriptions", "/", "subscriptions", "/">>
  BY Five DEF subscriptions
<1>3. QED
  BY <1>1, <1>2

\* /subscriptions/ at a place, and again where it ends, and the whole pattern's words.
LEMMA WordsAt ==
  ASSUME NEW s \in Seq(STRING), NEW i \in Nat \ {0}
  PROVE  /\ HasAt(s, i, subscriptions)
              <=> i + 2 <= Len(s) /\ s[i] = "/" /\ s[i + 1] = "subscriptions" /\ s[i + 2] = "/"
         /\ HasAt(s, i, resourceGroups)
              <=> i + 2 <= Len(s) /\ s[i] = "/" /\ s[i + 1] = "resourcegroups" /\ s[i + 2] = "/"
         /\ HasAt(s, i, subscriptions \o Tail(subscriptions))
              <=> /\ i + 4 <= Len(s) /\ s[i] = "/" /\ s[i + 1] = "subscriptions"
                  /\ s[i + 2] = "/" /\ s[i + 3] = "subscriptions" /\ s[i + 4] = "/"
         /\ HasAt(s, i, Whole)
              <=> /\ i + 6 <= Len(s) /\ s[i] = "/" /\ s[i + 1] = "subscriptions"
                  /\ s[i + 2] = "/" /\ s[i + 3] = "guid" /\ s[i + 4] = "/"
                  /\ s[i + 5] = "resourcegroups" /\ s[i + 6] = "/"
<1>1. /\ i + 1 - 1 = i /\ i + 2 - 1 = i + 1 /\ i + 3 - 1 = i + 2 /\ i + 4 - 1 = i + 3
      /\ i + 5 - 1 = i + 4 /\ i + 6 - 1 = i + 5 /\ i + 7 - 1 = i + 6
  OBVIOUS
<1>2. ASSUME NEW b, NEW w, w = <<"/", b, "/">>
      PROVE  HasAt(s, i, w) <=> i + 2 <= Len(s) /\ s[i] = "/" /\ s[i + 1] = b /\ s[i + 2] = "/"
  <2>1. /\ PiecesOf(w, 3)
        /\ w[1] = "/" /\ w[2] = b /\ w[3] = "/"
    BY <1>2 DEF PiecesOf
  <2>2. ASSUME NEW n, n = 3
        PROVE  HasAt(s, i, w) <=> i + n - 1 <= Len(s) /\ \A k \in 1..n : s[i + k - 1] = w[k]
    <3>1. n \in Nat \ {0} /\ PiecesOf(w, n)
      BY <2>1, <2>2
    <3>2. HasAt(s, i, w) <=> PiecesAt(s, i, w, n)
      BY <3>1, WordAt
    <3>3. QED
      BY <3>2 DEF PiecesAt
  <2>3. (\A k \in 1..3 : s[i + k - 1] = w[k])
          <=> s[i + 1 - 1] = w[1] /\ s[i + 2 - 1] = w[2] /\ s[i + 3 - 1] = w[3]
    <3>1. 1..3 = {1, 2, 3}
      OBVIOUS
    <3>2. QED
      BY ONLY <3>1
  <2>4. QED
    BY ONLY <1>1, <2>1, <2>2, <2>3
<1>3. ASSUME NEW w, w = <<"/", "subscriptions", "/", "subscriptions", "/">>
      PROVE  HasAt(s, i, w)
               <=> /\ i + 4 <= Len(s) /\ s[i] = "/" /\ s[i + 1] = "subscriptions"
                   /\ s[i + 2] = "/" /\ s[i + 3] = "subscriptions" /\ s[i + 4] = "/"
  <2>1. /\ PiecesOf(w, 5)
        /\ w[1] = "/" /\ w[2] = "subscriptions" /\ w[3] = "/" /\ w[4] = "subscriptions"
        /\ w[5] = "/"
    BY <1>3 DEF PiecesOf
  <2>2. ASSUME NEW n, n = 5
        PROVE  HasAt(s, i, w) <=> i + n - 1 <= Len(s) /\ \A k \in 1..n : s[i + k - 1] = w[k]
    <3>1. n \in Nat \ {0} /\ PiecesOf(w, n)
      BY <2>1, <2>2
    <3>2. HasAt(s, i, w) <=> PiecesAt(s, i, w, n)
      BY <3>1, WordAt
    <3>3. QED
      BY <3>2 DEF PiecesAt
  <2>3. (\A k \in 1..5 : s[i + k - 1] = w[k])
          <=> /\ s[i + 1 - 1] = w[1] /\ s[i + 2 - 1] = w[2] /\ s[i + 3 - 1] = w[3]
              /\ s[i + 4 - 1] = w[4] /\ s[i + 5 - 1] = w[5]
    <3>1. 1..5 = {1, 2, 3, 4, 5}
      OBVIOUS
    <3>2. QED
      BY ONLY <3>1
  <2>4. QED
    BY ONLY <1>1, <2>1, <2>2, <2>3
<1>4. ASSUME NEW w, w = <<"/", "subscriptions", "/", "guid", "/", "resourcegroups", "/">>
      PROVE  HasAt(s, i, w)
               <=> /\ i + 6 <= Len(s) /\ s[i] = "/" /\ s[i + 1] = "subscriptions"
                   /\ s[i + 2] = "/" /\ s[i + 3] = "guid" /\ s[i + 4] = "/"
                   /\ s[i + 5] = "resourcegroups" /\ s[i + 6] = "/"
  <2>1. /\ PiecesOf(w, 7)
        /\ w[1] = "/" /\ w[2] = "subscriptions" /\ w[3] = "/" /\ w[4] = "guid"
        /\ w[5] = "/" /\ w[6] = "resourcegroups" /\ w[7] = "/"
    BY <1>4 DEF PiecesOf
  <2>2. ASSUME NEW n, n = 7
        PROVE  HasAt(s, i, w) <=> i + n - 1 <= Len(s) /\ \A k \in 1..n : s[i + k - 1] = w[k]
    <3>1. n \in Nat \ {0} /\ PiecesOf(w, n)
      BY <2>1, <2>2
    <3>2. HasAt(s, i, w) <=> PiecesAt(s, i, w, n)
      BY <3>1, WordAt
    <3>3. QED
      BY <3>2 DEF PiecesAt
  <2>3. (\A k \in 1..7 : s[i + k - 1] = w[k])
          <=> /\ s[i + 1 - 1] = w[1] /\ s[i + 2 - 1] = w[2] /\ s[i + 3 - 1] = w[3]
              /\ s[i + 4 - 1] = w[4] /\ s[i + 5 - 1] = w[5] /\ s[i + 6 - 1] = w[6]
              /\ s[i + 7 - 1] = w[7]
    <3>1. 1..7 = {1, 2, 3, 4, 5, 6, 7}
      OBVIOUS
    <3>2. QED
      BY ONLY <3>1
  <2>4. QED
    BY ONLY <1>1, <2>1, <2>2, <2>3
<1>5. QED
  BY <1>2, <1>3, <1>4, WordsAre DEF subscriptions, resourceGroups

\* The end of a text's end is an end of the text.
LEMMA EndOfEnd ==
  ASSUME NEW s \in Seq(STRING), NEW a \in 1..Len(s) + 1, NEW c \in 1..Len(s) - a + 2
  PROVE  LET t == SubSeq(s, a, Len(s))
         IN  SubSeq(t, c, Len(t)) = SubSeq(s, a + c - 1, Len(s))
<1> DEFINE t == SubSeq(s, a, Len(s))
           u == SubSeq(t, c, Len(t))
           v == SubSeq(s, a + c - 1, Len(s))
<1>1. /\ Len(s) \in a - 1..Len(s) /\ Len(s) \in Nat
      /\ a + c - 1 \in 1..Len(s) + 1 /\ Len(s) \in (a + c - 1) - 1..Len(s)
  OBVIOUS
<1>2. /\ t \in Seq(STRING) /\ Len(t) = Len(s) - a + 1
      /\ \A k \in 1..Len(s) - a + 1 : t[k] = s[a + k - 1]
  BY <1>1, SubSeqIs
<1>3. /\ v \in Seq(STRING) /\ Len(v) = Len(s) - (a + c - 1) + 1
      /\ \A k \in 1..Len(s) - (a + c - 1) + 1 : v[k] = s[(a + c - 1) + k - 1]
  BY <1>1, SubSeqIs
<1> HIDE DEF t, v
<1>4. /\ u \in Seq(STRING) /\ Len(u) = Len(t) - c + 1
      /\ \A k \in 1..Len(t) - c + 1 : u[k] = t[c + k - 1]
  <2>1. c \in 1..Len(t) + 1 /\ Len(t) \in c - 1..Len(t)
    BY <1>1, <1>2
  <2>2. QED
    BY <1>2, <2>1, SubSeqIs
<1> HIDE DEF u
<1>5. Len(u) = Len(v)
  BY <1>1, <1>2, <1>3, <1>4
<1>6. ASSUME NEW k \in 1..Len(u) PROVE u[k] = v[k]
  <2>1. /\ k \in 1..Len(t) - c + 1 /\ c + k - 1 \in 1..Len(s) - a + 1
        /\ k \in 1..Len(s) - (a + c - 1) + 1
        /\ a + (c + k - 1) - 1 = (a + c - 1) + k - 1
    BY <1>1, <1>2, <1>4
  <2>2. u[k] = t[c + k - 1] /\ v[k] = s[(a + c - 1) + k - 1]
    BY <1>3, <1>4, <2>1
  <2>3. t[c + k - 1] = s[a + (c + k - 1) - 1]
    BY <1>2, <2>1
  <2>4. QED
    BY ONLY <2>1, <2>2, <2>3
<1>7. u = v
  BY <1>3, <1>4, <1>5, <1>6, SameSeq
<1>8. QED
  BY <1>7 DEF t, u, v

\* A name has a piece if and only if it does not begin with a slash, or nowhere.
LEMMA NameNotEmpty ==
  ASSUME NEW s \in Seq(STRING)
  PROVE  Name(s) # << >> <=> s # << >> /\ s[1] # "/"
<1> DEFINE slashes == {i \in DOMAIN s : s[i] = "/"}
<1>1. DOMAIN s = 1..Len(s) /\ slashes \in SUBSET Nat /\ Len(s) \in Nat
  OBVIOUS
<1>2. Name(s) = IF slashes = {} THEN s ELSE SubSeq(s, 1, Min(slashes) - 1)
  BY DEF Name
<1>3. CASE slashes = {}
  BY <1>1, <1>2, <1>3
<1>4. CASE slashes # {}
  <2> DEFINE m == Min(slashes)
  <2>1. m \in slashes /\ \A y \in slashes : m <= y
    <3> HIDE DEF slashes
    <3>1. QED
      BY <1>1, <1>4, MinOfNaturals
  <2>2. Name(s) = SubSeq(s, 1, m - 1)
    BY <1>2, <1>4
  <2>3. m \in 1..Len(s) /\ s[m] = "/"
    BY <1>1, <2>1
  <2>4. s[1] = "/" <=> m = 1
    <3>1. ASSUME s[1] = "/" PROVE m = 1
      <4>1. 1 \in slashes
        BY <1>1, <2>3, <3>1
      <4>2. m <= 1
        BY <2>1, <4>1
      <4> HIDE DEF m
      <4>3. QED
        BY <2>3, <4>2
    <3> HIDE DEF m
    <3>2. QED
      BY <2>3, <3>1
  <2> HIDE DEF m, slashes
  <2>5. Len(SubSeq(s, 1, m - 1)) = m - 1 /\ SubSeq(s, 1, m - 1) \in Seq(STRING)
    <3>1. 1 \in 1..Len(s) + 1 /\ m - 1 \in 1 - 1..Len(s) /\ (m - 1) - 1 + 1 = m - 1
      BY <2>3
    <3>2. QED
      BY <3>1, SubSeqIs
  <2>6. s # << >>
    BY <2>3
  <2>7. (Name(s) # << >>) <=> m # 1
    BY <2>2, <2>3, <2>5
  <2>8. QED
    BY <2>4, <2>6, <2>7
<1>5. QED
  BY <1>3, <1>4

\* The next /subscriptions/, from a place on.
LEMMA PrefixFrom ==
  ASSUME NEW s \in Seq(STRING), NEW x \in 1..Len(s) + 1, NEW a,
         a = IndexFrom(s, x, subscriptions)
  PROVE  \/ a = 0 /\ \A k \in x..Len(s) : ~ HasAt(s, k, subscriptions)
         \/ /\ a \in x..Len(s) /\ HasAt(s, a, subscriptions)
            /\ \A k \in x..a - 1 : ~ HasAt(s, k, subscriptions)
<1> DEFINE hits == {j \in x..Len(s) : HasAt(s, j, subscriptions)}
<1>1. a = IF hits = {} THEN 0 ELSE Min(hits)
  BY DEF IndexFrom
<1>2. hits \in SUBSET Nat
  OBVIOUS
<1>3. CASE hits = {}
  BY <1>1, <1>3
<1>4. CASE hits # {}
  <2>1. a \in hits /\ \A y \in hits : a <= y
    <3>1. a = Min(hits)
      BY <1>1, <1>4
    <3> HIDE DEF hits
    <3>2. QED
      BY <1>2, <1>4, <3>1, MinOfNaturals
  <2>2. ASSUME NEW k \in x..a - 1 PROVE ~ HasAt(s, k, subscriptions)
    <3>1. k \in x..Len(s) /\ ~ (a <= k)
      BY <2>1
    <3>2. k \notin hits
      BY <2>1, <3>1
    <3>3. QED
      BY <3>1, <3>2
  <2>3. QED
    BY <2>1, <2>2
<1>5. QED
  BY <1>3, <1>4

\* Their lengths.
LEMMA WordLengths ==
  Len(subscriptions) = 3 /\ Len(resourceGroups) = 3 /\ Len(Whole) = 7
<1>1. Len(subscriptions) = 3
  BY DEF subscriptions
<1>2. Len(resourceGroups) = 3
  BY DEF resourceGroups
<1>3. Len(Whole) = 7
  BY WordsAre
<1>4. QED
  BY <1>1, <1>2, <1>3

\* A text begins with /resourcegroups/ if the word is at its first place.
LEMMA GroupsBegin ==
  ASSUME NEW t \in Seq(STRING)
  PROVE  IsPrefix(resourceGroups, t) <=> HasAt(t, 1, resourceGroups)
<1>1. SubSeq(resourceGroups, 1, 3) = resourceGroups
  <2>1. ASSUME NEW S, NEW w \in Seq(S), Len(w) = 3 PROVE SubSeq(w, 1, 3) = w
    BY <2>1
  <2>2. resourceGroups \in Seq({"/", "resourcegroups"})
    <3>1. "/" \in {"/", "resourcegroups"} /\ "resourcegroups" \in {"/", "resourcegroups"}
      OBVIOUS
    <3>2. QED
      BY <3>1, Three DEF resourceGroups
  <2>3. QED
    BY <2>1, <2>2, WordLengths
<1>2. 1 + 3 - 1 = 3
  OBVIOUS
<1>3. QED
  BY <1>1, <1>2, WordLengths DEF IsPrefix, HasAt

\* Piece by piece, a match.
LEMMA MatchesIs ==
  ASSUME text \in Seq(STRING), NEW i \in Nat \ {0}
  PROVE  MatchesAt(i)
           <=> /\ i + 7 <= Len(text) /\ HasAt(text, i, subscriptions)
               /\ text[i + 3] = "guid" /\ text[i + 4] = "/"
               /\ text[i + 5] = "resourcegroups" /\ text[i + 6] = "/"
               /\ text[i + 7] # "/"
<1>1. MatchesAt(i) <=> HasAt(text, i, Whole) /\ i + 7 \in DOMAIN text /\ text[i + 7] # "/"
  BY DEF MatchesAt, Whole
<1>2. i + 7 \in DOMAIN text <=> i + 7 <= Len(text)
  OBVIOUS
<1>3. i + 7 <= Len(text) => i + 6 <= Len(text) /\ i + 2 <= Len(text)
  OBVIOUS
<1>4. QED
  BY ONLY text \in Seq(STRING), i \in Nat \ {0}, <1>1, <1>2, <1>3, WordsAt

\* Past a /subscriptions/, the scan asks for the rest of the pattern, and answers
\* with what matches it.
LEMMA MatchFound ==
  ASSUME text \in Seq(STRING), NEW i \in 1..Len(text), HasAt(text, i, subscriptions),
         NEW rest, rest = From(i + 3),
         NEW group, group = SubSeq(rest, 2, Len(rest)),
         NEW name, name = Name(SubSeq(group, 4, Len(group)))
  PROVE  /\ (rest # << >> /\ rest[1] = "guid" /\ IsPrefix(resourceGroups, group) /\ NameFits(name))
              <=> MatchesAt(i)
         /\ MatchesAt(i) => Whole \o name = MatchAt(i)
<1> DEFINE L == Len(text)
<1>1. i \in Nat \ {0} /\ L \in Nat /\ i + 2 <= L /\ i + 3 \in 1..L + 1 /\ L \in (i + 3) - 1..L
  BY WordsAt
<1>2. /\ rest \in Seq(STRING) /\ Len(rest) = L - (i + 3) + 1
      /\ \A k \in 1..L - (i + 3) + 1 : rest[k] = text[(i + 3) + k - 1]
  BY <1>1, SubSeqIs DEF From
<1>3. CASE Len(rest) = 0
  <2>1. rest = << >>
    BY <1>2, <1>3
  <2>2. ~ (i + 7 <= L)
    BY <1>1, <1>2, <1>3
  <2>3. QED
    BY <1>1, <2>1, <2>2, MatchesIs
<1>4. CASE Len(rest) # 0
  <2>1. rest # << >> /\ 1 \in 1..L - (i + 3) + 1 /\ (i + 3) + 1 - 1 = i + 3
    BY <1>1, <1>2, <1>4
  <2>2. rest[1] = text[i + 3]
    BY <1>2, <2>1
  <2>3. 2 \in 1..L - (i + 3) + 2 /\ (i + 3) + 2 - 1 = i + 4
    BY <1>1, <1>2, <1>4
  <2>4. group = SubSeq(text, i + 4, L)
    <3>1. ASSUME NEW c, c = 2 PROVE group = SubSeq(text, (i + 3) + c - 1, L)
      BY <1>1, <2>3, <3>1, EndOfEnd DEF From
    <3>2. QED
      BY <2>3, <3>1
  <2>5. i + 4 \in 1..L + 1 /\ L \in (i + 4) - 1..L
    BY <1>1, <1>2, <1>4
  <2>6. /\ group \in Seq(STRING) /\ Len(group) = L - (i + 4) + 1
        /\ \A k \in 1..L - (i + 4) + 1 : group[k] = text[(i + 4) + k - 1]
    BY ONLY text \in Seq(STRING), <2>4, <2>5, SubSeqIs
  <2>7. /\ IsPrefix(resourceGroups, group) => i + 6 <= L
        /\ i + 6 <= L => (IsPrefix(resourceGroups, group)
                            <=> /\ text[i + 4] = "/" /\ text[i + 5] = "resourcegroups"
                                /\ text[i + 6] = "/")
    <3>1. ASSUME NEW o, o = 1
          PROVE  IsPrefix(resourceGroups, group)
                  <=> /\ o + 2 <= Len(group) /\ group[o] = "/"
                      /\ group[o + 1] = "resourcegroups" /\ group[o + 2] = "/"
      <4>1. o \in Nat \ {0}
        BY <3>1
      <4>2. HasAt(group, o, resourceGroups)
              <=> /\ o + 2 <= Len(group) /\ group[o] = "/"
                  /\ group[o + 1] = "resourcegroups" /\ group[o + 2] = "/"
        BY <2>6, <4>1, WordsAt
      <4>3. QED
        BY <2>6, <3>1, <4>2, GroupsBegin
    <3>2. ASSUME NEW o, o = 1
          PROVE  /\ o + 2 <= Len(group) <=> i + 6 <= L
                 /\ i + 6 <= L => /\ o \in 1..L - (i + 4) + 1 /\ o + 1 \in 1..L - (i + 4) + 1
                                  /\ o + 2 \in 1..L - (i + 4) + 1
                 /\ (i + 4) + o - 1 = i + 4 /\ (i + 4) + (o + 1) - 1 = i + 5
                 /\ (i + 4) + (o + 2) - 1 = i + 6
      BY <1>1, <2>6, <3>2
    <3>3. ASSUME NEW o, o = 1, i + 6 <= L
          PROVE  group[o] = text[i + 4] /\ group[o + 1] = text[i + 5] /\ group[o + 2] = text[i + 6]
      BY <2>6, <3>2, <3>3
    <3>4. ASSUME NEW o, o = 1
          PROVE  /\ IsPrefix(resourceGroups, group) => i + 6 <= L
                 /\ i + 6 <= L => (IsPrefix(resourceGroups, group)
                                     <=> /\ text[i + 4] = "/" /\ text[i + 5] = "resourcegroups"
                                         /\ text[i + 6] = "/")
      <4>1. IsPrefix(resourceGroups, group)
              <=> /\ o + 2 <= Len(group) /\ group[o] = "/"
                  /\ group[o + 1] = "resourcegroups" /\ group[o + 2] = "/"
        BY <3>1, <3>4
      <4>2. o + 2 <= Len(group) <=> i + 6 <= L
        BY <3>2, <3>4
      <4>3. i + 6 <= L => /\ group[o] = text[i + 4] /\ group[o + 1] = text[i + 5]
                          /\ group[o + 2] = text[i + 6]
        BY <3>3, <3>4
      <4>4. QED
        BY ONLY <4>1, <4>2, <4>3
    <3>5. QED
      BY <3>4
  <2>8. CASE i + 6 <= L
    <3>1. 4 \in 1..L - (i + 4) + 2 /\ (i + 4) + 4 - 1 = i + 7
      BY <1>1, <2>8
    <3>2. SubSeq(group, 4, Len(group)) = SubSeq(text, i + 7, L)
      <4>1. ASSUME NEW c, c = 4
            PROVE  SubSeq(group, c, Len(group)) = SubSeq(text, (i + 4) + c - 1, L)
        BY <2>4, <2>5, <3>1, <4>1, EndOfEnd
      <4>2. QED
        BY <3>1, <4>1
    <3>3. name = Name(From(i + 7))
      BY <3>2 DEF From
    <3>4. i + 7 \in 1..L + 1 /\ L \in (i + 7) - 1..L
      BY <1>1, <2>8
    <3> DEFINE end == SubSeq(text, i + 7, L)
    <3>5. /\ end \in Seq(STRING) /\ Len(end) = L - (i + 7) + 1
          /\ \A k \in 1..L - (i + 7) + 1 : end[k] = text[(i + 7) + k - 1]
      BY <1>1, <3>4, SubSeqIs
    <3> HIDE DEF end
    <3>6. end # << >> <=> i + 7 <= L
      BY <1>1, <3>4, <3>5
    <3>7. i + 7 <= L => end[1] = text[i + 7]
      <4>1. SUFFICES ASSUME i + 7 <= L PROVE end[1] = text[i + 7]
        OBVIOUS
      <4>2. 1 \in 1..L - (i + 7) + 1 /\ (i + 7) + 1 - 1 = i + 7
        BY <1>1, <4>1
      <4>3. QED
        BY <3>5, <4>2
    <3>8. NameFits(name) <=> i + 7 <= L /\ text[i + 7] # "/"
      <4>1. Name(end) # << >> <=> end # << >> /\ end[1] # "/"
        BY <3>5, NameNotEmpty
      <4>2. name = Name(end)
        BY <3>3 DEF From, end
      <4>3. QED
        BY <3>6, <3>7, <4>1, <4>2 DEF NameFits
    <3>9. (rest # << >> /\ rest[1] = "guid" /\ IsPrefix(resourceGroups, group) /\ NameFits(name))
            <=> MatchesAt(i)
      BY <1>1, <2>1, <2>2, <2>7, <2>8, <3>8, MatchesIs
    <3>10. ASSUME MatchesAt(i) PROVE Whole \o name = MatchAt(i)
      <4>1. HasAt(text, i, Whole)
        BY <3>10 DEF MatchesAt, Whole
      <4>2. i + 7 - 1 = i + 6
        BY <1>1
      <4>3. SubSeq(text, i, i + 6) = Whole
        BY <4>1, <4>2, WordLengths DEF HasAt
      <4>4. QED
        BY <3>3, <4>3 DEF MatchAt
    <3>11. QED
      BY <3>9, <3>10
  <2>9. CASE ~ (i + 6 <= L)
    <3>1. ~ (i + 7 <= L)
      BY <1>1, <2>9
    <3>2. QED
      BY <1>1, <2>7, <2>9, <3>1, MatchesIs
  <2>10. QED
    BY <2>8, <2>9
<1>5. QED
  BY <1>3, <1>4

Starts  == {i \in DOMAIN text : MatchesAt(i)}
Overlap == \E i \in DOMAIN text : HasAt(text, i, subscriptions \o Tail(subscriptions))

\* No match begins behind the scan.
GroupBehind ==
  call.function = "resourceGroupID" =>
    /\ at \in 1..Len(text) + 1
    /\ ~ Overlap => \A k \in Starts : at <= k

\* Past a prefix that begins no match, the scan is behind no match either: none
\* begins at the prefix's own pieces, its last slash apart, where another prefix
\* would have to begin.
LEMMA NoneInPrefix ==
  ASSUME text \in Seq(STRING), ~ Overlap, NEW i \in 1..Len(text),
         HasAt(text, i, subscriptions), ~ MatchesAt(i),
         NEW k \in Starts, i <= k
  PROVE  i + 3 <= k
<1>1. k \in 1..Len(text) /\ k \in Nat \ {0} /\ i \in Nat \ {0} /\ MatchesAt(k) /\ Len(text) \in Nat
  BY DEF Starts
<1>2. k + 7 <= Len(text) /\ HasAt(text, k, subscriptions)
  BY <1>1, MatchesIs
<1>3. text[k] = "/" /\ text[k + 1] = "subscriptions" /\ text[k + 2] = "/"
  BY <1>1, <1>2, WordsAt
<1>4. text[i] = "/" /\ text[i + 1] = "subscriptions" /\ text[i + 2] = "/"
  BY <1>1, WordsAt
<1>5. k # i
  BY <1>1
<1>6. k # i + 1
  <2>1. "subscriptions" # "/"
    OBVIOUS
  <2>2. QED
    BY <1>3, <1>4, <2>1
<1>7. k # i + 2
  <2>1. SUFFICES ASSUME k = i + 2 PROVE FALSE
    OBVIOUS
  <2>2. k + 1 = i + 3 /\ k + 2 = i + 4 /\ i + 4 <= Len(text)
    BY <1>1, <1>2, <2>1
  <2>3. HasAt(text, i, subscriptions \o Tail(subscriptions))
    BY <1>1, <1>3, <1>4, <2>1, <2>2, WordsAt
  <2>4. i \in DOMAIN text
    OBVIOUS
  <2>5. QED
    BY <2>3, <2>4 DEF Overlap
<1>8. QED
  BY <1>1, <1>5, <1>6, <1>7

\* resourceGroupID looks at a prefix: it answers with the match there, or goes on.
LEMMA GroupFound ==
  ASSUME call \in ScanCalls, GroupBehind, Group
  PROVE  GroupBehind' /\ ScanIsPatternButOverlaps'
<1> DEFINE i == IndexFrom(text, at, subscriptions)
           rest == From(i + 3)
           group == SubSeq(rest, 2, Len(rest))
           name == Name(SubSeq(group, 4, Len(group)))
           fits == /\ rest # << >> /\ rest[1] = "guid" /\ IsPrefix(resourceGroups, group)
                   /\ NameFits(name)
<1>1. call.function = "resourceGroupID"
  BY DEF Group, Running
<1>2. text \in Seq(STRING) /\ at \in 1..Len(text) + 1
  BY <1>1, ScanTyped DEF GroupBehind
<1>3. IF i = 0 THEN Returns(<< >>)
      ELSE IF fits THEN Returns(Whole \o name) ELSE GoesOn(i + 3, kept)
  <2>1. 3 + 1 = 4
    OBVIOUS
  <2>2. QED
    BY <2>1, WordLengths DEF Group, Whole
<1>4. \/ i = 0 /\ \A k \in at..Len(text) : ~ HasAt(text, k, subscriptions)
      \/ /\ i \in at..Len(text) /\ HasAt(text, i, subscriptions)
         /\ \A k \in at..i - 1 : ~ HasAt(text, k, subscriptions)
  BY <1>2, PrefixFrom
<1>5. ASSUME NEW k \in Starts, ~ Overlap
      PROVE  k \in at..Len(text) /\ HasAt(text, k, subscriptions)
  <2>1. at <= k
    BY <1>1, <1>5 DEF GroupBehind
  <2>2. k \in 1..Len(text) /\ MatchesAt(k)
    BY <1>2 DEF Starts
  <2>3. HasAt(text, k, subscriptions)
    BY <1>2, <2>2, MatchesIs
  <2>4. QED
    BY <1>2, <2>1, <2>2, <2>3
<1>6. call' = call
  BY <1>3 DEF Returns, GoesOn
<1>7. /\ text' = text /\ Overlap' = Overlap /\ Starts' = Starts
      /\ \A starts : FirstMatch(starts)' = FirstMatch(starts)
  BY <1>6 DEF text, Overlap, Starts, MatchesAt, FirstMatch, MatchAt, From
<1>8. ScanIsPatternButOverlaps <=>
        ((Answered("resourceGroupID") /\ ~ Overlap) => Said = FirstMatch(Starts))
  BY DEF ScanIsPatternButOverlaps, Overlap, Starts
<1>9. ScanIsPatternButOverlaps' <=>
        ((Answered("resourceGroupID")' /\ ~ Overlap) => Said' = FirstMatch(Starts))
  BY <1>7 DEF ScanIsPatternButOverlaps, Overlap, Starts, FirstMatch, MatchAt, MatchesAt, From
<1> HIDE DEF i, name, fits
<1>10. CASE i = 0
  <2>1. Said' = << >> /\ at' = at
    BY <1>3, <1>10 DEF Returns, Said
  <2>2. ~ Overlap => Starts = {}
    <3>1. ASSUME ~ Overlap, NEW k \in Starts PROVE FALSE
      <4>1. k \in at..Len(text) /\ HasAt(text, k, subscriptions)
        BY <1>5, <3>1
      <4>2. \A l \in at..Len(text) : ~ HasAt(text, l, subscriptions)
        BY <1>2, <1>4, <1>10
      <4>3. QED
        BY <4>1, <4>2
    <3>2. QED
      BY <3>1
  <2>3. ~ Overlap => Said' = FirstMatch(Starts)
    BY <2>1, <2>2 DEF FirstMatch
  <2>4. QED
    BY <1>6, <1>7, <1>9, <2>1, <2>3 DEF GroupBehind
<1>11. CASE i # 0
  <2>1. /\ i \in at..Len(text) /\ HasAt(text, i, subscriptions)
        /\ \A k \in at..i - 1 : ~ HasAt(text, k, subscriptions)
    BY <1>4, <1>11
  <2>2. i \in 1..Len(text)
    BY <1>2, <2>1
  <2>3. fits <=> MatchesAt(i)
    BY <1>2, <2>1, <2>2, MatchFound DEF fits, name
  <2>4. MatchesAt(i) => Whole \o name = MatchAt(i)
    BY <1>2, <2>1, <2>2, MatchFound DEF name
  <2>5. ASSUME ~ Overlap, NEW k \in Starts PROVE k \in Nat /\ i <= k
    <3>1. k \in at..Len(text) /\ HasAt(text, k, subscriptions)
      BY <1>5, <2>5
    <3>2. ~ (k \in at..i - 1)
      BY <2>1, <3>1
    <3>3. QED
      BY <1>2, <2>1, <3>1, <3>2
  <2>6. CASE MatchesAt(i)
    <3>1. Said' = MatchAt(i) /\ at' = at
      BY <1>3, <1>11, <2>3, <2>4, <2>6 DEF Returns, Said
    <3>2. i \in Starts
      BY <1>2, <2>2, <2>6 DEF Starts
    <3>3. ASSUME ~ Overlap PROVE Said' = FirstMatch(Starts)
      <4>1. Starts \in SUBSET Nat /\ Starts # {}
        BY <1>2, <3>2 DEF Starts
      <4>2. Min(Starts) \in Starts /\ \A y \in Starts : Min(Starts) <= y
        BY <4>1, MinOfNaturals
      <4>3. Min(Starts) <= i /\ i <= Min(Starts) /\ Min(Starts) \in Nat
        BY <2>5, <3>2, <3>3, <4>2
      <4>4. Min(Starts) = i
        BY <2>2, <4>3
      <4>5. QED
        BY <3>1, <4>1, <4>4 DEF FirstMatch
    <3>4. QED
      BY <1>6, <1>7, <1>9, <3>1, <3>3 DEF GroupBehind
  <2>7. CASE ~ MatchesAt(i)
    <3>1. at' = i + 3 /\ answer' = answer
      BY <1>3, <1>11, <2>3, <2>7 DEF GoesOn
    <3>2. at' \in 1..Len(text) + 1
      <4>1. i + 2 <= Len(text)
        BY <1>2, <2>1, <2>2, WordsAt
      <4>2. QED
        BY <1>2, <2>2, <3>1, <4>1
    <3>3. ASSUME ~ Overlap, NEW k \in Starts PROVE at' <= k
      BY <1>2, <2>1, <2>2, <2>5, <2>7, <3>1, <3>3, NoneInPrefix
    <3>4. answer = NoAnswer
      BY DEF Group, Running
    <3>5. GroupBehind'
      BY <1>6, <1>7, <3>2, <3>3 DEF GroupBehind
    <3>6. QED
      BY <1>9, <3>1, <3>4, <3>5 DEF Answered
  <2>8. QED
    BY <2>6, <2>7
<1>12. QED
  BY <1>10, <1>11

\* resourceGroupID begins behind no match.
LEMMA GroupsStart ==
  ASSUME ScansInit
  PROVE  GroupBehind /\ ScanIsPatternButOverlaps
<1>1. call \in ScanCalls /\ answer = NoAnswer
  BY DEF ScansInit
<1>2. ASSUME call.function = "resourceGroupID" PROVE GroupBehind
  <2>1. at = 1 /\ text \in Seq(STRING)
    BY <1>1, <1>2, ScanTyped DEF ScansInit
  <2>2. \A k \in Starts : k \in 1..Len(text)
    BY <2>1 DEF Starts
  <2>3. QED
    BY <2>1, <2>2 DEF GroupBehind
<1>3. GroupBehind
  BY <1>2 DEF GroupBehind
<1>4. QED
  BY <1>1, <1>3 DEF ScanIsPatternButOverlaps, Answered

-----------------------------------------------------------------------------
(* Every scan *)

ScanBehind == call \in ScanCalls /\ ColoursBehind /\ GroupBehind

\* A step of one function leaves what is known of the others.
LEMMA OtherScansUntouched ==
  ASSUME ScanBehind, ScansAreTheirPatterns, ScansNext
  PROVE  /\ call' = call
         /\ call.function # "removeANSICodes" => ColoursBehind' /\ ColoursAreRemoved'
         /\ call.function # "resourceGroupID" => GroupBehind' /\ ScanIsPatternButOverlaps'
<1>1. call' = call
  <2>1. CASE pinoSeverity
    BY <2>1 DEF pinoSeverity, Returns
  <2>2. CASE Escape
    BY <2>2 DEF Escape, GoesOn
  <2>3. CASE Rest
    BY <2>3 DEF Rest, Returns
  <2>4. CASE Group
    BY <2>4 DEF Group, Returns, GoesOn
  <2>5. QED
    BY <2>1, <2>2, <2>3, <2>4 DEF ScansNext
<1>2. QED
  BY <1>1 DEF ColoursBehind, GroupBehind, ColoursAreRemoved, ScanIsPatternButOverlaps, Answered

\* Every step keeps what each scan knows, and every answer right.
LEMMA ScansStep ==
  ASSUME ScanBehind, ScansAreTheirPatterns, [ScansNext]_vars
  PROVE  ScanBehind' /\ ScansAreTheirPatterns'
<1>1. CASE ScansNext
  <2>1. /\ call' = call
        /\ call.function # "removeANSICodes" => ColoursBehind' /\ ColoursAreRemoved'
        /\ call.function # "resourceGroupID" => GroupBehind' /\ ScanIsPatternButOverlaps'
    BY <1>1, OtherScansUntouched
  <2>2. call \in ScanCalls /\ ColoursBehind /\ GroupBehind
    BY DEF ScanBehind
  <2>3. CASE pinoSeverity
    <3>1. call.function = "pinoSeverity"
      BY <2>3 DEF pinoSeverity, Running
    <3>2. QED
      BY <2>1, <2>2, <3>1 DEF ScanBehind, ScansAreTheirPatterns
  <2>4. CASE Escape \/ Rest
    <3>1. call.function = "removeANSICodes"
      BY <2>4 DEF Escape, Rest, Running
    <3>2. ColoursBehind' /\ ColoursAreRemoved'
      BY <2>2, <2>4, EscapeStep, RestStep
    <3>3. QED
      BY <2>1, <2>2, <3>1, <3>2 DEF ScanBehind, ScansAreTheirPatterns
  <2>5. CASE Group
    <3>1. call.function = "resourceGroupID"
      BY <2>5 DEF Group, Running
    <3>2. GroupBehind' /\ ScanIsPatternButOverlaps'
      BY <2>2, <2>5, GroupFound
    <3>3. QED
      BY <2>1, <2>2, <3>1, <3>2 DEF ScanBehind, ScansAreTheirPatterns
  <2>6. QED
    BY <1>1, <2>3, <2>4, <2>5 DEF ScansNext
<1>2. CASE UNCHANGED vars
  <2>1. /\ call' = call /\ at' = at /\ kept' = kept /\ answer' = answer /\ text' = text
        /\ Frontier' = Frontier /\ Plain' = Plain /\ Starts' = Starts /\ Overlap' = Overlap
        /\ Said' = Said
    BY <1>2 DEF vars, text, Frontier, Plain, InSequence, Starts, Overlap, MatchesAt, Said
  <2>2. ColoursBehind' /\ GroupBehind'
    BY <2>1 DEF ScanBehind, ColoursBehind, GroupBehind
  <2>3. ColoursAreRemoved'
    BY <2>1 DEF ScansAreTheirPatterns, ColoursAreRemoved, Answered, PlainUpTo
  <2>4. ScanIsPatternButOverlaps'
    BY <2>1 DEF ScansAreTheirPatterns, ScanIsPatternButOverlaps, Answered, FirstMatch, MatchAt,
                MatchesAt, From
  <2>5. QED
    BY <2>1, <2>2, <2>3, <2>4 DEF ScanBehind, ScansAreTheirPatterns
<1>3. QED
  BY <1>1, <1>2

\* Whatever the text, the colours the escape scan removes are the text's colour
\* sequences, and the identifier the hand-written scan finds is the pattern's first
\* match, unless a prefix begins with the slash that ends another.
THEOREM ScansExact == Scans => []ScansAreTheirPatterns
<1>1. ScansInit => ScanBehind /\ ScansAreTheirPatterns
  BY ColoursStart, GroupsStart DEF ScansInit, ScanBehind, ScansAreTheirPatterns
<1>2. ScanBehind /\ ScansAreTheirPatterns /\ [ScansNext]_vars
        => ScanBehind' /\ ScansAreTheirPatterns'
  BY ScansStep
<1>3. QED
  BY <1>1, <1>2, PTL DEF Scans

-----------------------------------------------------------------------------
(* pinoSeverity: the text of a record *)

Piece == STRING \cup Spaces \cup {"quote", "level", ":", ",", "{", "}"}

\* Two texts one after the other, piece by piece; C and D are their lengths.
Joint(j, c, d, C, D) ==
  /\ j \in Seq(Piece) /\ Len(j) = C + D
  /\ \A k \in 1..C : j[k] = c[k]
  /\ \A k \in 1..D : j[C + k] = d[k]

\* Joining two texts puts the pieces of one behind those of the other.
LEMMA JoinIs ==
  ASSUME NEW c \in Seq(Piece), NEW d \in Seq(Piece), NEW C, NEW D, C = Len(c), D = Len(d)
  PROVE  Joint(c \o d, c, d, C, D)
<1>1. c \o d \in Seq(Piece)
  OBVIOUS
<1>2. Len(c \o d) = Len(c) + Len(d)
  OBVIOUS
<1>3. \A k \in 1..Len(c) : (c \o d)[k] = c[k]
  OBVIOUS
<1>4. \A k \in 1..Len(d) : (c \o d)[Len(c) + k] = d[k]
  OBVIOUS
<1>5. QED
  BY <1>1, <1>2, <1>3, <1>4 DEF Joint

\* One piece makes a text.
LEMMA OnePiece ==
  ASSUME NEW c \in Piece
  PROVE  <<c>> \in Seq(Piece) /\ Len(<<c>>) = 1 /\ <<c>>[1] = c
OBVIOUS

\* The key of a level at a place.
KeyAt(s, p) ==
  /\ p + 3 <= Len(s)
  /\ s[p] = "quote" /\ s[p + 1] = "level" /\ s[p + 2] = "quote" /\ s[p + 3] = ":"

\* The words of levelKey, piece by piece.
LEMMA LevelKeyAt ==
  ASSUME NEW s \in Seq(Piece), NEW p \in Nat \ {0}
  PROVE  HasAt(s, p, levelKey) <=> KeyAt(s, p)
<1> DEFINE w == <<"quote", "level", "quote", ":">>
           u == SubSeq(s, p, p + 3)
<1>1. w = [k \in 1..4 |-> w[k]]
  OBVIOUS
<1>2. w[1] = "quote" /\ w[2] = "level" /\ w[3] = "quote" /\ w[4] = ":" /\ Len(w) = 4
  OBVIOUS
<1>3. ASSUME p + 3 <= Len(s)
      PROVE  u = w <=> s[p] = "quote" /\ s[p + 1] = "level" /\ s[p + 2] = "quote" /\ s[p + 3] = ":"
  <2>1. p + 3 - p + 1 = 4
    OBVIOUS
  <2>2. u = [k \in 1..4 |-> u[k]]
    BY <1>3, <2>1
  <2>3. u[1] = s[p] /\ u[2] = s[p + 1] /\ u[3] = s[p + 2] /\ u[4] = s[p + 3]
    BY <1>3
  <2>4. 1..4 = {1, 2, 3, 4}
    OBVIOUS
  <2> HIDE DEF u, w
  <2>5. u = w <=> u[1] = w[1] /\ u[2] = w[2] /\ u[3] = w[3] /\ u[4] = w[4]
    BY <1>1, <2>2, <2>4
  <2>6. QED
    BY <1>2, <2>3, <2>5
<1>4. p + 4 - 1 = p + 3
  OBVIOUS
<1>5. HasAt(s, p, w) <=> p + 3 <= Len(s) /\ u = w
  BY <1>2, <1>4 DEF HasAt
<1>6. w = levelKey
  BY DEF levelKey
<1> HIDE DEF u, w
<1>7. QED
  BY <1>3, <1>5, <1>6 DEF KeyAt

\* They are four pieces.
LEMMA LevelKeyLength == Len(levelKey) = 4
BY DEF levelKey

\* The recursion of FlattenSeq has a solution: the texts joined one by one.
Flattening(W) == CHOOSE f : f = [i \in 1..Len(W) |-> IF i = 1 THEN W[i] ELSE f[i - 1] \o W[i]]

\* It does satisfy its equation.
LEMMA FlatteningDefined ==
  ASSUME NEW W, Len(W) \in Nat
  PROVE  Flattening(W) = [i \in 1..Len(W) |-> IF i = 1 THEN W[i] ELSE Flattening(W)[i - 1] \o W[i]]
<1> DEFINE S == {m \in Nat : \E g : g = [i \in 1..m |-> IF i = 1 THEN W[i] ELSE g[i - 1] \o W[i]]}
<1>1. 0 \in S
  <2>1. 1..0 = {}
    OBVIOUS
  <2>2. [i \in 1..0 |-> i] = [i \in 1..0 |-> IF i = 1 THEN W[i] ELSE [k \in 1..0 |-> k][i - 1] \o W[i]]
    BY <2>1
  <2>3. QED
    BY <2>2
<1>2. ASSUME NEW m \in Nat, m \in S PROVE m + 1 \in S
  <2>1. PICK g : g = [i \in 1..m |-> IF i = 1 THEN W[i] ELSE g[i - 1] \o W[i]]
    BY <1>2
  <2> DEFINE h == [i \in 1..m + 1 |-> IF i = m + 1 /\ m # 0 THEN g[m] \o W[m + 1]
                                      ELSE IF i = 1 THEN W[1] ELSE g[i]]
  <2>2. ASSUME NEW i \in 1..m + 1
        PROVE  h[i] = IF i = 1 THEN W[i] ELSE h[i - 1] \o W[i]
    <3>1. CASE i = 1
      BY <3>1
    <3>2. CASE i = m + 1 /\ m # 0
      <4>1. i - 1 = m /\ i # 1 /\ m \in 1..m + 1 /\ m # m + 1
        BY <3>2
      <4>2. h[i] = g[m] \o W[i]
        BY <3>2
      <4>3. h[m] = g[m]
        <5>1. m = 1 => g[m] = W[1]
          BY <2>1
        <5>2. h[m] = IF m = 1 THEN W[1] ELSE g[m]
          BY <4>1
        <5> HIDE DEF h
        <5>3. QED
          BY <5>1, <5>2
      <4> HIDE DEF h
      <4>4. QED
        BY <4>1, <4>2, <4>3
    <3>3. CASE i # 1 /\ i # m + 1
      <4>1. i \in 1..m /\ i - 1 \in 1..m /\ i - 1 # m + 1
        BY <3>3
      <4>2. h[i] = g[i]
        BY <3>3
      <4>3. g[i] = g[i - 1] \o W[i]
        BY <2>1, <3>3, <4>1
      <4>4. h[i - 1] = g[i - 1]
        <5>1. i - 1 = 1 => g[i - 1] = W[1]
          BY <2>1, <4>1
        <5>2. h[i - 1] = IF i - 1 = 1 THEN W[1] ELSE g[i - 1]
          BY <4>1
        <5> HIDE DEF h
        <5>3. QED
          BY <5>1, <5>2
      <4> HIDE DEF h
      <4>5. QED
        BY <3>3, <4>2, <4>3, <4>4
    <3> HIDE DEF h
    <3>4. QED
      BY <3>1, <3>2, <3>3
  <2>3. h = [i \in 1..m + 1 |-> h[i]]
    OBVIOUS
  <2> HIDE DEF h
  <2>4. h = [i \in 1..m + 1 |-> IF i = 1 THEN W[i] ELSE h[i - 1] \o W[i]]
    BY <2>2, <2>3
  <2>5. \E k : k = [i \in 1..m + 1 |-> IF i = 1 THEN W[i] ELSE k[i - 1] \o W[i]]
    BY <2>4
  <2>6. m + 1 \in Nat
    OBVIOUS
  <2>7. QED
    BY <2>5, <2>6, Zenon
<1>3. Len(W) \in S
  <2> HIDE DEF S
  <2>1. QED
    BY <1>1, <1>2, Inductive
<1>4. \E g : g = [i \in 1..Len(W) |-> IF i = 1 THEN W[i] ELSE g[i - 1] \o W[i]]
  BY <1>3
<1>5. QED
  BY <1>4 DEF Flattening

\* F is how far a text has come with each of its parts W.
Parts(F, W) ==
  /\ F \in [0..Len(W) -> Seq(Piece)] /\ F[0] = << >>
  /\ \A n \in 1..Len(W) : F[n] = F[n - 1] \o W[n]

\* FlattenSeq joins its parts one by one.
LEMMA FlattenedParts ==
  ASSUME NEW W \in Seq(Seq(Piece)), Len(W) > 0
  PROVE  \E F : Parts(F, W) /\ FlattenSeq(W) = F[Len(W)]
<1> DEFINE f == Flattening(W)
           F == [n \in 0..Len(W) |-> IF n = 0 THEN << >> ELSE f[n]]
<1>1. Len(W) \in Nat /\ Len(W) # 0
  OBVIOUS
<1>2. f = [i \in 1..Len(W) |-> IF i = 1 THEN W[i] ELSE f[i - 1] \o W[i]]
  BY <1>1, FlatteningDefined
<1>3. FlattenSeq(W) = f[Len(W)]
  BY <1>1 DEF FlattenSeq, Flattening
<1> HIDE DEF f
<1>4. F[0] = << >> /\ F[Len(W)] = f[Len(W)] /\ F = [n \in 0..Len(W) |-> F[n]]
  BY <1>1
<1>5. ASSUME NEW n \in 1..Len(W)
      PROVE  F[n] = F[n - 1] \o W[n]
  <2>1. W[n] \in Seq(Piece)
    BY <1>1
  <2>2. CASE n = 1
    <3>1. F[n] = W[n] /\ F[n - 1] = << >>
      BY <1>1, <1>2, <2>2
    <3>2. << >> \o W[n] = W[n]
      BY <2>1
    <3> HIDE DEF F
    <3>3. QED
      BY <3>1, <3>2
  <2>3. CASE n # 1
    <3>1. n - 1 \in 1..Len(W) /\ n # 0 /\ n - 1 # 0
      BY <1>1, <2>3
    <3>2. F[n] = f[n] /\ F[n - 1] = f[n - 1]
      BY <1>1, <3>1
    <3> HIDE DEF F
    <3>3. QED
      BY <1>2, <2>3, <3>1, <3>2
  <2>4. QED
    BY <2>2, <2>3
<1> HIDE DEF F
<1>6. \A n \in 0..Len(W) : F[n] \in Seq(Piece)
  <2> DEFINE S == {k \in Nat : k <= Len(W) => F[k] \in Seq(Piece)}
  <2>1. 0 \in S
    <3>1. << >> \in Seq(Piece)
      OBVIOUS
    <3>2. QED
      BY <1>4, <3>1
  <2>2. ASSUME NEW k \in Nat, k \in S PROVE k + 1 \in S
    <3>1. SUFFICES ASSUME k + 1 <= Len(W) PROVE F[k + 1] \in Seq(Piece)
      OBVIOUS
    <3> DEFINE e == k + 1
    <3>2. e \in 1..Len(W) /\ e - 1 = k /\ k <= Len(W)
      BY <1>1, <3>1
    <3>3. F[k] \in Seq(Piece)
      BY <2>2, <3>2
    <3> HIDE DEF e
    <3>4. F[e] = F[e - 1] \o W[e]
      BY <1>5, <3>2
    <3>5. W[e] \in Seq(Piece)
      BY <3>2
    <3>6. F[e] \in Seq(Piece)
      BY <3>2, <3>3, <3>4, <3>5
    <3>7. QED
      BY <3>6 DEF e
  <2>3. Nat \subseteq S
    <3> HIDE DEF S
    <3>1. QED
      BY <2>1, <2>2, Inductive
  <2>4. QED
    BY <1>1, <2>3
<1>7. QED
  BY <1>1, <1>3, <1>4, <1>5, <1>6 DEF Parts

\* The parts up to one lie where they lie in the whole.
Within(s, t) == Len(s) <= Len(t) /\ \A k \in 1..Len(s) : t[k] = s[k]

\* What the first n parts make is what the first m begin with, from n on.
LEMMA PartsWithin ==
  ASSUME NEW W \in Seq(Seq(Piece)), NEW F, Parts(F, W), NEW n \in 0..Len(W), NEW m \in n..Len(W)
  PROVE  Within(F[n], F[m])
<1> DEFINE S == {d \in Nat : n + d <= Len(W) => Within(F[n], F[n + d])}
<1>1. \A i \in 0..Len(W) : F[i] \in Seq(Piece)
  BY DEF Parts
<1>2. 0 \in S
  <2>1. Len(F[n]) <= Len(F[n])
    BY <1>1
  <2>2. n + 0 = n
    OBVIOUS
  <2>3. QED
    BY <2>1, <2>2 DEF Within
<1>3. ASSUME NEW d \in Nat, d \in S PROVE d + 1 \in S
  <2>1. SUFFICES ASSUME n + d + 1 <= Len(W) PROVE Within(F[n], F[n + (d + 1)])
    OBVIOUS
  <2> DEFINE e == n + d + 1
  <2>2. e \in 1..Len(W) /\ e - 1 = n + d /\ n + (d + 1) = e /\ n + d <= Len(W) /\ n + d \in 0..Len(W)
        /\ e \in 0..Len(W)
    BY <2>1
  <2>3. F[e] = F[e - 1] \o W[e]
    BY <2>2 DEF Parts
  <2>4. Within(F[n], F[e - 1])
    BY <1>3, <2>2
  <2>5. F[n] \in Seq(Piece) /\ F[e - 1] \in Seq(Piece) /\ W[e] \in Seq(Piece) /\ F[e] \in Seq(Piece)
    BY <1>1, <2>2
  <2> HIDE DEF e
  <2>6. Joint(F[e], F[e - 1], W[e], Len(F[e - 1]), Len(W[e]))
    BY <2>3, <2>5, JoinIs
  <2>7. Len(F[e - 1]) <= Len(F[e])
    <3>1. Len(F[e]) = Len(F[e - 1]) + Len(W[e])
      BY <2>6 DEF Joint
    <3>2. \A a, b, c \in Nat : a = b + c => b <= a
      OBVIOUS
    <3>3. Len(F[e - 1]) \in Nat /\ Len(F[e]) \in Nat /\ Len(W[e]) \in Nat
      BY <2>5, LenProperties
    <3>4. QED
      BY <3>1, <3>2, <3>3, Zenon
  <2>8. \A k \in 1..Len(F[e - 1]) : F[e][k] = F[e - 1][k]
    BY <2>6 DEF Joint
  <2>9. Within(F[n], F[e])
    BY <2>4, <2>5, <2>7, <2>8 DEF Within
  <2>10. QED
    BY <2>2, <2>9
<1>4. m - n \in S
  <2> HIDE DEF S
  <2>1. Nat \subseteq S
    BY <1>2, <1>3, Inductive
  <2>2. QED
    BY <2>1
<1>5. n + (m - n) = m
  OBVIOUS
<1>6. QED
  BY <1>4, <1>5

-----------------------------------------------------------------------------
(* A member, and where the key of a level can be *)

\* What a member begins behind, and what is behind it.
Openings == {",", "{"}
Endings  == {",", "}"}

\* The marks between members are neither blanks nor parts of the key of a level, and no digits.
LEMMA MarksApart ==
  /\ Openings \subseteq Piece /\ Endings \subseteq Piece
  /\ \A x \in Openings \cup Endings \cup Spaces :
       x # "quote" /\ x # "level" /\ x # ":" /\ x \notin DOMAIN DigitOf
<1>1. Openings \subseteq Piece /\ Endings \subseteq Piece
  BY Zenon DEF Openings, Endings, Piece
<1>2. \A x \in Openings \cup Endings \cup Spaces : x # "quote"
  BY Zenon DEF Openings, Endings, Spaces
<1>3. \A x \in Openings \cup Endings \cup Spaces : x # "level"
  BY Zenon DEF Openings, Endings, Spaces
<1>4. \A x \in Openings \cup Endings \cup Spaces : x # ":"
  BY Zenon DEF Openings, Endings, Spaces
<1>5. DOMAIN DigitOf = {"0", "1", "3", "5"}
  BY DEF DigitOf
<1>6. \A x \in Openings \cup Endings \cup Spaces : x \notin {"0", "1", "3", "5"}
  BY Zenon DEF Openings, Endings, Spaces
<1>7. QED
  BY <1>1, <1>2, <1>3, <1>4, <1>5, <1>6, Zenon

\* A key of K pieces, B blanks and a value of V pieces, behind a brace or a comma.
Laid(e, key, blanks, value, K, B, V) ==
  /\ e \in Seq(Piece) /\ Len(e) = K + B + V + 4
  /\ e[1] \in Openings /\ e[2] = "quote" /\ e[K + 3] = "quote" /\ e[K + 4] = ":"
  /\ \A i \in 1..K : e[i + 2] = key[i]
  /\ \A i \in 1..B : e[K + 4 + i] = blanks[i]
  /\ \A i \in 1..V : e[K + 4 + B + i] = value[i]

\* Their lengths.
Sizes(key, blanks, value, K, B, V) == K = Len(key) /\ B = Len(blanks) /\ V = Len(value)

\* A member in pieces, written out.
LEMMA LaidOut ==
  ASSUME NEW key \in Seq(Piece), NEW blanks \in Seq(Piece), NEW value \in Seq(Piece),
         NEW K \in Nat, NEW B \in Nat, NEW V \in Nat,
         Sizes(key, blanks, value, K, B, V), NEW c \in Openings
  PROVE  Laid(<<c>> \o (<<"quote">> \o key \o <<"quote">> \o <<":">> \o blanks \o value),
              key, blanks, value, K, B, V)
<1> DEFINE q == <<"quote">>  colon == <<":">>
           s1 == q \o key
           s2 == s1 \o q
           s3 == s2 \o colon
           s4 == s3 \o blanks
           s5 == s4 \o value
           e == <<c>> \o s5
<1>1. "quote" \in Piece /\ ":" \in Piece /\ c \in Piece
  <2>1. "quote" \in Piece /\ ":" \in Piece
    BY Zenon DEF Piece
  <2>2. QED
    BY <2>1, MarksApart
<1>2. /\ q \in Seq(Piece) /\ Len(q) = 1 /\ q[1] = "quote"
      /\ colon \in Seq(Piece) /\ Len(colon) = 1 /\ colon[1] = ":"
      /\ <<c>> \in Seq(Piece) /\ Len(<<c>>) = 1 /\ <<c>>[1] = c
  BY <1>1, OnePiece
<1> HIDE DEF q, colon
<1>3. Joint(s1, q, key, 1, K)
  BY <1>2, JoinIs DEF Sizes
<1> HIDE DEF s1
<1>4. s1 \in Seq(Piece) /\ Len(s1) = 1 + K
  BY <1>3 DEF Joint
<1>5. Joint(s2, s1, q, 1 + K, 1)
  BY <1>2, <1>4, JoinIs
<1> HIDE DEF s2
<1>6. s2 \in Seq(Piece) /\ Len(s2) = 1 + K + 1
  BY <1>5 DEF Joint
<1>7. Joint(s3, s2, colon, 1 + K + 1, 1)
  BY <1>2, <1>6, JoinIs
<1> HIDE DEF s3
<1>8. s3 \in Seq(Piece) /\ Len(s3) = 1 + K + 1 + 1
  BY <1>7 DEF Joint
<1>9. Joint(s4, s3, blanks, 1 + K + 1 + 1, B)
  BY <1>8, JoinIs DEF Sizes
<1> HIDE DEF s4
<1>10. s4 \in Seq(Piece) /\ Len(s4) = 1 + K + 1 + 1 + B
  BY <1>9 DEF Joint
<1>11. Joint(s5, s4, value, 1 + K + 1 + 1 + B, V)
  BY <1>10, JoinIs DEF Sizes
<1> HIDE DEF s5
<1>12. s5 \in Seq(Piece) /\ Len(s5) = 1 + K + 1 + 1 + B + V
  BY <1>11 DEF Joint
<1>13. Joint(e, <<c>>, s5, 1, 1 + K + 1 + 1 + B + V)
  BY <1>2, <1>12, JoinIs
<1> HIDE DEF e
<1>14. e \in Seq(Piece) /\ Len(e) = K + B + V + 4
  BY <1>13 DEF Joint
<1>15. e[1] = c
  BY <1>2, <1>13 DEF Joint
<1>16. \A i \in 1..K + 3 + B + V : e[1 + i] = s5[i]
  BY <1>13 DEF Joint
<1>17. \A i \in 1..K + 3 + B : s5[i] = s4[i]
  BY <1>11 DEF Joint
<1>18. \A i \in 1..K + 3 : s4[i] = s3[i]
  BY <1>9 DEF Joint
<1>19. \A i \in 1..K + 2 : s3[i] = s2[i]
  BY <1>7 DEF Joint
<1>20. \A i \in 1..K + 1 : s2[i] = s1[i]
  BY <1>5 DEF Joint
<1>21. \A i \in 1..K + 3 : e[1 + i] = s3[i]
  BY <1>16, <1>17, <1>18
<1>22. \A i \in 1..K + 1 : e[1 + i] = s1[i]
  BY <1>19, <1>20, <1>21
<1>23. e[2] = "quote"
  <2>1. 1 \in 1..K + 1 /\ 1 + 1 = 2 /\ 1 \in 1..1
    OBVIOUS
  <2>2. s1[1] = q[1]
    BY <1>3, <2>1 DEF Joint
  <2>3. e[1 + 1] = s1[1]
    BY <1>22, <2>1
  <2>4. QED
    BY <1>2, <2>1, <2>2, <2>3
<1>24. e[K + 3] = "quote"
  <2>1. K + 2 \in 1..K + 2 /\ K + 2 \in 1..K + 3 /\ 1 + (K + 2) = K + 3 /\ 1 \in 1..1 /\ 1 + K + 1 = K + 2
    OBVIOUS
  <2>2. s2[1 + K + 1] = q[1]
    BY <1>5, <2>1 DEF Joint
  <2>3. e[1 + (K + 2)] = s2[K + 2]
    BY <1>19, <1>21, <2>1
  <2>4. QED
    BY <1>2, <2>1, <2>2, <2>3
<1>25. e[K + 4] = ":"
  <2>1. K + 3 \in 1..K + 3 /\ 1 + (K + 3) = K + 4 /\ 1 \in 1..1 /\ 1 + K + 1 + 1 = K + 3
    OBVIOUS
  <2>2. s3[1 + K + 1 + 1] = colon[1]
    BY <1>7, <2>1 DEF Joint
  <2>3. e[1 + (K + 3)] = s3[K + 3]
    BY <1>21, <2>1
  <2>4. QED
    BY <1>2, <2>1, <2>2, <2>3
<1>26. ASSUME NEW i \in 1..K PROVE e[i + 2] = key[i]
  <2>1. i + 1 \in 1..K + 1 /\ 1 + (i + 1) = i + 2 /\ 1 + i = i + 1
    OBVIOUS
  <2>2. s1[1 + i] = key[i]
    BY <1>3 DEF Joint
  <2>3. e[1 + (i + 1)] = s1[i + 1]
    BY <1>22, <2>1
  <2>4. QED
    BY <2>1, <2>2, <2>3
<1>27. ASSUME NEW i \in 1..B PROVE e[K + 4 + i] = blanks[i]
  <2>1. K + 3 + i \in 1..K + 3 + B /\ K + 3 + i \in 1..K + 3 + B + V
        /\ 1 + (K + 3 + i) = K + 4 + i /\ 1 + K + 1 + 1 + i = K + 3 + i
    OBVIOUS
  <2>2. s4[1 + K + 1 + 1 + i] = blanks[i]
    BY <1>9 DEF Joint
  <2>3. e[1 + (K + 3 + i)] = s4[K + 3 + i]
    BY <1>16, <1>17, <2>1
  <2>4. QED
    BY <2>1, <2>2, <2>3
<1>28. ASSUME NEW i \in 1..V PROVE e[K + 4 + B + i] = value[i]
  <2>1. K + 3 + B + i \in 1..K + 3 + B + V
        /\ 1 + (K + 3 + B + i) = K + 4 + B + i /\ 1 + K + 1 + 1 + B + i = K + 3 + B + i
    OBVIOUS
  <2>2. s5[1 + K + 1 + 1 + B + i] = value[i]
    BY <1>11 DEF Joint
  <2>3. e[1 + (K + 3 + B + i)] = s5[K + 3 + B + i]
    BY <1>16, <2>1
  <2>4. QED
    BY <2>1, <2>2, <2>3
<1>29. Laid(e, key, blanks, value, K, B, V)
  BY <1>14, <1>15, <1>23, <1>24, <1>25, <1>26, <1>27, <1>28 DEF Laid
<1>30. e = <<c>> \o (<<"quote">> \o key \o <<"quote">> \o <<":">> \o blanks \o value)
  BY DEF e, s5, s4, s3, s2, s1, q, colon
<1>31. QED
  BY <1>29, <1>30

\* A member's key, blanks and value are texts.
LEMMA MemberTyped ==
  ASSUME NEW m \in ObjectMember
  PROVE  /\ m.key \in Seq(Piece) /\ m.blanks \in Seq(Spaces) /\ m.blanks \in Seq(Piece)
         /\ m.value \in Seq(Piece)
<1>1. m.key \in Seq(STRING) /\ m.blanks \in Seq(Spaces) /\ m.value \in Seq(STRING)
  BY DEF ObjectMember
<1>2. STRING \subseteq Piece /\ Spaces \subseteq Piece
  BY DEF Piece
<1> HIDE DEF Piece
<1>3. \A A, S : S \subseteq Piece /\ A \in Seq(S) => A \in Seq(Piece)
  OBVIOUS
<1>4. QED
  BY <1>1, <1>2, <1>3

\* A member as it is written.
EntryIs(e, m) == Laid(e, m.key, m.blanks, m.value, Len(m.key), Len(m.blanks), Len(m.value))

\* So is the member as it is written.
LEMMA WrittenTyped ==
  ASSUME NEW m \in ObjectMember
  PROVE  WrittenMember(m) \in Seq(Piece)
<1>1. m.key \in Seq(Piece) /\ m.blanks \in Seq(Piece) /\ m.value \in Seq(Piece)
  BY MemberTyped
<1>2. "quote" \in Piece /\ ":" \in Piece
  BY Zenon DEF Piece
<1>3. <<"quote">> \in Seq(Piece) /\ <<":">> \in Seq(Piece)
  BY <1>2, OnePiece
<1>4. \A a, b : a \in Seq(Piece) /\ b \in Seq(Piece) => a \o b \in Seq(Piece)
  OBVIOUS
<1>5. Quoted(m.key) \in Seq(Piece)
  BY <1>1, <1>3, <1>4, Zenon DEF Quoted
<1>6. QED
  BY <1>1, <1>3, <1>4, <1>5, Zenon DEF WrittenMember

\* A member is written as key, colon, blanks and value, in this order.
LEMMA EntryOfMember ==
  ASSUME NEW m \in ObjectMember, NEW c \in Openings
  PROVE  EntryIs(<<c>> \o WrittenMember(m), m)
<1>1. m.key \in Seq(Piece) /\ m.blanks \in Seq(Piece) /\ m.value \in Seq(Piece)
  BY MemberTyped
<1>2. Len(m.key) \in Nat /\ Len(m.blanks) \in Nat /\ Len(m.value) \in Nat
  BY <1>1, LenProperties
<1>3. WrittenMember(m) = <<"quote">> \o m.key \o <<"quote">> \o <<":">> \o m.blanks \o m.value
  BY DEF WrittenMember, Quoted
<1>4. QED
  BY <1>1, <1>2, <1>3, LaidOut DEF EntryIs, Sizes

\* A member no part of which can be taken for the key of a level, unless it is one.
Honest(m) ==
  /\ m \in ObjectMember
  /\ m.value[1] \notin Spaces
  /\ \A j \in 1..Len(m.key) : m.key[j] = "quote" => j > 1 /\ m.key[j - 1] = "\\"
  /\ KeysIn(m) = {}
  /\ EndsInLevel(m.key) => m.key = <<"level">>

\* The key of a level in a member is the member's own.
LEMMA KeyInEntry ==
  ASSUME NEW key \in Seq(Piece), NEW blanks \in Seq(Spaces), NEW value \in Seq(Piece),
         NEW K \in Nat, NEW B \in Nat, NEW V \in Nat,
         Sizes(key, blanks, value, K, B, V),
         \A j \in 1..K : key[j] = "quote" => j > 1 /\ key[j - 1] = "\\",
         \A j \in 1..V : ~ KeyAt(value, j),
         EndsInLevel(key) => key = <<"level">>,
         NEW e, Laid(e, key, blanks, value, K, B, V),
         NEW p \in Nat \ {0}, KeyAt(e, p)
  PROVE  p = 2 /\ key = <<"level">>
<1>2. /\ Len(e) = K + B + V + 4
      /\ e[1] \in Openings /\ e[2] = "quote" /\ e[K + 3] = "quote" /\ e[K + 4] = ":"
  BY DEF Laid
<1>3. \A i \in 1..K : e[i + 2] = key[i]
  BY DEF Laid
<1>4. \A i \in 1..B : e[K + 4 + i] = blanks[i]
  BY DEF Laid
<1>5. \A i \in 1..V : e[K + 4 + B + i] = value[i]
  BY DEF Laid
<1>6. p + 3 <= Len(e) /\ e[p] = "quote" /\ e[p + 1] = "level" /\ e[p + 2] = "quote" /\ e[p + 3] = ":"
  BY DEF KeyAt
<1>7. \A i \in 1..B : e[K + 4 + i] \notin {"quote", "level", ":"}
  <2>1. \A i \in 1..B : blanks[i] \in Spaces
    BY DEF Sizes
  <2>2. \A x \in Spaces : x \notin {"quote", "level", ":"}
    BY MarksApart
  <2>3. QED
    BY <1>4, <2>1, <2>2
<1>8. p \in Nat /\ p >= 1
  OBVIOUS
<1>9. CASE p + 3 <= K + 2
  <2> DEFINE j == p + 1
  <2>1. j \in 1..K /\ j + 2 = p + 3 /\ e[j + 2] = key[j]
    BY <1>3, <1>8, <1>9
  <2>2. p # 1
    BY <1>2, <1>6
  <2>3. p \in 1..K /\ p - 1 \in 1..K /\ p - 1 + 2 = p + 1
    BY <1>8, <1>9, <2>2
  <2>4. key[p] = "quote" /\ key[p - 1] = "level"
    BY <1>3, <1>6, <2>3
  <2>5. key[p - 1] = "\\"
    BY <2>3, <2>4
  <2>6. QED
    BY <2>4, <2>5
<1>10. CASE p + 3 = K + 3
  BY <1>2, <1>6, <1>10
<1>11. CASE p + 3 = K + 4
  <2>1. p = K + 1 /\ K # 0
    BY <1>2, <1>6, <1>8, <1>11
  <2>2. K \in 1..K /\ K + 2 = p + 1
    BY <2>1
  <2>3. key[K] = "level"
    BY <1>3, <1>6, <2>2
  <2>4. K = 1 \/ key[K - 1] = "quote"
    <3>1. SUFFICES ASSUME K # 1 PROVE key[K - 1] = "quote"
      OBVIOUS
    <3>2. K - 1 \in 1..K /\ K - 1 + 2 = p
      BY <2>1, <3>1
    <3>3. QED
      BY <1>3, <1>6, <3>2
  <2>5. key # << >> /\ Len(key) = K
    BY <2>1 DEF Sizes
  <2>6. EndsInLevel(key)
    BY <2>3, <2>4, <2>5 DEF EndsInLevel, Last
  <2>7. key = <<"level">>
    BY <2>6
  <2>8. K = 1
    BY <2>5, <2>7
  <2>9. QED
    BY <2>1, <2>7, <2>8
<1>12. CASE p + 3 > K + 4 /\ p <= K + 4 + B
  <2>1. \A x \in Nat : x > K + 4 /\ x <= K + 4 + B => e[x] \notin {"quote", "level", ":"}
    <3>1. ASSUME NEW x \in Nat, x > K + 4, x <= K + 4 + B PROVE e[x] \notin {"quote", "level", ":"}
      <4>1. x - K - 4 \in 1..B /\ K + 4 + (x - K - 4) = x
        BY <3>1
      <4>2. QED
        BY <1>7, <4>1
    <3>2. QED
      BY <3>1
  <2>2. p <= K + 4
    BY <1>6, <1>8, <1>12, <2>1
  <2>3. p + 3 > K + 4 + B
    BY <1>6, <1>8, <1>12, <2>1
  <2>4. p # K + 4 /\ p + 1 # K + 4 /\ p + 2 # K + 4
    BY <1>2, <1>6
  <2>5. QED
    BY <1>8, <1>12, <2>2, <2>4
<1>13. CASE p > K + 4 + B
  <2> DEFINE j == p - K - 4 - B
  <2>1. /\ j \in 1..V /\ j + 3 \in 1..V /\ j + 1 \in 1..V /\ j + 2 \in 1..V
        /\ K + 4 + B + j = p /\ K + 4 + B + (j + 1) = p + 1
        /\ K + 4 + B + (j + 2) = p + 2 /\ K + 4 + B + (j + 3) = p + 3
    BY <1>2, <1>6, <1>8, <1>13
  <2> HIDE DEF j
  <2>2. /\ value[j] = "quote" /\ value[j + 1] = "level" /\ value[j + 2] = "quote"
        /\ value[j + 3] = ":"
    BY <1>5, <1>6, <2>1
  <2>3. KeyAt(value, j)
    <3>1. j + 3 <= V /\ V = Len(value)
      BY <2>1 DEF Sizes
    <3>2. QED
      BY <2>2, <3>1 DEF KeyAt
  <2>4. QED
    BY <2>1, <2>3
<1>14. QED
  BY <1>8, <1>9, <1>10, <1>11, <1>12, <1>13

\* In an entry of an honest member, the key of a level is the member's own.
LEMMA EntryHit ==
  ASSUME NEW m, Honest(m), NEW e, EntryIs(e, m), NEW p \in Nat \ {0}, KeyAt(e, p)
  PROVE  p = 2 /\ m.key = <<"level">>
<1>1. m.key \in Seq(Piece) /\ m.blanks \in Seq(Spaces) /\ m.value \in Seq(Piece)
  BY MemberTyped DEF Honest
<1>2. Len(m.key) \in Nat /\ Len(m.blanks) \in Nat /\ Len(m.value) \in Nat
  BY <1>1, LenProperties
<1>3. \A j \in 1..Len(m.value) : ~ KeyAt(m.value, j)
  <2>1. ASSUME NEW j \in 1..Len(m.value), KeyAt(m.value, j) PROVE FALSE
    <3>1. j \in Nat \ {0}
      OBVIOUS
    <3>2. HasAt(m.value, j, levelKey)
      BY <1>1, <2>1, <3>1, LevelKeyAt
    <3>3. j \in DOMAIN m.value
      BY <1>1
    <3>4. QED
      BY <3>2, <3>3 DEF Honest, KeysIn
  <2>2. QED
    BY <2>1
<1>4. /\ \A j \in 1..Len(m.key) : m.key[j] = "quote" => j > 1 /\ m.key[j - 1] = "\\"
      /\ EndsInLevel(m.key) => m.key = <<"level">>
  BY DEF Honest
<1> DEFINE key == m.key  blanks == m.blanks  value == m.value
           K == Len(m.key)  B == Len(m.blanks)  V == Len(m.value)
<1>5. /\ key \in Seq(Piece) /\ blanks \in Seq(Spaces) /\ value \in Seq(Piece)
      /\ K \in Nat /\ B \in Nat /\ V \in Nat
      /\ Sizes(key, blanks, value, K, B, V)
      /\ \A j \in 1..K : key[j] = "quote" => j > 1 /\ key[j - 1] = "\\"
      /\ \A j \in 1..V : ~ KeyAt(value, j)
      /\ EndsInLevel(key) => key = <<"level">>
      /\ Laid(e, key, blanks, value, K, B, V)
      /\ key = m.key
  BY <1>1, <1>2, <1>3, <1>4 DEF EntryIs, Sizes
<1> HIDE DEF key, blanks, value, K, B, V
<1>6. QED
  BY <1>5, KeyInEntry

\* An entry whose key is level has the key of a level where it begins.
LEMMA EntryOfLevel ==
  ASSUME NEW m, Honest(m), m.key = <<"level">>, NEW e, EntryIs(e, m)
  PROVE  KeyAt(e, 2)
<1>1. Len(m.key) = 1 /\ m.key[1] = "level" /\ Len(m.blanks) \in Nat /\ Len(m.value) \in Nat
  BY MemberTyped, LenProperties DEF Honest
<1>2. e[2] = "quote" /\ e[4] = "quote" /\ e[5] = ":" /\ Len(e) >= 5
  <2>1. 1 + 3 = 4 /\ 1 + 4 = 5
    OBVIOUS
  <2>2. e[2] = "quote" /\ e[1 + 3] = "quote" /\ e[1 + 4] = ":"
    BY <1>1 DEF EntryIs, Laid
  <2>3. Len(e) = 1 + Len(m.blanks) + Len(m.value) + 4
    BY <1>1 DEF EntryIs, Laid
  <2>4. \A x, a, b : a \in Nat /\ b \in Nat /\ x = 1 + a + b + 4 => x >= 5
    OBVIOUS
  <2>5. Len(e) >= 5
    BY <1>1, <2>3, <2>4, Zenon
  <2>6. QED
    BY <2>1, <2>2, <2>5
<1>3. e[3] = "level"
  <2>1. 1 \in 1..Len(m.key) /\ 1 + 2 = 3
    BY <1>1
  <2>2. QED
    BY <1>1, <2>1 DEF EntryIs, Laid
<1>4. QED
  BY <1>2, <1>3 DEF KeyAt

-----------------------------------------------------------------------------
(* The members of a record, one after the other *)

Mark(i) == IF i = 1 THEN "{" ELSE ","
Close   == "}"

Entry(m, i) == <<Mark(i)>> \o WrittenMember(m)
Entries(ms) == [i \in DOMAIN ms |-> Entry(ms[i], i)]

\* A mark begins every entry; each but the first, and the record's end, ends one.
LEMMA MarksAre ==
  /\ \A i : Mark(i) \in Openings
  /\ \A i : i # 1 => Mark(i) \in Endings
  /\ Close \in Endings
BY Zenon DEF Mark, Close, Openings, Endings

\* A record is its entries and a closing brace.
LEMMA WrittenIs ==
  ASSUME NEW ms
  PROVE  IF ms = << >> THEN Written(ms) = <<Mark(1)>> \o <<Close>>
         ELSE Written(ms) = FlattenSeq(Entries(ms)) \o <<Close>>
<1>1. CASE ms = << >>
  BY <1>1, Zenon DEF Written, Mark, Close
<1>2. CASE ms # << >>
  <2>1. Written(ms) = FlattenSeq([i \in DOMAIN ms |-> <<IF i = 1 THEN "{" ELSE ",">>
                                                    \o WrittenMember(ms[i])]) \o <<"}">>
    BY <1>2, Zenon DEF Written
  <2>2. QED
    BY <1>2, <2>1, Zenon DEF Entries, Entry, Mark, Close
<1>3. QED
  BY <1>1, <1>2

\* Each entry is its member as it is written.
LEMMA EntriesTyped ==
  ASSUME NEW ms \in Seq(ObjectMember)
  PROVE  /\ Entries(ms) \in Seq(Seq(Piece)) /\ Len(Entries(ms)) = Len(ms)
         /\ \A i \in 1..Len(ms) : EntryIs(Entries(ms)[i], ms[i])
<1> DEFINE W == Entries(ms)
<1>1. Len(ms) \in Nat /\ DOMAIN ms = 1..Len(ms)
  BY LenProperties
<1>2. W = [i \in 1..Len(ms) |-> Entry(ms[i], i)]
  BY <1>1 DEF Entries
<1> HIDE DEF W
<1>3. ASSUME NEW i \in 1..Len(ms) PROVE EntryIs(W[i], ms[i])
  <2>1. ms[i] \in ObjectMember /\ Mark(i) \in Openings
    BY MarksAre
  <2>2. EntryIs(Entry(ms[i], i), ms[i])
    BY <2>1, EntryOfMember DEF Entry
  <2>3. QED
    BY <1>2, <2>2
<1>4. \A i \in 1..Len(ms) : W[i] \in Seq(Piece)
  BY <1>3 DEF EntryIs, Laid
<1>5. W \in Seq(Seq(Piece)) /\ Len(W) = Len(ms)
  BY <1>1, <1>2, <1>4
<1>6. QED
  BY <1>3, <1>5 DEF W

\* The key of a level does not go over the mark that begins an entry.
LEMMA KeyInJoint ==
  ASSUME NEW s \in Seq(Piece), NEW e \in Seq(Piece), Len(e) > 0,
         e[1] \in Openings \cup Endings, NEW p \in Nat \ {0}, KeyAt(s \o e, p)
  PROVE  KeyAt(s, p) \/ (p - Len(s) \in Nat \ {0} /\ KeyAt(e, p - Len(s)))
<1> DEFINE t == s \o e  C == Len(s)  D == Len(e)
<1>1. C \in Nat /\ D \in Nat /\ D > 0
  BY LenProperties
<1>2. Joint(t, s, e, C, D)
  BY JoinIs
<1>3. p + 3 <= Len(t) /\ t[p] = "quote" /\ t[p + 1] = "level" /\ t[p + 2] = "quote" /\ t[p + 3] = ":"
  BY DEF KeyAt
<1> HIDE DEF t, C, D
<1>4. /\ Len(t) = C + D
      /\ \A k \in 1..C : t[k] = s[k]
      /\ \A k \in 1..D : t[C + k] = e[k]
  BY <1>2 DEF Joint
<1>5. t[C + 1] = e[1]
  BY <1>1, <1>4
<1>6. e[1] # "quote" /\ e[1] # "level" /\ e[1] # ":"
  BY MarksApart
<1>7. C + 1 # p /\ C + 1 # p + 1 /\ C + 1 # p + 2 /\ C + 1 # p + 3
  BY <1>3, <1>5, <1>6
<1>8. p + 3 <= C \/ p > C + 1
  BY <1>1, <1>7
<1>9. CASE p + 3 <= C
  <2>1. p \in 1..C /\ p + 1 \in 1..C /\ p + 2 \in 1..C /\ p + 3 \in 1..C
    BY <1>1, <1>9
  <2>2. s[p] = "quote" /\ s[p + 1] = "level" /\ s[p + 2] = "quote" /\ s[p + 3] = ":"
    BY <1>3, <1>4, <2>1
  <2>3. KeyAt(s, p)
    BY <1>9, <2>2 DEF KeyAt, C
  <2>4. QED
    BY <2>3
<1>10. CASE p > C + 1
  <2> DEFINE q == p - C
  <2>1. /\ q \in 1..D /\ q + 1 \in 1..D /\ q + 2 \in 1..D /\ q + 3 \in 1..D
        /\ C + q = p /\ C + (q + 1) = p + 1 /\ C + (q + 2) = p + 2 /\ C + (q + 3) = p + 3
    BY <1>1, <1>3, <1>4, <1>10
  <2>2. q \in Nat \ {0} /\ q + 3 <= D
    BY <1>1, <2>1
  <2> HIDE DEF q
  <2>3. e[q] = "quote" /\ e[q + 1] = "level" /\ e[q + 2] = "quote" /\ e[q + 3] = ":"
    BY <1>3, <1>4, <2>1
  <2>4. KeyAt(e, q)
    BY <2>2, <2>3 DEF KeyAt, D
  <2>5. QED
    BY <2>2, <2>4 DEF q, C
<1>11. QED
  BY <1>8, <1>9, <1>10

\* Places of the record's own levels in the text of the first n members.
OwnUpTo(ms, F, n, p) == \E k \in 1..n : ms[k].key = <<"level">> /\ p = Len(F[k - 1]) + 2

\* Every key of a level in the text of honest members is one's own, at its place.
LEMMA KeysOfParts ==
  ASSUME NEW ms \in Seq(ObjectMember), \A i \in 1..Len(ms) : Honest(ms[i]),
         NEW F, Parts(F, Entries(ms))
  PROVE  \A n \in 0..Len(ms) : \A p \in Nat \ {0} : KeyAt(F[n], p) => OwnUpTo(ms, F, n, p)
<1> DEFINE W == Entries(ms)
           S == {n \in Nat : n <= Len(ms) =>
                   \A p \in Nat \ {0} : KeyAt(F[n], p) => OwnUpTo(ms, F, n, p)}
<1>1. /\ W \in Seq(Seq(Piece)) /\ Len(W) = Len(ms) /\ Len(ms) \in Nat
      /\ \A i \in 1..Len(ms) : EntryIs(W[i], ms[i])
  BY EntriesTyped, LenProperties
<1> HIDE DEF W
<1>2. /\ F \in [0..Len(ms) -> Seq(Piece)] /\ F[0] = << >>
      /\ \A n \in 1..Len(ms) : F[n] = F[n - 1] \o W[n]
  BY <1>1 DEF Parts, W
<1>3. 0 \in S
  <2>1. \A p \in Nat \ {0} : ~ KeyAt(F[0], p)
    BY <1>2 DEF KeyAt
  <2>2. QED
    BY <2>1
<1>4. ASSUME NEW n \in Nat, n \in S PROVE n + 1 \in S
  <2>1. SUFFICES ASSUME n + 1 <= Len(ms), NEW p \in Nat \ {0}, KeyAt(F[n + 1], p)
                 PROVE  OwnUpTo(ms, F, n + 1, p)
    OBVIOUS
  <2> DEFINE e == n + 1
  <2>2. /\ e \in 1..Len(ms) /\ e - 1 = n /\ n <= Len(ms) /\ n \in 0..Len(ms) /\ e \in 1..e
        /\ 1..n \subseteq 1..e
    BY <1>1, <2>1
  <2>3. KeyAt(F[e], p)
    BY <2>1
  <2> HIDE DEF e
  <2>4. F[e] = F[n] \o W[e]
    BY <1>2, <2>2
  <2>5. F[n] \in Seq(Piece)
    BY <1>2, <2>2
  <2>6. EntryIs(W[e], ms[e]) /\ Honest(ms[e]) /\ W[e] \in Seq(Piece)
    <3>1. EntryIs(W[e], ms[e])
      BY <1>1, <2>2
    <3>2. Honest(ms[e])
      BY <2>2
    <3>3. W[e] \in Seq(Piece)
      BY <3>1 DEF EntryIs, Laid
    <3>4. QED
      BY <3>1, <3>2, <3>3
  <2>7. Len(W[e]) > 0 /\ W[e][1] \in Openings
    <3>1. ms[e] \in ObjectMember
      BY <2>2
    <3>2. Len(ms[e].key) \in Nat /\ Len(ms[e].blanks) \in Nat /\ Len(ms[e].value) \in Nat
      BY <3>1, MemberTyped, LenProperties
    <3>3. Len(W[e]) = Len(ms[e].key) + Len(ms[e].blanks) + Len(ms[e].value) + 4
      BY <2>6 DEF EntryIs, Laid
    <3>4. \A x, a, b, c : a \in Nat /\ b \in Nat /\ c \in Nat /\ x = a + b + c + 4 => x > 0
      OBVIOUS
    <3>5. Len(W[e]) > 0
      BY <3>2, <3>3, <3>4, Zenon
    <3>6. W[e][1] \in Openings
      BY <2>6 DEF EntryIs, Laid
    <3>7. QED
      BY <3>5, <3>6
  <2>8. KeyAt(F[n], p) \/ (p - Len(F[n]) \in Nat \ {0} /\ KeyAt(W[e], p - Len(F[n])))
    BY <2>3, <2>4, <2>5, <2>6, <2>7, KeyInJoint
  <2>9. CASE KeyAt(F[n], p)
    <3>1. OwnUpTo(ms, F, n, p)
      BY <1>4, <2>2, <2>9
    <3>2. OwnUpTo(ms, F, e, p)
      BY <2>2, <3>1 DEF OwnUpTo
    <3>3. QED
      BY <3>2 DEF e
  <2>10. CASE p - Len(F[n]) \in Nat \ {0} /\ KeyAt(W[e], p - Len(F[n]))
    <3>1. p - Len(F[n]) = 2 /\ ms[e].key = <<"level">>
      BY <2>6, <2>10, EntryHit
    <3>2. Len(F[n]) \in Nat
      BY <2>5, LenProperties
    <3>3. p = Len(F[n]) + 2
      BY <3>1, <3>2
    <3>4. OwnUpTo(ms, F, e, p)
      BY <2>2, <3>1, <3>3 DEF OwnUpTo
    <3>5. QED
      BY <3>4 DEF e
  <2>11. QED
    BY <2>8, <2>9, <2>10
<1>5. Nat \subseteq S
  <2> HIDE DEF S
  <2>1. QED
    BY <1>3, <1>4, Inductive
<1>6. QED
  BY <1>1, <1>5

\* Entry k of a text t, from a place on, and what comes behind it.
EntryAt(t, from, e) ==
  /\ from + Len(e) + 1 <= Len(t) /\ t[from + Len(e) + 1] \in Endings
  /\ \A y \in 1..Len(e) : t[from + y] = e[y]

\* An entry is in the text where those before it end, and a mark comes behind it.
LEMMA EntryInText ==
  ASSUME NEW ms \in Seq(ObjectMember), NEW F, Parts(F, Entries(ms)), NEW k \in 1..Len(ms)
  PROVE  EntryAt(F[Len(ms)] \o <<Close>>, Len(F[k - 1]), Entries(ms)[k])
<1> DEFINE W == Entries(ms)
           N == Len(ms)
           t == F[N] \o <<Close>>
           w == W[k]
           P == Len(F[k - 1])
           D == Len(w)
           Q == Len(F[N])
<1>1. /\ W \in Seq(Seq(Piece)) /\ Len(W) = N /\ N \in Nat
      /\ \A i \in 1..N : EntryIs(W[i], ms[i])
  BY EntriesTyped, LenProperties
<1>2. Parts(F, W)
  OBVIOUS
<1> HIDE DEF W, N
<1>3. /\ F \in [0..N -> Seq(Piece)]
      /\ \A n \in 1..N : F[n] = F[n - 1] \o W[n]
  BY <1>1, <1>2 DEF Parts
<1>4. k \in 1..N /\ k \in 0..N /\ k - 1 \in 0..N /\ N \in k..N /\ N \in 0..N
  BY <1>1 DEF N
<1>5. F[k - 1] \in Seq(Piece) /\ F[k] \in Seq(Piece) /\ F[N] \in Seq(Piece)
  BY <1>3, <1>4
<1>6. w \in Seq(Piece)
  BY <1>1, <1>4
<1>7. P \in Nat /\ D \in Nat /\ Q \in Nat
  BY <1>5, <1>6, LenProperties
<1>8. Joint(F[k], F[k - 1], w, P, D)
  <2>1. F[k] = F[k - 1] \o w
    BY <1>3, <1>4
  <2>2. QED
    BY <1>5, <1>6, <2>1, JoinIs
<1>9. Within(F[k], F[N])
  BY <1>1, <1>2, <1>4, PartsWithin
<1>10. <<Close>> \in Seq(Piece) /\ Len(<<Close>>) = 1 /\ <<Close>>[1] = Close
  BY MarksApart, MarksAre, OnePiece
<1>11. Joint(t, F[N], <<Close>>, Q, 1)
  BY <1>5, <1>10, JoinIs
<1> HIDE DEF t, w, P, D, Q
<1>12. Len(F[k]) = P + D /\ \A y \in 1..D : F[k][P + y] = w[y]
  BY <1>8 DEF Joint
<1>13. P + D <= Q /\ \A y \in 1..P + D : F[N][y] = F[k][y]
  BY <1>9, <1>12 DEF Within, Q
<1>14. Len(t) = Q + 1 /\ \A y \in 1..Q : t[y] = F[N][y]
  BY <1>11 DEF Joint
<1>15. t[Q + 1] = Close
  <2>1. 1 \in 1..1
    OBVIOUS
  <2>2. QED
    BY <1>10, <1>11, <2>1 DEF Joint
<1>16. ASSUME NEW y \in 1..D PROVE t[P + y] = w[y]
  <2>1. P + y \in 1..P + D /\ P + y \in 1..Q
    BY <1>7, <1>13
  <2>2. QED
    BY <1>12, <1>13, <1>14, <2>1
<1>17. P + D + 1 <= Len(t)
  BY <1>7, <1>13, <1>14
<1>18. t[P + D + 1] \in Endings
  <2>1. CASE k = N
    <3>1. P + D = Q
      BY <1>12, <2>1 DEF Q
    <3>2. QED
      BY <1>15, <3>1, MarksAre
  <2>2. CASE k # N
    <3> DEFINE j == k + 1
    <3>1. j \in 1..N /\ j - 1 = k /\ j \in 0..N /\ N \in j..N /\ j # 1
      BY <1>1, <1>4, <2>2
    <3> HIDE DEF j
    <3>2. F[j] = F[k] \o W[j] /\ F[j] \in Seq(Piece) /\ W[j] \in Seq(Piece)
      <4>1. F[j] = F[j - 1] \o W[j]
        BY <1>3, <3>1
      <4>2. F[j] \in Seq(Piece)
        BY <1>3, <3>1
      <4>3. W[j] \in Seq(Piece)
        BY <1>1, <3>1
      <4>4. QED
        BY <3>1, <4>1, <4>2, <4>3
    <3>3. Joint(F[j], F[k], W[j], P + D, Len(W[j]))
      BY <1>5, <1>12, <3>2, JoinIs
    <3>4. W[j][1] \in Endings /\ Len(W[j]) \in Nat /\ Len(W[j]) >= 1
      <4>1. ms[j] \in ObjectMember
        BY <3>1 DEF N
      <4>2. WrittenMember(ms[j]) \in Seq(Piece)
        BY <4>1, WrittenTyped
      <4>3. W[j] = <<Mark(j)>> \o WrittenMember(ms[j])
        BY <3>1 DEF W, Entries, Entry, N
      <4>4. Mark(j) \in Piece
        BY MarksAre, MarksApart
      <4>5. <<Mark(j)>> \in Seq(Piece) /\ Len(<<Mark(j)>>) = 1 /\ <<Mark(j)>>[1] = Mark(j)
        BY <4>4, OnePiece
      <4>6. Joint(W[j], <<Mark(j)>>, WrittenMember(ms[j]), 1, Len(WrittenMember(ms[j])))
        BY <4>2, <4>3, <4>5, JoinIs
      <4>7. 1 \in 1..1
        OBVIOUS
      <4>8. W[j][1] = Mark(j)
        BY <4>5, <4>6, <4>7 DEF Joint
      <4>9. Len(W[j]) = 1 + Len(WrittenMember(ms[j]))
        BY <4>6 DEF Joint
      <4>10. Len(WrittenMember(ms[j])) \in Nat
        BY <4>2, LenProperties
      <4>11. \A a, b : b \in Nat /\ a = 1 + b => a \in Nat /\ a >= 1
        OBVIOUS
      <4>12. Len(W[j]) \in Nat /\ Len(W[j]) >= 1
        BY <4>9, <4>10, <4>11, Zenon
      <4>13. QED
        BY <3>1, <4>8, <4>12, MarksAre
    <3>5. Within(F[j], F[N])
      BY <1>1, <1>2, <3>1, PartsWithin
    <3> DEFINE J == Len(W[j])
    <3>6. J \in Nat /\ J >= 1
      BY <3>4
    <3>7. Len(F[j]) = P + D + J /\ \A y \in 1..J : F[j][P + D + y] = W[j][y]
      BY <3>3 DEF Joint
    <3> HIDE DEF J
    <3>8. F[j][P + D + 1] = W[j][1]
      BY <3>6, <3>7
    <3>9. P + D + J <= Q /\ \A y \in 1..P + D + J : F[N][y] = F[j][y]
      BY <3>5, <3>7 DEF Within, Q
    <3>10. P + D + 1 \in 1..P + D + J /\ P + D + 1 \in 1..Q
      BY <1>7, <3>6, <3>9
    <3>11. QED
      BY <1>14, <3>4, <3>8, <3>9, <3>10
  <2>3. QED
    BY <2>1, <2>2
<1>19. EntryAt(t, P, w)
  BY <1>16, <1>17, <1>18 DEF EntryAt, D
<1>20. QED
  BY <1>19 DEF t, P, w, W, N

-----------------------------------------------------------------------------
(* The number behind the key *)

\* A member no greater than any other is the least.
LEMMA MinIs ==
  ASSUME NEW S \in SUBSET Nat, NEW x \in S, \A y \in S : x <= y
  PROVE  Min(S) = x
<1>1. Min(S) \in S /\ \A y \in S : Min(S) <= y
  BY MinOfNaturals
<1>2. Min(S) <= x /\ x <= Min(S) /\ x \in Nat /\ Min(S) \in Nat
  BY <1>1
<1>3. QED
  BY <1>2

\* The rest of a text, piece by piece.
LEMMA PartIs ==
  ASSUME NEW s \in Seq(Piece), NEW a \in 1..Len(s) + 1
  PROVE  /\ SubSeq(s, a, Len(s)) \in Seq(Piece) /\ Len(SubSeq(s, a, Len(s))) = Len(s) - a + 1
         /\ \A k \in 1..Len(s) - a + 1 : SubSeq(s, a, Len(s))[k] = s[a + k - 1]
<1>1. SubSeq(s, a, Len(s)) \in Seq(Piece)
  OBVIOUS
<1>2. Len(SubSeq(s, a, Len(s))) = Len(s) - a + 1
  OBVIOUS
<1>3. \A k \in 1..Len(s) - a + 1 : SubSeq(s, a, Len(s))[k] = s[a + k - 1]
  OBVIOUS
<1>4. QED
  BY <1>1, <1>2, <1>3

\* A text that begins with a value of V pieces, and goes on with what ends one.
ValueAt(s, value, V) ==
  /\ V + 1 <= Len(s) /\ s[V + 1] \in Endings
  /\ \A i \in 1..V : s[i] = value[i]

\* The digits a value begins with are those the text begins with.
LEMMA SameDigits ==
  ASSUME NEW s \in Seq(Piece), NEW value \in Seq(Piece), NEW V \in Nat, Len(value) = V,
         ValueAt(s, value, V)
  PROVE  DigitRun(s) = DigitRun(value)
<1> DEFINE D == DOMAIN DigitOf
           E == {i \in DOMAIN s : s[i] \notin D}
           G == {i \in DOMAIN value : value[i] \notin D}
<1>1. DOMAIN s = 1..Len(s) /\ DOMAIN value = 1..V /\ Len(s) \in Nat
  BY LenProperties
<1>2. DigitRun(s) = SubSeq(s, 1, IF E = {} THEN Len(s) ELSE Min(E) - 1)
  BY DEF DigitRun
<1>3. DigitRun(value) = SubSeq(value, 1, IF G = {} THEN V ELSE Min(G) - 1)
  BY DEF DigitRun
<1>4. s[V + 1] \notin D
  BY MarksApart DEF ValueAt
<1> HIDE DEF D
<1>5. V + 1 \in E
  BY <1>1, <1>4 DEF ValueAt
<1>6. \A i \in 1..V : i \in E <=> i \in G
  BY <1>1 DEF ValueAt
<1>7. E \in SUBSET Nat /\ G \in SUBSET (1..V) /\ G \in SUBSET Nat /\ E \in SUBSET (1..Len(s))
  BY <1>1
<1> HIDE DEF E, G
<1> DEFINE n == Min(E) - 1
<1>8. Min(E) = IF G = {} THEN V + 1 ELSE Min(G)
  <2>1. CASE G = {}
    <3>1. \A y \in E : V + 1 <= y
      BY <1>6, <1>7, <2>1
    <3>2. QED
      BY <1>5, <1>7, <2>1, <3>1, MinIs
  <2>2. CASE G # {}
    <3> DEFINE g == Min(G)
    <3>1. g \in G /\ \A y \in G : g <= y
      BY <1>7, <2>2, MinOfNaturals
    <3> HIDE DEF g
    <3>2. g \in E /\ g \in 1..V
      BY <1>6, <1>7, <3>1
    <3>3. \A y \in E : g <= y
      BY <1>6, <1>7, <3>1, <3>2
    <3>4. Min(E) = g
      BY <1>7, <3>2, <3>3, MinIs
    <3>5. QED
      BY <2>2, <3>4 DEF g
  <2>3. QED
    BY <2>1, <2>2
<1>9. n \in 0..V
  <2>1. G # {} => Min(G) \in G
    BY <1>7, MinOfNaturals
  <2>2. G # {} => Min(G) \in 1..V
    BY <1>7, <2>1
  <2>3. Min(E) \in 1..V + 1
    BY <1>8, <2>2
  <2>4. QED
    BY <2>3
<1>10. DigitRun(s) = SubSeq(s, 1, n)
  BY <1>2, <1>5
<1>11. DigitRun(value) = SubSeq(value, 1, n)
  <2>1. n = IF G = {} THEN V ELSE Min(G) - 1
    <3>1. V + 1 - 1 = V
      OBVIOUS
    <3>2. QED
      BY <1>8, <3>1
  <2> HIDE DEF n
  <2>2. QED
    BY <1>3, <2>1
<1> HIDE DEF n
<1>12. n <= V /\ n <= Len(s) /\ n \in Nat
  BY <1>9 DEF ValueAt
<1>13. SubSeq(s, 1, n) = [i \in 1..n |-> s[i]]
  BY <1>12
<1>14. SubSeq(value, 1, n) = [i \in 1..n |-> value[i]]
  BY <1>12
<1>15. \A i \in 1..n : s[i] = value[i]
  BY <1>12 DEF ValueAt
<1>16. [i \in 1..n |-> s[i]] = [i \in 1..n |-> value[i]]
  BY ONLY <1>15
<1>17. QED
  BY ONLY <1>10, <1>11, <1>13, <1>14, <1>16

\* A text that begins with B blanks and a value of V pieces, and goes on with what
\* ends one.
BlanksAndValue(rest, value, B, V) ==
  /\ Len(value) = V /\ value[1] \notin Spaces
  /\ B + V + 1 <= Len(rest) /\ rest[B + V + 1] \in Endings
  /\ \A i \in 1..B : rest[i] \in Spaces
  /\ \A i \in 1..V : rest[B + i] = value[i]

\* The blanks are skipped and the value's number is graded.
LEMMA BehindBlanks ==
  ASSUME NEW rest \in Seq(Piece), NEW value \in Seq(Piece), NEW B \in Nat, NEW V \in Nat \ {0},
         BlanksAndValue(rest, value, B, V)
  PROVE  GradeOf(SubSeq(rest, AfterBlanks(rest), Len(rest))) = GradeOf(value)
<1> DEFINE solid == {i \in DOMAIN rest : rest[i] \notin Spaces}
           s == SubSeq(rest, B + 1, Len(rest))
<1>0. /\ Len(value) = V /\ value[1] \notin Spaces
      /\ B + V + 1 <= Len(rest) /\ rest[B + V + 1] \in Endings
      /\ \A i \in 1..B : rest[i] \in Spaces
      /\ \A i \in 1..V : rest[B + i] = value[i]
  BY DEF BlanksAndValue
<1>1. DOMAIN rest = 1..Len(rest) /\ Len(rest) \in Nat
  BY LenProperties
<1>2. B + 1 \in solid
  <2>1. 1 \in 1..V /\ B + 1 \in 1..Len(rest)
    BY <1>0, <1>1
  <2>2. rest[B + 1] = value[1]
    BY <1>0, <2>1
  <2>3. QED
    BY <1>0, <1>1, <2>1, <2>2
<1>3. solid \in SUBSET Nat /\ \A y \in solid : B + 1 <= y
  BY <1>0, <1>1
<1>4. AfterBlanks(rest) = IF solid = {} THEN Len(rest) + 1 ELSE Min(solid)
  BY DEF AfterBlanks
<1> HIDE DEF solid
<1>5. AfterBlanks(rest) = B + 1
  BY <1>0, <1>2, <1>3, <1>4, MinIs
<1>6. B + 1 \in 1..Len(rest) + 1
  BY <1>0, <1>1
<1>7. /\ s \in Seq(Piece) /\ Len(s) = Len(rest) - (B + 1) + 1
      /\ \A k \in 1..Len(rest) - (B + 1) + 1 : s[k] = rest[B + 1 + k - 1]
  BY <1>0, <1>6, PartIs
<1> HIDE DEF s
<1>8. ValueAt(s, value, V)
  <2>1. V + 1 <= Len(s)
    BY <1>0, <1>1, <1>7
  <2>2. V + 1 \in 1..Len(rest) - (B + 1) + 1 /\ B + 1 + (V + 1) - 1 = B + V + 1
    BY <1>0, <1>1
  <2>3. s[V + 1] = rest[B + V + 1]
    BY <1>0, <1>7, <2>2
  <2>4. ASSUME NEW i \in 1..V PROVE s[i] = value[i]
    <3>1. i \in 1..Len(rest) - (B + 1) + 1 /\ B + 1 + i - 1 = B + i
      BY <1>0, <1>1
    <3>2. s[i] = rest[B + i]
      BY <1>0, <1>7, <3>1
    <3>3. QED
      BY <1>0, <3>2
  <2>5. QED
    BY <1>0, <2>1, <2>3, <2>4 DEF ValueAt
<1>9. DigitRun(s) = DigitRun(value)
  BY <1>0, <1>7, <1>8, SameDigits
<1>10. GradeOf(s) = GradeOf(value)
  BY <1>9, Zenon DEF GradeOf
<1>11. QED
  BY <1>5, <1>10 DEF s

\* What the scan reads behind a level of the record's own is the value's number.
LEMMA GradeOfEntry ==
  ASSUME NEW t \in Seq(Piece), NEW P \in Nat, NEW m, Honest(m), m.key = <<"level">>,
         NEW e, EntryIs(e, m), EntryAt(t, P, e), NEW rest, rest = SubSeq(t, P + 6, Len(t))
  PROVE  GradeOf(SubSeq(rest, AfterBlanks(rest), Len(rest))) = GradeOf(m.value)
<1> DEFINE B == Len(m.blanks)  V == Len(m.value)  value == m.value  blanks == m.blanks
<1>1. /\ m.blanks \in Seq(Spaces) /\ m.value \in Seq(Piece) /\ m.value # << >>
      /\ m.value[1] \notin Spaces
  BY MemberTyped DEF Honest, ObjectMember
<1>2. B \in Nat /\ V \in Nat \ {0}
  <2>1. B \in Nat /\ V \in Nat
    BY <1>1, LenProperties
  <2>2. V # 0
    BY <1>1
  <2>3. QED
    BY <2>1, <2>2
<1>3. Len(m.key) = 1
  OBVIOUS
<1>4. Laid(e, m.key, blanks, value, 1, B, V)
  BY <1>3 DEF EntryIs
<1>5. /\ value \in Seq(Piece) /\ Len(value) = V /\ value[1] \notin Spaces
      /\ \A i \in 1..B : blanks[i] \in Spaces
  BY <1>1
<1>6. value = m.value
  OBVIOUS
<1> HIDE DEF B, V, value, blanks
<1>7. /\ Len(e) = 1 + B + V + 4
      /\ \A i \in 1..B : e[1 + 4 + i] = blanks[i]
      /\ \A i \in 1..V : e[1 + 4 + B + i] = value[i]
  BY <1>4 DEF Laid
<1> DEFINE E == Len(e)
<1>8. P + E + 1 <= Len(t) /\ t[P + E + 1] \in Endings /\ \A y \in 1..E : t[P + y] = e[y]
  BY DEF EntryAt
<1>9. E = 5 + B + V
  BY <1>2, <1>7
<1> HIDE DEF E
<1>10. Len(t) \in Nat
  BY LenProperties
<1> DEFINE L == Len(t)
<1>11. L \in Nat /\ P + 6 + B + V <= L /\ t[P + 6 + B + V] \in Endings
  <2>1. P + E + 1 = P + 6 + B + V
    BY <1>2, <1>9
  <2>2. QED
    BY <1>8, <1>10, <2>1
<1>12. rest \in Seq(Piece) /\ Len(rest) = L - (P + 6) + 1
       /\ \A k \in 1..L - (P + 6) + 1 : rest[k] = t[P + 6 + k - 1]
  <2>1. P + 6 \in 1..L + 1
    BY <1>2, <1>11
  <2>2. QED
    BY <2>1, PartIs
<1> HIDE DEF L
<1>13. B + V + 1 <= Len(rest)
  BY <1>2, <1>11, <1>12
<1>14. rest[B + V + 1] \in Endings
  <2>1. B + V + 1 \in 1..L - (P + 6) + 1 /\ P + 6 + (B + V + 1) - 1 = P + 6 + B + V
    BY <1>2, <1>11
  <2>2. QED
    BY <1>11, <1>12, <2>1
<1>15. ASSUME NEW i \in 1..B PROVE rest[i] \in Spaces
  <2>1. i \in 1..L - (P + 6) + 1 /\ P + 6 + i - 1 = P + (1 + 4 + i) /\ 1 + 4 + i \in 1..E
    BY <1>2, <1>9, <1>11
  <2>2. rest[i] = blanks[i]
    BY <1>7, <1>8, <1>12, <2>1
  <2>3. QED
    BY <1>5, <2>2
<1>16. ASSUME NEW i \in 1..V PROVE rest[B + i] = value[i]
  <2>1. /\ B + i \in 1..L - (P + 6) + 1 /\ P + 6 + (B + i) - 1 = P + (1 + 4 + B + i)
        /\ 1 + 4 + B + i \in 1..E
    BY <1>2, <1>9, <1>11
  <2>2. QED
    BY <1>7, <1>8, <1>12, <2>1
<1>17. BlanksAndValue(rest, value, B, V)
  BY <1>5, <1>13, <1>14, <1>15, <1>16 DEF BlanksAndValue
<1>18. QED
  BY <1>2, <1>5, <1>6, <1>12, <1>17, BehindBlanks

-----------------------------------------------------------------------------
(* pinoSeverity *)

\* What the scan answers for a text.
Fished(t) ==
  LET i    == IndexFrom(t, 1, levelKey)
      rest == SubSeq(t, i + 4, Len(t))
  IN  IF i = 0 THEN NoText ELSE GradeOf(SubSeq(rest, AfterBlanks(rest), Len(rest)))

OwnIn(ms) == {i \in DOMAIN ms : ms[i].key = <<"level">>}
LevelIn(ms) == IF OwnIn(ms) = {} THEN NoText ELSE GradeOf(ms[Min(OwnIn(ms))].value)

\* The first place of a key in a text, if there is one.
LEMMA IndexIs ==
  ASSUME NEW t \in Seq(Piece)
  PROVE  /\ (\A p \in Nat \ {0} : ~ KeyAt(t, p)) => IndexFrom(t, 1, levelKey) = 0
         /\ \A p \in Nat \ {0} :
              (KeyAt(t, p) /\ \A q \in Nat \ {0} : KeyAt(t, q) => p <= q)
                => IndexFrom(t, 1, levelKey) = p
<1> DEFINE hits == {j \in 1..Len(t) : HasAt(t, j, levelKey)}
<1>1. Len(t) \in Nat
  BY LenProperties
<1>2. IndexFrom(t, 1, levelKey) = IF hits = {} THEN 0 ELSE Min(hits)
  BY DEF IndexFrom
<1>3. \A j \in hits : j \in Nat \ {0} /\ KeyAt(t, j)
  BY <1>1, LevelKeyAt
<1>4. \A p \in Nat \ {0} : KeyAt(t, p) => p \in hits
  <2>1. ASSUME NEW p \in Nat \ {0}, KeyAt(t, p) PROVE p \in hits
    <3>1. HasAt(t, p, levelKey)
      BY <2>1, LevelKeyAt
    <3>2. p \in 1..Len(t)
      BY <1>1, <2>1 DEF KeyAt
    <3>3. QED
      BY <3>1, <3>2
  <2>2. QED
    BY <2>1
<1> HIDE DEF hits
<1>5. ASSUME \A p \in Nat \ {0} : ~ KeyAt(t, p) PROVE IndexFrom(t, 1, levelKey) = 0
  BY <1>2, <1>3, <1>5
<1>6. ASSUME NEW p \in Nat \ {0}, KeyAt(t, p), \A q \in Nat \ {0} : KeyAt(t, q) => p <= q
      PROVE  IndexFrom(t, 1, levelKey) = p
  <2>1. p \in hits /\ hits \in SUBSET Nat /\ \A y \in hits : p <= y
    BY <1>3, <1>4, <1>6
  <2>2. Min(hits) = p /\ hits # {}
    BY <2>1, MinIs
  <2>3. QED
    BY <1>2, <2>2
<1>7. QED
  BY <1>5, <1>6

\* The scan of a record all of whose members are honest finds its own first level.
LEMMA FishedIsOwn ==
  ASSUME NEW ms \in Seq(ObjectMember), \A i \in 1..Len(ms) : Honest(ms[i])
  PROVE  Fished(Written(ms)) = LevelIn(ms)
<1> DEFINE t == Written(ms)  N == Len(ms)
<1>1. DOMAIN ms = 1..N /\ N \in Nat
  BY LenProperties
<1>2. <<Close>> \in Seq(Piece) /\ Len(<<Close>>) = 1 /\ <<Close>>[1] = Close /\ Close \in Endings
  BY MarksApart, MarksAre, OnePiece
<1>3. CASE ms = << >>
  <2>1. t = <<Mark(1)>> \o <<Close>>
    BY <1>3, WrittenIs
  <2>2. <<Mark(1)>> \in Seq(Piece) /\ Len(<<Mark(1)>>) = 1
    BY MarksApart, MarksAre, OnePiece
  <2>3. Joint(t, <<Mark(1)>>, <<Close>>, 1, 1)
    BY <1>2, <2>1, <2>2, JoinIs
  <2>4. t \in Seq(Piece) /\ Len(t) = 1 + 1
    BY <2>3 DEF Joint
  <2> HIDE DEF t
  <2>5. \A p \in Nat \ {0} : ~ KeyAt(t, p)
    BY <2>4 DEF KeyAt
  <2>6. Fished(t) = NoText
    BY <2>4, <2>5, IndexIs DEF Fished
  <2>7. OwnIn(ms) = {}
    BY <1>3 DEF OwnIn
  <2>8. QED
    BY <2>6, <2>7 DEF LevelIn, t
<1>4. CASE ms # << >>
  <2> DEFINE W == Entries(ms)
  <2>1. W \in Seq(Seq(Piece)) /\ Len(W) = N /\ \A i \in 1..N : EntryIs(W[i], ms[i])
    BY EntriesTyped
  <2>2. N > 0
    BY <1>1, <1>4
  <2> HIDE DEF W
  <2>3. PICK F : Parts(F, W) /\ FlattenSeq(W) = F[N]
    BY <2>1, <2>2, FlattenedParts
  <2>4. t = F[N] \o <<Close>>
    BY <1>4, <2>3, WrittenIs DEF W
  <2>5. /\ \A n \in 0..N : F[n] \in Seq(Piece) /\ Len(F[n]) \in Nat
        /\ N \in 0..N
    <3>1. F \in [0..N -> Seq(Piece)]
      BY <2>1, <2>3 DEF Parts
    <3> HIDE DEF N
    <3>2. \A n \in 0..N : F[n] \in Seq(Piece)
      BY <3>1
    <3>3. \A n \in 0..N : Len(F[n]) \in Nat
      BY <3>2, LenProperties
    <3>4. QED
      BY <1>1, <3>2, <3>3
  <2>6. Parts(F, Entries(ms))
    BY <2>3 DEF W
  <2>7. Joint(t, F[N], <<Close>>, Len(F[N]), 1)
    BY <1>2, <2>4, <2>5, JoinIs
  <2>8. t \in Seq(Piece)
    BY <2>7 DEF Joint
  <2> HIDE DEF N
  <2>9. ASSUME NEW k \in 1..N PROVE EntryAt(t, Len(F[k - 1]), W[k]) /\ Len(F[k - 1]) \in Nat
    <3>1. EntryAt(t, Len(F[k - 1]), W[k])
      BY <2>4, <2>6, EntryInText DEF N, W
    <3>2. k - 1 \in 0..N
      BY <1>1
    <3>3. QED
      BY <2>5, <3>1, <3>2
  <2> HIDE DEF t
  <2>10. ASSUME NEW k \in OwnIn(ms) PROVE KeyAt(t, Len(F[k - 1]) + 2)
    <3>1. k \in 1..N /\ ms[k].key = <<"level">>
      BY <1>1 DEF OwnIn
    <3>2. Honest(ms[k]) /\ EntryIs(W[k], ms[k])
      BY <2>1, <3>1 DEF N
    <3>3. KeyAt(W[k], 2)
      BY <3>1, <3>2, EntryOfLevel
    <3>4. W[k] \in Seq(Piece)
      BY <3>2 DEF EntryIs, Laid
    <3> DEFINE P == Len(F[k - 1])  D == Len(W[k])  w == W[k]
    <3>5. P \in Nat /\ D \in Nat
      BY <2>9, <3>1, <3>4, LenProperties
    <3>6. P + D + 1 <= Len(t) /\ \A y \in 1..D : t[P + y] = w[y]
      BY <2>9, <3>1 DEF EntryAt
    <3>7. 5 <= D /\ w[2] = "quote" /\ w[3] = "level" /\ w[4] = "quote" /\ w[5] = ":"
      <4>1. 2 + 3 = 5 /\ 2 + 1 = 3 /\ 2 + 2 = 4
        OBVIOUS
      <4>2. 2 + 3 <= D /\ w[2] = "quote" /\ w[2 + 1] = "level" /\ w[2 + 2] = "quote" /\ w[2 + 3] = ":"
        BY <3>3 DEF KeyAt
      <4> HIDE DEF w, D
      <4>3. QED
        BY <4>1, <4>2
    <3> HIDE DEF P, D, w
    <3> DEFINE p == P + 2
    <3>8. /\ 2 \in 1..D /\ 3 \in 1..D /\ 4 \in 1..D /\ 5 \in 1..D
          /\ P + 3 = p + 1 /\ P + 4 = p + 2 /\ P + 5 = p + 3 /\ P + 2 = p
      BY <3>5, <3>7
    <3>9. Len(t) \in Nat
      BY <2>8, LenProperties
    <3> DEFINE L == Len(t)
    <3>10. L \in Nat /\ P + D + 1 <= L
      BY <3>6, <3>9
    <3> HIDE DEF L
    <3>11. p + 3 <= L
      BY <3>5, <3>7, <3>10
    <3> HIDE DEF p
    <3>12. t[p] = "quote" /\ t[p + 1] = "level" /\ t[p + 2] = "quote" /\ t[p + 3] = ":"
      BY <3>6, <3>7, <3>8
    <3>13. KeyAt(t, p)
      BY <3>11, <3>12 DEF KeyAt, L
    <3>14. QED
      BY <3>8, <3>13 DEF P
  <2>11. ASSUME NEW p \in Nat \ {0}, KeyAt(t, p)
         PROVE  \E k \in OwnIn(ms) : p = Len(F[k - 1]) + 2
    <3>1. KeyAt(F[N] \o <<Close>>, p)
      BY <2>4, <2>11
    <3>2. KeyAt(F[N], p) \/ (p - Len(F[N]) \in Nat \ {0} /\ KeyAt(<<Close>>, p - Len(F[N])))
      <4>1. Len(<<Close>>) > 0 /\ <<Close>>[1] \in Openings \cup Endings
        BY <1>2
      <4>2. QED
        BY <1>2, <2>5, <3>1, <4>1, KeyInJoint
    <3>3. \A q \in Nat \ {0} : ~ KeyAt(<<Close>>, q)
      BY <1>2 DEF KeyAt
    <3>4. KeyAt(F[N], p)
      BY <3>2, <3>3
    <3>5. OwnUpTo(ms, F, N, p)
      BY <2>5, <2>6, <3>4, KeysOfParts DEF N
    <3>6. QED
      BY <1>1, <3>5 DEF OwnUpTo, OwnIn
  <2>12. CASE OwnIn(ms) = {}
    <3>1. \A p \in Nat \ {0} : ~ KeyAt(t, p)
      BY <2>11, <2>12
    <3>2. Fished(t) = NoText
      BY <2>8, <3>1, IndexIs DEF Fished
    <3>3. QED
      BY <2>12, <3>2 DEF LevelIn, t
  <2>13. CASE OwnIn(ms) # {}
    <3> DEFINE k == Min(OwnIn(ms))  P == Len(F[k - 1])  p == P + 2
    <3>1. OwnIn(ms) \in SUBSET Nat
      BY <1>1 DEF OwnIn
    <3>2. k \in OwnIn(ms) /\ \A j \in OwnIn(ms) : k <= j
      BY <2>13, <3>1, MinOfNaturals
    <3> HIDE DEF k
    <3>3. k \in 1..N /\ ms[k].key = <<"level">>
      BY <1>1, <3>2 DEF OwnIn
    <3>4. P \in Nat /\ EntryAt(t, P, W[k])
      BY <2>9, <3>3
    <3>5. KeyAt(t, p)
      BY <2>10, <3>2
    <3>6. ASSUME NEW q \in Nat \ {0}, KeyAt(t, q) PROVE p <= q
      <4>1. PICK j \in OwnIn(ms) : q = Len(F[j - 1]) + 2
        BY <2>11, <3>6
      <4>2. k <= j /\ j \in 1..N
        BY <1>1, <3>2 DEF OwnIn
      <4>3. k - 1 \in 0..N /\ j - 1 \in k - 1..N
        BY <1>1, <3>3, <4>2
      <4>4. Within(F[k - 1], F[j - 1])
        BY <2>1, <2>3, <4>3, PartsWithin
      <4>5. Len(F[k - 1]) <= Len(F[j - 1]) /\ Len(F[j - 1]) \in Nat
        BY <2>9, <4>2, <4>4 DEF Within
      <4> DEFINE Q == Len(F[j - 1])
      <4>6. P <= Q /\ Q \in Nat /\ q = Q + 2
        BY <4>1, <4>5
      <4> HIDE DEF P, Q
      <4>7. QED
        BY <3>4, <4>6
    <3> HIDE DEF P
    <3>7. p \in Nat \ {0} /\ p + 4 = P + 6 /\ p # 0
      BY <3>4
    <3> HIDE DEF p
    <3>8. IndexFrom(t, 1, levelKey) = p
      BY <2>8, <3>5, <3>6, <3>7, IndexIs
    <3> DEFINE rest == SubSeq(t, P + 6, Len(t))
    <3>9. rest = SubSeq(t, P + 6, Len(t))
      OBVIOUS
    <3>10. Fished(t) = GradeOf(SubSeq(rest, AfterBlanks(rest), Len(rest)))
      BY <3>7, <3>8 DEF Fished
    <3> HIDE DEF rest
    <3>11. Honest(ms[k]) /\ EntryIs(W[k], ms[k])
      BY <2>1, <3>3 DEF N
    <3>12. GradeOf(SubSeq(rest, AfterBlanks(rest), Len(rest))) = GradeOf(ms[k].value)
      BY <2>8, <3>3, <3>4, <3>9, <3>11, GradeOfEntry
    <3>13. Fished(t) = LevelIn(ms)
      BY <2>13, <3>10, <3>12 DEF LevelIn, k
    <3>14. QED
      BY <3>13 DEF t
  <2>14. QED
    BY <2>12, <2>13
<1>5. QED
  BY <1>3, <1>4

\* A call of pinoSeverity answers the record's own first level.
LEMMA PinoStep ==
  ASSUME call \in ScanCalls, pinoSeverity
  PROVE  PinoIsOwnLevel'
<1>1. call.function = "pinoSeverity"
  BY DEF pinoSeverity, Running
<1>2. PICK ms \in Records :
        call = [function |-> "pinoSeverity", text |-> Written(ms), members |-> ms]
  <2>1. \A t : call # [function |-> "removeANSICodes", text |-> t]
    BY <1>1
  <2>2. \A t : call # [function |-> "resourceGroupID", text |-> t]
    BY <1>1
  <2>3. QED
    BY <2>1, <2>2 DEF ScanCalls
<1>3. call.text = Written(ms) /\ call.members = ms
  BY <1>2
<1>4. call' = call
  BY DEF pinoSeverity, Returns
<1>5. Said' = Fished(call.text)
  BY LevelKeyLength DEF pinoSeverity, Returns, Said, Fished, From, text
<1>6. SUFFICES ASSUME \A i \in DOMAIN ms :
                        /\ KeysIn(ms[i]) = {}
                        /\ EndsInLevel(ms[i].key) => ms[i].key = <<"level">>
               PROVE  Said' = LevelIn(ms)
  BY <1>3, <1>4 DEF PinoIsOwnLevel, OwnLevel, LevelIn, OwnIn, KeysIn
<1>7. ms \in Seq(ObjectMember)
  BY ObjectsAssumption
<1>8. \A i \in 1..Len(ms) : Honest(ms[i])
  <2>1. ASSUME NEW i \in 1..Len(ms) PROVE Honest(ms[i])
    <3>1. i \in DOMAIN ms /\ ms[i] \in ObjectMember
      BY <1>7
    <3>2. /\ ms[i].value[1] \notin Spaces
          /\ \A j \in DOMAIN ms[i].key :
               ms[i].key[j] = "quote" => j > 1 /\ ms[i].key[j - 1] = "\\"
      BY <3>1, ObjectsAssumption
    <3>3. DOMAIN ms[i].key = 1..Len(ms[i].key)
      BY <3>1, MemberTyped, LenProperties
    <3>4. QED
      BY <1>6, <3>1, <3>2, <3>3 DEF Honest
  <2>2. QED
    BY <2>1
<1>9. QED
  BY <1>3, <1>5, <1>7, <1>8, FishedIsOwn

\* Whatever the record, and whatever quotes, colons and words its strings hold, the
\* level fished out of the raw line is the record's own, unless a nested or odd key
\* can be taken for it.
THEOREM PinoExact == Scans => []PinoIsOwnLevel
<1> DEFINE Known == call \in ScanCalls /\ PinoIsOwnLevel
<1>1. ScansInit => Known
  BY DEF ScansInit, PinoIsOwnLevel, Answered
<1>2. Known /\ [ScansNext]_vars => Known'
  <2>1. SUFFICES ASSUME Known, [ScansNext]_vars PROVE Known'
    OBVIOUS
  <2>2. CASE pinoSeverity
    <3>1. PinoIsOwnLevel'
      BY <2>1, <2>2, PinoStep
    <3>2. call' = call
      BY <2>2 DEF pinoSeverity, Returns
    <3>3. QED
      BY <2>1, <3>1, <3>2
  <2>3. CASE Escape \/ Rest \/ Group
    <3>1. call.function # "pinoSeverity"
      BY <2>3 DEF Escape, Rest, Group, Running
    <3>2. call' = call
      BY <2>3 DEF Escape, Rest, Group, Returns, GoesOn
    <3>3. PinoIsOwnLevel'
      BY <3>1, <3>2 DEF PinoIsOwnLevel, Answered
    <3>4. QED
      BY <2>1, <3>2, <3>3
  <2>4. CASE UNCHANGED vars
    <3>1. call' = call /\ answer' = answer
      BY <2>4 DEF vars
    <3>2. PinoIsOwnLevel'
      BY <2>1, <3>1 DEF PinoIsOwnLevel, Answered, Said, OwnLevel, KeysIn
    <3>3. QED
      BY <2>1, <3>1, <3>2
  <2>5. QED
    BY <2>1, <2>2, <2>3, <2>4 DEF ScansNext
<1>3. QED
  BY <1>1, <1>2, PTL DEF Scans
=============================================================================
