--------------------------- MODULE GateDerivation ---------------------------
(***************************************************************************)
(* The gates init derives from the pattern table: the bytes a match can    *)
(* start with, bytes at fixed positions, a byte every match contains, and  *)
(* the rarest byte of a needle.  firstBytes and posGates recognise the     *)
(* opening of a pattern's text; requiredByte walks its syntax tree.        *)
(***************************************************************************)
EXTENDS PatternTable

NoByte == "none"

-----------------------------------------------------------------------------
(* The derivations *)

Opens(re, prefix) ==
  LET t == Text(re) IN IsPrefix(prefix, IF t[1] = "(?s)" THEN Tail(t) ELSE t)
OpensAsExpr(re, r) == Opens(re, Text(r))

\* The prefixes the two classifiers look for; a group's name without its
\* closing parenthesis opens it.
InTime(rs)     == <<"^", "(?P<time>">> \o Text(Cat(rs))
YmdThen(sep, after) == InTime(<<Ymd(sep), Lit(after)>>)
LevelWords     == Start(<<lineParsers[23].re.subs[2], Lit(":")>>)
AbbreviatedLevels == Start(<<lineParsers[24].re.subs[2], Lit(":")>>)

\* Mutant: a timestamp that may be quoted is taken for a bare one.
FirstOfQuoted == Digits
QuotedOrDigit == Digits \cup {"quote"}

\* The set of first bytes; {} is the empty string, no test.
firstBytes(re) ==
  CASE Opens(re, <<"^", "quote", "?", "(?P<time>">> \o Text(D4)) -> QuotedOrDigit
    [] Opens(re, <<"^", "(?P<time>", "\\d">>) \/ Opens(re, <<"^", "\\d">>) -> Digits
    [] Opens(re, <<"^", "[">>) -> {"["}
    [] Opens(re, <<"^", "<">>) -> {"<"}
    [] Opens(re, <<"^", "%">>) -> {"%"}
    [] Opens(re, <<"^", "(?P<level>", "[IWEF]", ")">>) -> {"I", "W", "E", "F"}
    [] OpensAsExpr(re, LevelWords) -> {"I", "W", "E", "D", "T", "F", "C"}
    [] OpensAsExpr(re, AbbreviatedLevels) -> {"t", "d", "i", "w", "f", "c"}
    [] Opens(re, InTime(<<Mon, Sp, Mon, Sp>>)) -> {"M", "T", "W", "F", "S"}
    [] Opens(re, <<"^", "U", "a">>) -> {"U"}
    [] OTHER -> {}

\* `^"?` in front of a pattern.
quotedPrefix(re) == Opens(re, <<"^", "quote", "?">>)

\* Positions (from 0) and the byte wanted there.
Two(i, a, j, b) == [p \in {i, j} |-> IF p = i THEN a ELSE b]
posGates(re) ==
  LET has(prefix) == Opens(re, prefix)
                       \/ Opens(re, <<"^", "quote", "?">> \o Tail(prefix))
      gates ==
        CASE has(YmdThen("/", " ")) -> Two(4, "/", 10, " ")
          [] has(YmdThen("-", "T")) -> Two(4, "-", 10, "T")
          [] has(YmdThen("-", " ")) -> Two(4, "-", 10, " ")
          [] has(InTime(<<Mon, Sp, Mon, Sp, Class("[ \\d]", {}), D, Sp>>)) -> Two(7, " ", 10, " ")
          [] has(Text(AbbreviatedLevels) \o <<" ">>) -> Two(4, ":", 5, " ")
          [] OTHER -> [p \in {} |-> NoByte]
  IN  [quoted |-> quotedPrefix(re) /\ DOMAIN gates # {}, gates |-> gates]

byteScore(c) ==
  CASE c \in {"\t", "\n"} -> 0
    [] c \in {"|", "=", "<", ">", "%"} -> 1
    [] c \in {"(", ")", "[", "]", "#", "*", "+", "quote"} -> 2
    [] c \in {":", "_", "-", "/"} -> 3
    [] c \in Digits -> 4
    [] c \in Upper -> 5
    [] OTHER -> 6

\* The first of the rarest.
Rarest(bs) ==
  bs[CHOOSE i \in DOMAIN bs :
       \A j \in DOMAIN bs : /\ byteScore(bs[i]) <= byteScore(bs[j])
                            /\ j < i => byteScore(bs[i]) < byteScore(bs[j])]

rareByte(contain) == IF Len(contain) < 2 THEN NoByte ELSE Rarest(contain)

\* Mutant: an optional part counts as one that is there.
WalksOptional(r) == TRUE
WalksInto(r) == r.min >= 1

\* The literals in mandatory positions: alternations, optional parts and
\* classes prove nothing.
RECURSIVE Literals(_)
Literals(r) ==
  CASE r.op = "byte" /\ r.set = {r.name} -> <<r.name>>
    [] r.op = "cat"   -> FlattenSeq([i \in DOMAIN r.subs |-> Literals(r.subs[i])])
    [] r.op = "group" -> Literals(r.sub)
    [] r.op = "rep" /\ WalksInto(r) -> Literals(r.sub)
    [] OTHER -> << >>

requiredByte(re) == LET ls == Literals(re) IN IF ls = << >> THEN NoByte ELSE Rarest(ls)

\* init, for one entry.  A required byte that a position already asks for is
\* not looked for again.
Compiled(p) ==
  LET g == posGates(p.re)
      r == requiredByte(p.re)
  IN  [first |-> firstBytes(p.re), quoted |-> g.quoted, gates |-> g.gates,
       req |-> IF \E i \in DOMAIN g.gates : g.gates[i] = r THEN NoByte ELSE r,
       required |-> r, rare |-> rareByte(p.contain),
       containByte |-> IF Len(p.contain) = 1 THEN p.contain[1] ELSE NoByte]

compiledLineParsers == [i \in DOMAIN lineParsers |-> Compiled(lineParsers[i])]

\* What a gate can look at.
gateWindowStart == 4
gateWindowLen   == 8
=============================================================================
