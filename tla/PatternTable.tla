---------------------------- MODULE PatternTable ----------------------------
(***************************************************************************)
(* The pattern table of lineparser.go, entry by entry and in its order.    *)
(* Digits are one byte, and so is every letter that starts no level, month *)
(* or weekday the table names: a word keeps its first letter and length.   *)
(***************************************************************************)
EXTENDS Regex

CONSTANT IdLen       \* the length of a Lambda request ID

ASSUME IdLenAssumption == IdLen \in Nat

Digits == {"0"}
Lower  == {"t", "d", "i", "w", "f", "c", "a"}
Upper  == {"I", "W", "E", "F", "D", "T", "C", "M", "S", "U", "Z", "A"}
Spaces == {" ", "\t", "\n"}
Marks  == {"quote", "/", "-", ":", ".", ",", "+", "*", "#", "[", "]", "<", ">", "%", "|",
           "_", "=", "(", ")"}
Bytes  == Digits \cup Lower \cup Upper \cup Spaces \cup Marks

D == Class("\\d", Digits)
S == Class("\\s", Spaces)
L == Class("[a-z]", Lower)
U == Class("[A-Z]", Upper)
A == Class("[a-zA-Z]", Lower \cup Upper)
NoSpace  == Class("[^\\s]", Bytes \ Spaces)
NotClose == Class("[^]]", Bytes \ {"]"})
NotQuote == Class("[^\"]", Bytes \ {"quote"})
Dot      == Class(".", Bytes \ {"\n"})
NameByte == Class("[\\w.]", Digits \cup Lower \cup Upper \cup {"_", "."})
Sp == Lit(" ")
Q  == Lit("quote")
Times(r, n, q) == Rep(r, q, n, n)
D2 == Times(D, 2, "{2}")
D4 == Times(D, 4, "{4}")
D12 == Rep(D, "{1,2}", 1, 2)
D13 == Rep(D, "{1,3}", 1, 3)
Mon == Cat(<<U, Times(L, 2, "{2}")>>)
Start(rs) == Cat(<<At("^")>> \o rs)

Ymd(sep) == Cat(<<D4, Lit(sep), D2, Lit(sep), D2>>)
Hms      == Cat(<<D2, Lit(":"), D2, Lit(":"), D2>>)
Frac     == Opt(Par(Cat(<<Lit("."), Plus(D)>>)))
CommaFrac == Opt(Par(Cat(<<Par(Alt(<<Lit("."), Lit(",")>>)), Plus(D)>>)))
Sign     == Par(Alt(<<Lit("+"), Lit("-")>>))
Offset   == Cat(<<Sign, D2, Lit(":"), D2>>)
ZColon   == Opt(Par(Word(<<"Z", ":">>)))

ymdSlashExpr == Named("time", Cat(<<Ymd("/"), Sp, Hms, Frac>>))
msSpaceExpr  == Cat(<<Opt(Q), Named("time", Cat(<<Ymd("-"), Sp, Hms, CommaFrac>>)), Opt(Q)>>)
msSpaceTSExpr ==
  Cat(<<Opt(Q), Named("time", Cat(<<Ymd("-"), Sp, Hms, CommaFrac, Sp, Offset>>)), Opt(Q)>>)
rfc3339NanoExpr ==
  Cat(<<Opt(Q), Named("time", Cat(<<Ymd("-"), Lit("T"), Hms, Frac,
                                    Par(Alt(<<Lit("Z"), Offset>>))>>)), Opt(Q)>>)
rfc3339NanoSpaceExpr ==
  Cat(<<Opt(Q), Named("time", Cat(<<Ymd("-"), Sp, Hms, Frac, Lit("Z")>>)), Opt(Q)>>)

Level(r)   == Named("level", r)
OneCase    == Alt(<<Plus(L), Plus(U)>>)
OptLevel   == Opt(Par(Cat(<<Level(OneCase), S>>)))
Code       == Named("response_code", Plus(D))
Quoted     == Cat(<<Q, Plus(NotQuote), Q>>)
Column     == Par(Cat(<<Par(Plus(NoSpace)), S>>))
Bracketed  == Opt(Par(Cat(<<Plus(Class("[^\\s\\]]", Bytes \ (Spaces \cup {"]"}))), Plus(S)>>)))

\* The literal words of an alternation, by first letter and length.
Spelled(first, n) == Word([i \in 1..n |-> IF i = 1 THEN first ELSE "A"])
spelled(first, n) == Word([i \in 1..n |-> IF i = 1 THEN first ELSE "a"])

\* Longer phrases keep their punctuation.
PanicText     == <<"a", ":", " ", "a", " ", "a">>
UnhandledText == <<"U", "a", " ", "a", ".", " ">>
TracebackText == <<"T", "a", " ", "(", "a", ")", ":", "\n">>

nginxPrefix ==
  Start(<<Plus(Class("[^[\\s-]", Bytes \ (Spaces \cup {"[", "-"}))), S, Lit("-"), S>>)
redisPrefix ==
  Start(<<Plus(D), Lit(":"), Class("[XCSM]", {"C", "S", "M"}), S>>)
Entry(contain, re) == [contain |-> contain, re |-> re]
Dashed == <<" ", "-", " ">>

lineParsers ==
  << Entry(<< >>, Start(<<ymdSlashExpr, S, Lit("["), Level(Plus(A)), Lit("]")>>)),
     Entry(<<"\t">>, Start(<<rfc3339NanoExpr, Lit("\t"),
       Times(Class("[0-9a-fA-F-]", {"0", "a", "d", "A", "-"}), IdLen, "{36}"),
       Lit("\t"), Level(Plus(U)), Lit("\t")>>)),
     Entry(<< >>, Start(<<rfc3339NanoExpr, Plus(S), OptLevel>>)),
     Entry(<< >>, Start(<<rfc3339NanoSpaceExpr, Plus(S), OptLevel>>)),
     Entry(<< >>, Start(<<Lit("["), msSpaceExpr, Lit("]"),
       Par(Alt(<<Cat(<<Lit("["), Plus(D), Word(<<"]", "[">>), Level(OneCase), Lit("]")>>),
                 Cat(<<Plus(S), Level(OneCase), At("\\b")>>)>>))>>)),
     Entry(<< >>, Start(<<msSpaceExpr, Plus(S), Opt(Lit("[")), Level(OneCase),
       Par(Alt(<<Lit("]"), S>>))>>)),
     Entry(<< >>, Start(<<Lit("["), Named("time", Cat(<<D2, Lit("/"), D2, Lit("/"), D4, Sp, Hms>>)),
       Sp, Level(Plus(U)), Sp, Plus(NoSpace), Sp, Plus(D), Star(S), Lit("]")>>)),
     Entry(<< >>, Start(<<Lit("["), Bracketed, rfc3339NanoExpr, Plus(S), Level(Plus(U)),
       Plus(S), Plus(NoSpace), Lit("]")>>)),
     Entry(<< >>, Start(<<Lit("["), Bracketed, rfc3339NanoSpaceExpr, Plus(S), Level(Plus(U)),
       Plus(S), Plus(NoSpace), Lit("]")>>)),
     Entry(Dashed, Cat(<<nginxPrefix,
       Par(Alt(<<Lit("-"), Plus(Class("[^\\s[]", Bytes \ (Spaces \cup {"["})))>>)), S, Lit("["),
       Named("time", Plus(NotClose)), Lit("]"), Plus(S),
       Par(Alt(<<Cat(<<Code, Plus(S), Quoted>>), Cat(<<Quoted, S, Code>>),
                 Cat(<<Q, Times(Column, 3, "{3}"), Code>>)>>)), S>>)),
     Entry(<< >>, Start(<<msSpaceTSExpr, Word(<<" ", "[">>), Plus(NotClose), Lit("]"), S,
       Level(Plus(U)), Lit(":")>>)),
     Entry(<<"[">>, Start(<<Times(Column, 5, "{5}"), Lit("["), ymdSlashExpr, Lit("]"), Plus(S),
       Times(Column, 3, "{3}"), Quoted, Plus(S), Plus(NoSpace), Plus(S), Quoted, Plus(S), Code>>)),
     Entry(<< >>, Start(<<Level(Class("[IWEF]", {"I", "W", "E", "F"})),
       Par(Opt(Named("ktime", Cat(<<D4, Sp, Hms, Par(Alt(<<Lit("."), Lit(",")>>)), Plus(D)>>)))),
       Plus(S), Plus(D), Plus(S), Plus(Class("[^ :]", Bytes \ {" ", ":"})), Lit(":"), Plus(D),
       Lit("]")>>)),
     Entry(<< >>, Start(<<ymdSlashExpr, ZColon, S, Times(Column, 2, "{2}"), Quoted, S, Code, S>>)),
     Entry(<< >>, Cat(<<redisPrefix,
       Named("time", Cat(<<D12, S, U, Plus(L), S, D4, S, Hms, Frac>>)), S,
       Named("redis_level", Class("[.*#-]", {".", "*", "#", "-"})), S>>)),
     Entry(<<"[">>, Start(<<Lit("["), ymdSlashExpr, Lit("]"), S, Lit("["),
       Plus(Class("[a-z_.]", Lower \cup {"_", "."})), Lit(":"), Plus(D), Lit("]"), S,
       Level(Plus(A)), Lit(":"), S>>)),
     Entry(<<"[">>, Start(<<Lit("["), ymdSlashExpr, Lit("]"), S, Lit("["), Star(S),
       Level(Plus(A)), Lit("]"), S, Lit("[")>>)),
     Entry(<<"[">>, Start(<<Lit("["), Named("time", Cat(<<Mon, Sp, Mon, Plus(S), D12, Sp, Hms,
       Frac, Sp, D4>>)), Word(<<"]", " ", "[">>),
       Opt(Par(Cat(<<Plus(Class("[a-z_0-9]", Lower \cup Digits \cup {"_"})), Lit(":")>>))),
       Level(Plus(A)), Lit("]")>>)),
     Entry(Dashed, Start(<<msSpaceExpr, Plus(S), Lit("-"), Plus(S), Plus(NameByte), Plus(S),
       Lit("-"), Plus(S), Level(Plus(A)), Plus(S), Lit("-"), S>>)),
     Entry(<<"<">>, Start(<<Lit("<"), Named("syslogpri", D13), Lit(">"), D, Plus(S),
       Named("time", Cat(<<Ymd("-"), Lit("T"), Plus(NoSpace)>>)), S>>)),
     Entry(<<"<">>, Start(<<Lit("<"), Named("syslogpri", D13), Lit(">"), Star(S),
       Opt(Par(Cat(<<Named("stamptime", Cat(<<Mon, Plus(S), D12, Sp, Hms>>)), S>>)))>>)),
     Entry(<< >>, Start(<<Lit("["), Level(Plus(U)), Lit("]")>>)),
     Entry(<< >>, Start(<<Level(Alt(<<Spelled("I", 4), Spelled("W", 7), Spelled("W", 4),
       Spelled("E", 5), Spelled("D", 5), Spelled("T", 5), Spelled("F", 5), Spelled("C", 8)>>)),
       Lit(":"), Opt(Par(Cat(<<Named("sourcecontext", Plus(NameByte)), Lit(":")>>)))>>)),
     Entry(<< >>, Start(<<Level(Alt(<<spelled("t", 4), spelled("d", 4), spelled("i", 4),
       spelled("w", 4), spelled("f", 4), spelled("c", 4)>>)), Word(<<":", " ">>),
       Named("sourcecontext", Plus(Class("[^\\s\\[]", Bytes \ (Spaces \cup {"["})))), Lit("["),
       Plus(D), Lit("]"), Par(Alt(<<Lit("\n"), At("$")>>))>>)),
     Entry(<<"t", "a", "a", "a", "=">>, Cat(<<At("\\b"), Word(<<"t", "a", "a", "a", "=">>),
       Level(Cat(<<U, Plus(L)>>)), At("\\b")>>)),
     Entry(<<"|">>, Start(<<Lit("%"), Named("sysloglevel", D), Lit("|"),
       Named("syslogtime", Cat(<<Plus(D), Frac>>)), Lit("|")>>)),
     Entry(<< >>, Start(<<Named("time", Cat(<<Ymd("-"), Sp, Hms>>)), S>>)),
     Entry(<< >>, Start(<<ymdSlashExpr, ZColon, S>>)),
     Entry(<< >>, Start(<<Named("time", Cat(<<Mon, Sp, Mon, Sp, Class("[ \\d]", {" ", "0"}), D, Sp,
       Hms, Sp, Par(Alt(<<Spelled("U", 3), Spelled("A", 3)>>)), Sp, D4>>)), At("\\b")>>)),
     Entry(<< >>, Start(<<Named("time", Cat(<<Ymd("/"), Sp, Hms, Lit("."), Times(D, 6, "{6}")>>)),
       ZColon, S>>)),
     Entry(<< >>, Start(<<rfc3339NanoSpaceExpr, Lit(":"), S>>)),
     Entry(PanicText, Named("logaserror", Plus(Dot))),
     Entry(UnhandledText, Cat(<<At("(?s)"), At("^"), Word(UnhandledText),
       Named("unhandled", Cat(<<Plus(NameByte), Word(<<"E", "a">>),
                                Star(Class("(?s).", Bytes))>>))>>)),
     Entry(TracebackText, Named("logaserror", Plus(Dot))),
     Entry(<<"\n">>, Cat(<<Dot, Named("logaserror", Alt(<<Spelled("E", 5), Spelled("T", 5)>>)),
       Lit(":")>>)) >>
=============================================================================
