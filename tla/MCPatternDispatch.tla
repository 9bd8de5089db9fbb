------------------------- MODULE MCPatternDispatch --------------------------
(***************************************************************************)
(* An instance of PatternDispatch for TLC: one entry of the real table for *)
(* every combination of gates the table has, in table order, with the      *)
(* gates init derives for it.                                              *)
(***************************************************************************)
EXTENDS PatternDispatch, TLC

MCBytes == {"0", "quote", "[", "-", "=", ":", "tab", "/", "T", "space", "t"}
MCNeedles == {" - ", "type="}
MCBytesOf == (" - " :> {"space", "-"}) @@ ("type=" :> {"t", "="})
MCPositions == {4, 10}

Slash == (4 :> "/") @@ (10 :> "space")
DashT == (4 :> "-") @@ (10 :> "T")
Dash  == (4 :> "-") @@ (10 :> "space")
Padded == (4 :> "t") @@ (10 :> NoByte)
NoGate == [p \in {} |-> NoByte]

Plain == [first |-> {}, anyFirst |-> TRUE, gate |-> NoGate, quoted |-> FALSE, fast |-> FALSE,
          containByte |-> NoByte, contain |-> NoNeedle, rare |-> NoByte, req |-> NoByte]

MCTable ==
  << \* "2006/01/02 15:04:05 [level]"
     [Plain EXCEPT !.first = {"0"}, !.anyFirst = FALSE, !.gate = Slash, !.fast = TRUE,
                   !.req = "["],
     \* AWS Lambda
     [Plain EXCEPT !.first = {"quote", "0"}, !.anyFirst = FALSE, !.gate = DashT,
                   !.quoted = TRUE, !.fast = TRUE, !.containByte = "tab", !.req = "tab"],
     \* RFC3339 with an optional level
     [Plain EXCEPT !.first = {"quote", "0"}, !.anyFirst = FALSE, !.gate = DashT,
                   !.quoted = TRUE, !.fast = TRUE],
     \* nginx
     [Plain EXCEPT !.contain = " - ", !.rare = "-", !.req = "[", !.fast = TRUE],
     \* fluent bit
     [Plain EXCEPT !.first = {"["}, !.anyFirst = FALSE, !.containByte = "[", !.req = "["],
     \* "type=Warning"
     [Plain EXCEPT !.contain = "type=", !.rare = "=", !.req = "="],
     \* "2006-01-02 15:04:05 "
     [Plain EXCEPT !.first = {"0"}, !.anyFirst = FALSE, !.gate = Dash, !.fast = TRUE] >>

Windows == {Slash, DashT, Dash, Padded}

\* A line with the given window, needles and further bytes; nothing matches it
\* yet.  A line that opens with a quote shows its window one byte later.
Shape(f, w, ns, bs) ==
  [first |-> f,
   bytes |-> bs \cup UNION {MCBytesOf[n] : n \in ns} \cup ({w[4], w[10], f} \ {NoByte}),
   needles |-> ns,
   window |-> IF f = "quote" THEN Padded ELSE w, quotedWindow |-> w,
   fast |-> [i \in 1..7 |-> "Undecided"], matches |-> {}, long |-> FALSE, parent |-> FALSE]

Empty == [Shape("t", Padded, {}, {}) EXCEPT !.first = NoByte, !.bytes = {},
                                            !.window = [p \in MCPositions |-> NoByte],
                                            !.quotedWindow = [p \in MCPositions |-> NoByte]]

Shapes ==
  { Shape(f, w, ns, bs) : f \in {"0", "quote", "[", "t"}, w \in Windows,
                          ns \in SUBSET MCNeedles, bs \in SUBSET {"[", "tab", ":"} }

\* The entries some line of this shape can match.
CanMatch(l) == {i \in 1..7 : Sound([l EXCEPT !.matches = {i}])}

\* A hand matcher decides as often as it can, or not at all.
Decided(l, all) ==
  [l EXCEPT !.fast = [i \in 1..7 |->
     IF ~ all \/ ~ MCTable[i].fast THEN "Undecided"
     ELSE IF i \notin l.matches THEN "NoMatch"
     ELSE IF i = 4 THEN "Undecided" ELSE "Matched"]]

MCLines ==
  {Empty} \cup
  { Decided([s EXCEPT !.matches = m, !.long = p.long,
                      !.parent = p.parent /\ {"=", ":"} \cap s.bytes # {}], all) :
      <<s, m, all, p>> \in
        UNION { {s} \X (SUBSET CanMatch(s)) \X BOOLEAN
                  \X [long : {TRUE}, parent : BOOLEAN] : s \in Shapes } }
=============================================================================
