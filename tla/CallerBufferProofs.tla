------------------------- MODULE CallerBufferProofs -------------------------
(***************************************************************************)
(* Proofs about CallerBuffer, for any number of goroutines, buffers, lines *)
(* and calls: a Result says what a new one would, and the strings a caller *)
(* keeps hold as the package promises.                                     *)
(*                                                                         *)
(* The argument: everything a call has at hand shows the line it was given *)
(* (Shows): it is a text of its own, or a view of the one buffer the call  *)
(* reads, which is not written while the call is busy.  A field that needs *)
(* rewriting is a text from the step on that rewrites it.                  *)
(***************************************************************************)
EXTENDS CallerBuffer, TLAPS

-----------------------------------------------------------------------------
(* The inductive invariant *)

Parts   == Fields \cup {"message", "none"}
Entries == {"ParseBytes", "ParseInto", "none"}

View == [at : Buffers \cup {"text", "nothing"}, line : Lines \cup {"none"}, part : Parts]

Calls == [step : 0..Returned, entry : Entries, line : Lines \cup {"none"}, stale : BOOLEAN]

Kept == [view : View, said : Lines \X Fields, entry : Entries,
         from : Buffers \cup {"text", "nothing"}, stale : BOOLEAN]

Types ==
  /\ mem \in [Buffers -> Lines]
  /\ result \in [Callers -> [Fields -> View]]
  /\ message \in [Callers -> View]
  /\ DOMAIN decoded = Callers
  /\ call \in [Callers -> Calls]
  /\ kept \in SUBSET Kept

\* A view of line l's part p, in a text or in the buffer b, when memory is m.
Shows(m, b, v, l, p) ==
  /\ v \in View
  /\ v.at = "text" \/ (v.at \in Buffers /\ v.at = b)
  /\ (IF v.at \in Buffers THEN m[v.at] ELSE v.line) = l
  /\ v.part = p

Source(c) == result[c]["Body"].at

\* The step after which a field is filled.
Due(f) ==
  CASE f = "Body" -> 1
    [] f = "TraceID" -> 4
    [] f = "Message" -> 5
    [] f = "ResourceID" -> 6
    [] f = "ResourceGroupID" -> 7

Has(l, f) == f = "Body" \/ f \in DOMAIN Rewrites[l]

\* The fields of the result so far.
ResultSays(m, b, r, l, n) ==
  \A f \in Fields :
    IF n >= Due(f) /\ Has(l, f)
      THEN Shows(m, b, r[f], l, f) /\ (NotVerbatim(l, f) => r[f].at = "text")
      ELSE r[f] = None

MessageSays(m, b, v, l) ==
  Shows(m, b, v, l, "message") /\ (l \in Coloured => v.at = "text")

DecodedSays(m, b, d, l) ==
  /\ DOMAIN d = DOMAIN Rewrites[l] \ {"ResourceGroupID"}
  /\ \A f \in DOMAIN d :
       /\ Shows(m, b, d[f], l, f)
       /\ (l \in Coloured \/ "escape" \in Rewrites[l][f]) => d[f].at = "text"

CallSays(m, b, k, r, v, d) ==
  (k.step # 0 /\ ~k.stale) =>
    /\ k.line \in Lines
    /\ b \in Buffers => k.entry = "ParseBytes"
    /\ ResultSays(m, b, r, k.line, k.step)
    /\ k.step \in 2..(Returned - 1) => MessageSays(m, b, v, k.line)
    /\ k.step \in 3..(Returned - 1) => DecodedSays(m, b, d, k.line)

KeptSays(m, k) ==
  \/ Shows(m, k.from, k.view, k.said[1], k.said[2]) /\ k.view.at = "text"
  \/ /\ k.view.at \in Buffers /\ k.view.at = k.from
     /\ k.entry = "ParseBytes"
     /\ ~NotVerbatim(k.said[1], k.said[2])
     /\ ~k.stale => Shows(m, k.from, k.view, k.said[1], k.said[2])

Inv ==
  /\ Types
  /\ \A c \in Callers : Busy(c) => ~call[c].stale
  /\ \A c \in Callers :
       CallSays(mem, Source(c), call[c], result[c], message[c], decoded[c])
  /\ \A k \in kept : KeptSays(mem, k)

-----------------------------------------------------------------------------
(* Views *)

LEMMA Constants ==
  /\ Returned = 8
  /\ DOMAIN Order = 1..4
  /\ Fields = {"Body", "TraceID", "Message", "ResourceID", "ResourceGroupID"}
  /\ Order[1] = "TraceID" /\ Order[2] = "Message"
  /\ Order[3] = "ResourceID" /\ Order[4] = "ResourceGroupID"
BY DEF Returned, Order, Fields

LEMMA NoneIsView == None \in View
BY DEF View, None, Parts

\* What is carried on from a view of a line shows the line.
LEMMA CarriedShows ==
  ASSUME NEW b, NEW v, NEW l \in Lines, NEW p, NEW q \in Parts, NEW rewrites,
         Shows(mem, b, v, l, p)
  PROVE  Shows(mem, b, Carried(v, q, rewrites), l, q)
<1>1. CASE rewrites = {}
  BY <1>1 DEF Carried, Part, Shows, View
<1>2. CASE rewrites # {}
  BY <1>2, BuffersAssumption DEF Carried, Rewritten, LineOf, Shows, View
<1> QED
  BY <1>1, <1>2

\* It is a text if the view was, or if something had to be rewritten.
LEMMA CarriedTexts ==
  ASSUME NEW v \in View, NEW q \in Parts, NEW rewrites, v.at = "text"
  PROVE  Carried(v, q, rewrites).at = "text"
BY DEF Carried, Part, Rewritten, View

LEMMA RewrittenTexts ==
  ASSUME NEW v, NEW q, NEW rewrites, rewrites # {}
  PROVE  Carried(v, q, rewrites).at = "text"
BY DEF Carried, Rewritten

\* A view that shows a line is a view, of that line and of that part.
LEMMA ShowsSays ==
  ASSUME NEW b, NEW v, NEW l, NEW p, Shows(mem, b, v, l, p)
  PROVE  v # None /\ Says(v) = <<l, p>> /\ LineOf(v) = l
<1>1. v.at # "nothing" /\ LineOf(v) = l /\ v.part = p
  BY BuffersAssumption DEF Shows, LineOf
<1>2. None.at = "nothing"
  BY DEF None
<1>3. v # None
  BY <1>1, <1>2
<1> QED
  BY <1>1, <1>3 DEF Says

\* A view shows the same when only a buffer it is not of is written.
LEMMA ShowsKept ==
  ASSUME NEW m, NEW n, NEW b, NEW v, NEW l, NEW p,
         Shows(m, b, v, l, p), b \in Buffers => n[b] = m[b]
  PROVE  Shows(n, b, v, l, p)
BY BuffersAssumption DEF Shows

\* So does all that a call has at hand.
LEMMA CallKept ==
  ASSUME NEW m, NEW n, NEW b, NEW k, NEW r, NEW v, NEW d,
         CallSays(m, b, k, r, v, d), b \in Buffers => n[b] = m[b]
  PROVE  CallSays(n, b, k, r, v, d)
<1> SUFFICES ASSUME k.step # 0, ~k.stale
             PROVE  CallSays(n, b, k, r, v, d)
  BY DEF CallSays
<1>1. ResultSays(n, b, r, k.line, k.step)
  <2>1. ResultSays(m, b, r, k.line, k.step)
    BY DEF CallSays
  <2> QED
    BY <2>1, ShowsKept DEF ResultSays
<1>2. ASSUME k.step \in 2..(Returned - 1) PROVE MessageSays(n, b, v, k.line)
  BY <1>2, ShowsKept DEF CallSays, MessageSays
<1>3. ASSUME k.step \in 3..(Returned - 1) PROVE DecodedSays(n, b, d, k.line)
  <2>1. DecodedSays(m, b, d, k.line)
    BY <1>3 DEF CallSays
  <2> QED
    BY <2>1, ShowsKept DEF DecodedSays
<1> QED
  BY <1>1, <1>2, <1>3 DEF CallSays

-----------------------------------------------------------------------------
(* The invariant is inductive *)

LEMMA InitInv == Init => Inv
<1> SUFFICES ASSUME Init PROVE Inv
  OBVIOUS
<1>1. Types
  <2>1. None \in View
    BY NoneIsView
  <2>2. Idle \in Calls
    <3>1. 0 \in 0..Returned
      BY Constants
    <3> QED
      BY <3>1 DEF Calls, Idle, Entries
  <2> QED
    BY <2>1, <2>2 DEF Init, Types
<1>2. \A c \in Callers : call[c].step = 0
  BY DEF Init, Idle
<1> QED
  BY <1>1, <1>2 DEF Init, Inv, Busy, CallSays, KeptSays

\* A step of one call leaves the others as they are.
LEMMA OneCall ==
  ASSUME Inv, NEW c \in Callers, Types', UNCHANGED <<mem, kept>>,
         \A d \in Callers \ {c} :
           /\ result'[d] = result[d] /\ message'[d] = message[d]
           /\ decoded'[d] = decoded[d] /\ call'[d] = call[d],
         (Busy(c) => ~call[c].stale)',
         CallSays(mem, result'[c]["Body"].at, call'[c], result'[c], message'[c], decoded'[c])
  PROVE  Inv'
BY DEF Inv, Source, Busy

LEMMA ScanInv ==
  ASSUME Inv, NEW b \in Buffers, Scan(b)
  PROVE  Inv'
<1>1. PICK l \in Lines : mem' = [mem EXCEPT ![b] = l]
  BY DEF Scan
<1>2. /\ mem \in [Buffers -> Lines] /\ call \in [Callers -> Calls] /\ kept \in SUBSET Kept
  BY DEF Inv, Types
<1>3. \A n \in Buffers \ {b} : mem'[n] = mem[n]
  BY <1>1, <1>2
<1>4. Types'
  <2>1. mem' \in [Buffers -> Lines]
    BY <1>1, <1>2
  <2>2. call' \in [Callers -> Calls]
    BY <1>2 DEF Scan, Calls
  <2>3. ASSUME NEW k \in kept' PROVE k \in Kept
    <3>1. PICK j \in kept : k = [j EXCEPT !.stale = @ \/ j.from = b]
      BY DEF Scan
    <3> QED
      BY <3>1, <1>2 DEF Kept
  <2> QED
    BY <2>1, <2>2, <2>3 DEF Inv, Types, Scan
<1>5. ASSUME NEW c \in Callers
      PROVE  /\ (Busy(c) => ~call[c].stale)'
             /\ CallSays(mem, Source(c), call[c], result[c], message[c], decoded[c])'
  <2>1. call'[c] = [call[c] EXCEPT !.stale = @ \/ Reads(c, b)] /\ call[c] \in Calls
    BY <1>2 DEF Scan
  <2>2. /\ call'[c].step = call[c].step /\ call'[c].entry = call[c].entry
        /\ call'[c].line = call[c].line
        /\ call'[c].stale = (call[c].stale \/ Reads(c, b))
    BY <2>1 DEF Calls
  <2>3. (Busy(c) => ~call[c].stale)'
    BY <2>2 DEF Scan, Inv, Busy
  <2>4. CASE call'[c].stale
    BY <2>3, <2>4 DEF CallSays
  <2>5. CASE ~call'[c].stale
    <3>1. ~call[c].stale /\ Source(c) # b
      BY <2>2, <2>5 DEF Reads, Source
    <3>2. CallSays(mem', Source(c), call[c], result[c], message[c], decoded[c])
      BY <3>1, <1>3, CallKept DEF Inv
    <3>3. UNCHANGED <<result, message, decoded>>
      BY DEF Scan
    <3> QED
      BY <2>2, <2>3, <3>1, <3>2, <3>3 DEF CallSays, Source
  <2> QED
    BY <2>4, <2>5
<1>6. ASSUME NEW k \in kept' PROVE KeptSays(mem', k)
  <2>1. PICK j \in kept : k = [j EXCEPT !.stale = @ \/ j.from = b]
    BY DEF Scan
  <2>2. /\ j \in Kept /\ KeptSays(mem, j)
        /\ k.view = j.view /\ k.said = j.said /\ k.entry = j.entry /\ k.from = j.from
        /\ k.stale = (j.stale \/ j.from = b)
    BY <2>1, <1>2 DEF Inv, Kept
  <2>3. CASE j.view.at = "text"
    BY <2>2, <2>3, BuffersAssumption DEF KeptSays, Shows
  <2>4. CASE j.view.at # "text" /\ k.stale
    BY <2>2, <2>4 DEF KeptSays
  <2>5. CASE j.view.at # "text" /\ ~k.stale
    <3>1. Shows(mem, j.from, j.view, j.said[1], j.said[2]) /\ j.from # b
      BY <2>2, <2>5 DEF KeptSays
    <3>2. Shows(mem', j.from, j.view, j.said[1], j.said[2])
      BY <3>1, <1>3, ShowsKept
    <3> QED
      BY <2>2, <2>5, <3>2 DEF KeptSays
  <2> QED
    BY <2>3, <2>4, <2>5
<1> QED
  BY <1>4, <1>5, <1>6 DEF Inv

LEMMA StartInv ==
  ASSUME Inv, NEW c \in Callers, NEW entry \in Entries, NEW input \in View, Start(c, entry, input),
         Shows(mem, input.at, input, LineOf(input), "Body"), LineOf(input) \in Lines,
         input.at \in Buffers => entry = "ParseBytes"
  PROVE  Inv'
<1> DEFINE new == [step |-> 1, entry |-> entry, line |-> LineOf(input), stale |-> FALSE]
<1>1. /\ result \in [Callers -> [Fields -> View]] /\ call \in [Callers -> Calls]
      /\ None \in View
  BY NoneIsView DEF Inv, Types
<1>2. /\ result' = [result EXCEPT ![c] = Reset(c, input)] /\ call' = [call EXCEPT ![c] = new]
      /\ UNCHANGED <<mem, message, decoded, kept>>
  BY DEF Start
<1>3. Reset(c, input) \in [Fields -> View] /\ Reset(c, input)["Body"] = input
  BY <1>1, Constants DEF Reset
<1>4. new \in Calls
  <2>1. 1 \in 0..Returned
    BY Constants
  <2> QED
    BY <2>1 DEF Calls
<1>5. Types'
  BY <1>1, <1>2, <1>3, <1>4 DEF Inv, Types
<1>6. result'[c] = Reset(c, input) /\ call'[c] = new
  BY <1>1, <1>2
<1>7. ResultSays(mem, input.at, Reset(c, input), LineOf(input), 1)
  BY Constants DEF ResultSays, Reset, Has, Due, NotVerbatim
<1>8. CallSays(mem, input.at, new, Reset(c, input), message'[c], decoded'[c])
  BY <1>7, Constants DEF CallSays
<1>9. (Busy(c) => ~call[c].stale)'
  BY <1>6
<1> QED
  BY <1>1, <1>2, <1>3, <1>5, <1>6, <1>8, <1>9, OneCall

\* What the invariant says of a call that is busy.
LEMMA BusySays ==
  ASSUME Inv, NEW c \in Callers, call[c].step \in 1..(Returned - 1)
  PROVE  /\ call[c] \in Calls /\ ~call[c].stale /\ call[c].line \in Lines
         /\ Source(c) \in Buffers => call[c].entry = "ParseBytes"
         /\ ResultSays(mem, Source(c), result[c], call[c].line, call[c].step)
         /\ call[c].step > 1 => MessageSays(mem, Source(c), message[c], call[c].line)
         /\ call[c].step > 2 => DecodedSays(mem, Source(c), decoded[c], call[c].line)
         /\ Shows(mem, Source(c), result[c]["Body"], call[c].line, "Body")
<1>1. call[c] \in Calls
  BY DEF Inv, Types
<1>2. call[c].step # 0 /\ call[c].step # Returned /\ ~call[c].stale
  BY Constants DEF Inv, Busy
<1>3. CallSays(mem, Source(c), call[c], result[c], message[c], decoded[c])
  BY DEF Inv
<1>4. /\ call[c].line \in Lines
      /\ Source(c) \in Buffers => call[c].entry = "ParseBytes"
      /\ ResultSays(mem, Source(c), result[c], call[c].line, call[c].step)
  BY <1>2, <1>3 DEF CallSays
<1>5. call[c].step > 1 => MessageSays(mem, Source(c), message[c], call[c].line)
  BY <1>2, <1>3, Constants DEF CallSays
<1>6. call[c].step > 2 => DecodedSays(mem, Source(c), decoded[c], call[c].line)
  BY <1>2, <1>3, Constants DEF CallSays
<1>7. Shows(mem, Source(c), result[c]["Body"], call[c].line, "Body")
  BY <1>4, Constants DEF ResultSays, Due, Has
<1> QED
  BY <1>1, <1>2, <1>4, <1>5, <1>6, <1>7

\* A call's step, and what it leaves of the call.
LEMMA Stepped ==
  ASSUME Inv, NEW c \in Callers, NEW n \in 1..(Returned - 1), Step(c, n)
  PROVE  /\ call[c].step = n /\ call' \in [Callers -> Calls]
         /\ call'[c].step = n + 1 /\ call'[c].line = call[c].line
         /\ call'[c].entry = call[c].entry /\ call'[c].stale = call[c].stale
         /\ \A d \in Callers \ {c} : call'[d] = call[d]
<1>1. call \in [Callers -> Calls] /\ n + 1 \in 0..Returned
  BY Constants DEF Inv, Types
<1> QED
  BY <1>1 DEF Step, Calls

\* Nothing is filled by a step that no field is due at.
LEMMA ResultWaits ==
  ASSUME NEW b, NEW r, NEW l, NEW n \in 1..7, ResultSays(mem, b, r, l, n),
         n + 1 \notin {4, 5, 6, 7}
  PROVE  ResultSays(mem, b, r, l, n + 1)
<1>1. \A f \in Fields : n + 1 >= Due(f) <=> n >= Due(f)
  BY Constants DEF Due
<1> QED
  BY <1>1 DEF ResultSays

LEMMA ColoursInv ==
  ASSUME Inv, NEW c \in Callers, removeANSICodes(c)
  PROVE  Inv'
<1> DEFINE l == call[c].line
           b == Source(c)
           colours == IF LineOf(result[c]["Body"]) \in Coloured THEN {"colour"} ELSE {}
           m == Carried(result[c]["Body"], "message", colours)
<1>1. /\ Step(c, 1) /\ message' = [message EXCEPT ![c] = m]
      /\ UNCHANGED <<mem, result, decoded, calls, kept>>
  BY DEF removeANSICodes
<1>2. /\ call[c].step = 1 /\ call' \in [Callers -> Calls]
      /\ call'[c].step = 2 /\ call'[c].line = l
      /\ call'[c].entry = call[c].entry /\ call'[c].stale = call[c].stale
      /\ \A d \in Callers \ {c} : call'[d] = call[d]
  BY <1>1, Stepped, Constants
<1>3. /\ ~call[c].stale /\ l \in Lines /\ (b \in Buffers => call[c].entry = "ParseBytes")
      /\ ResultSays(mem, b, result[c], l, 1)
      /\ Shows(mem, b, result[c]["Body"], l, "Body")
  BY <1>2, BusySays, Constants
<1>4. MessageSays(mem, b, m, l)
  <2>1. LineOf(result[c]["Body"]) = l
    BY <1>3, ShowsSays
  <2>2. "message" \in Parts /\ (l \in Coloured => colours # {})
    BY <2>1 DEF Parts
  <2>3. Shows(mem, b, m, l, "message") /\ (colours # {} => m.at = "text")
    <3> HIDE DEF l, b, colours
    <3>1. l \in Lines /\ "message" \in Parts /\ Shows(mem, b, result[c]["Body"], l, "Body")
      BY <1>3, <2>2
    <3>2. Shows(mem, b, Carried(result[c]["Body"], "message", colours), l, "message")
      BY <3>1, CarriedShows
    <3>3. colours # {} => Carried(result[c]["Body"], "message", colours).at = "text"
      BY RewrittenTexts
    <3> QED
      BY <3>2, <3>3
  <2> QED
    BY <2>2, <2>3 DEF MessageSays
<1>5. m \in View
  BY <1>4 DEF MessageSays, Shows
<1>6. message' \in [Callers -> View] /\ message'[c] = m
      /\ \A d \in Callers \ {c} : message'[d] = message[d]
  BY <1>1, <1>5 DEF Inv, Types
<1>7. Types'
  BY <1>1, <1>2, <1>6 DEF Inv, Types
<1>8. ResultSays(mem, b, result[c], l, 2)
  BY <1>3, ResultWaits
<1>9. CallSays(mem, b, call'[c], result[c], m, decoded[c])
  BY <1>2, <1>3, <1>4, <1>8, Constants DEF CallSays
<1> QED
  BY <1>1, <1>2, <1>3, <1>6, <1>7, <1>9, OneCall DEF Source

LEMMA DecodeInv ==
  ASSUME Inv, NEW c \in Callers, Decode(c)
  PROVE  Inv'
<1> DEFINE l == call[c].line
           b == Source(c)
           has == Rewrites[LineOf(message[c])]
           d == [f \in DOMAIN has \ {"ResourceGroupID"} |->
                   Carried(message[c], f, has[f] \cap {"escape"})]
<1>1. /\ Step(c, 2) /\ decoded' = [decoded EXCEPT ![c] = d]
      /\ UNCHANGED <<mem, result, message, calls, kept>>
  BY DEF Decode
<1>2. /\ call[c].step = 2 /\ call' \in [Callers -> Calls]
      /\ call'[c].step = 3 /\ call'[c].line = l
      /\ call'[c].entry = call[c].entry /\ call'[c].stale = call[c].stale
      /\ \A e \in Callers \ {c} : call'[e] = call[e]
  BY <1>1, Stepped, Constants
<1>3. /\ ~call[c].stale /\ l \in Lines /\ (b \in Buffers => call[c].entry = "ParseBytes")
      /\ ResultSays(mem, b, result[c], l, 2)
      /\ MessageSays(mem, b, message[c], l)
  BY <1>2, BusySays, Constants
<1>4. LineOf(message[c]) = l
  BY <1>3, ShowsSays DEF MessageSays
<1>5. DecodedSays(mem, b, d, l)
  <2> SUFFICES ASSUME NEW f \in DOMAIN d
               PROVE  /\ Shows(mem, b, d[f], l, f)
                      /\ (l \in Coloured \/ "escape" \in Rewrites[l][f]) => d[f].at = "text"
    BY <1>4 DEF DecodedSays
  <2>1. f \in DOMAIN Rewrites[l] /\ d[f] = Carried(message[c], f, Rewrites[l][f] \cap {"escape"})
    BY <1>4
  <2>2. f \in Parts
    BY <1>3, <2>1, LinesAssumption DEF Parts
  <2> DEFINE rewrites == Rewrites[l][f] \cap {"escape"}
  <2>3. Shows(mem, b, message[c], l, "message") /\ (l \in Coloured => message[c].at = "text")
    BY <1>3 DEF MessageSays
  <2>4. /\ Shows(mem, b, Carried(message[c], f, rewrites), l, f)
        /\ (message[c].at = "text" \/ rewrites # {}) => Carried(message[c], f, rewrites).at = "text"
    <3> HIDE DEF l, b, rewrites
    <3>1. l \in Lines
      BY <1>3
    <3>2. Shows(mem, b, Carried(message[c], f, rewrites), l, f)
      BY <3>1, <2>2, <2>3, CarriedShows
    <3>3. message[c].at = "text" => Carried(message[c], f, rewrites).at = "text"
      BY <2>2, <2>3, CarriedTexts DEF Shows
    <3>4. rewrites # {} => Carried(message[c], f, rewrites).at = "text"
      BY RewrittenTexts
    <3> QED
      BY <3>2, <3>3, <3>4
  <2> QED
    BY <2>1, <2>3, <2>4
<1>6. DOMAIN decoded' = Callers /\ decoded'[c] = d
      /\ \A e \in Callers \ {c} : decoded'[e] = decoded[e]
  BY <1>1 DEF Inv, Types
<1>7. Types'
  BY <1>1, <1>2, <1>6 DEF Inv, Types
<1>8. ResultSays(mem, b, result[c], l, 3)
  BY <1>3, ResultWaits
<1>9. CallSays(mem, b, call'[c], result[c], message[c], d)
  BY <1>2, <1>3, <1>5, <1>8, Constants DEF CallSays
<1> QED
  BY <1>1, <1>2, <1>3, <1>6, <1>7, <1>9, OneCall DEF Source

\* A field that is filled when it is due.
LEMMA FillsResult ==
  ASSUME NEW b, NEW r \in [Fields -> View], NEW l, NEW i \in DOMAIN Order, NEW w \in View,
         ResultSays(mem, b, r, l, i + 2),
         Has(l, Order[i]),
         Shows(mem, b, w, l, Order[i]),
         NotVerbatim(l, Order[i]) => w.at = "text"
  PROVE  ResultSays(mem, b, [r EXCEPT ![Order[i]] = w], l, i + 3)
<1>1. \A f \in Fields : f # Order[i] => (i + 3 >= Due(f) <=> i + 2 >= Due(f))
  BY Constants DEF Due
<1>2. i + 3 >= Due(Order[i]) /\ Order[i] \in Fields
  BY Constants DEF Due
<1> DEFINE s == [r EXCEPT ![Order[i]] = w]
<1>3. s[Order[i]] = w /\ \A f \in Fields : f # Order[i] => s[f] = r[f]
  BY <1>2
<1> HIDE DEF s
<1>4. ResultSays(mem, b, s, l, i + 3)
  BY <1>1, <1>2, <1>3 DEF ResultSays
<1> QED
  BY <1>4 DEF s

\* A field the line does not have is left out when it is due.
LEMMA LeavesResult ==
  ASSUME NEW b, NEW r, NEW l, NEW i \in DOMAIN Order,
         ResultSays(mem, b, r, l, i + 2), ~Has(l, Order[i])
  PROVE  ResultSays(mem, b, r, l, i + 3)
<1>1. \A f \in Fields : f # Order[i] => (i + 3 >= Due(f) <=> i + 2 >= Due(f))
  BY Constants DEF Due
<1> QED
  BY <1>1 DEF ResultSays

\* The result is as it says once a field is filled, or left out.
LEMMA FilledInv ==
  ASSUME Inv, NEW c \in Callers, NEW i \in DOMAIN Order, Step(c, i + 2),
         UNCHANGED <<mem, message, decoded, calls, kept>>,
         NEW r \in [Fields -> View], result' = [result EXCEPT ![c] = r],
         r["Body"] = result[c]["Body"],
         ResultSays(mem, Source(c), r, call[c].line, i + 3)
  PROVE  Inv'
<1>1. i + 2 \in 1..(Returned - 1) /\ i + 2 > 2 /\ (i + 2) + 1 = i + 3 /\ i + 3 \in 4..7
  BY Constants
<1>2. /\ call[c].step = i + 2 /\ call' \in [Callers -> Calls]
      /\ call'[c].step = i + 3 /\ call'[c].line = call[c].line
      /\ call'[c].entry = call[c].entry /\ call'[c].stale = call[c].stale
      /\ \A d \in Callers \ {c} : call'[d] = call[d]
  BY <1>1, Stepped
<1>3. /\ ~call[c].stale /\ call[c].line \in Lines
      /\ Source(c) \in Buffers => call[c].entry = "ParseBytes"
      /\ MessageSays(mem, Source(c), message[c], call[c].line)
      /\ DecodedSays(mem, Source(c), decoded[c], call[c].line)
  BY <1>1, <1>2, BusySays
<1>4. /\ result' \in [Callers -> [Fields -> View]] /\ result'[c] = r
      /\ \A d \in Callers \ {c} : result'[d] = result[d]
  BY DEF Inv, Types
<1>5. Types'
  BY <1>2, <1>4 DEF Inv, Types
<1>6. CallSays(mem, Source(c), call'[c], r, message[c], decoded[c])
  BY <1>2, <1>3 DEF CallSays
<1> QED
  BY <1>2, <1>3, <1>4, <1>5, <1>6, OneCall DEF Source

LEMMA FillInv ==
  ASSUME Inv, NEW c \in Callers, NEW i \in DOMAIN Order, Fill(c, i)
  PROVE  Inv'
<1> DEFINE l == call[c].line
           b == Source(c)
           f == Order[i]
           r == result[c]
<1>1. Step(c, i + 2) /\ UNCHANGED <<mem, message, decoded, calls, kept>>
  BY DEF Fill
<1>2. i + 2 \in 1..(Returned - 1) /\ i + 2 > 2 /\ f \in Parts /\ f # "Body" /\ f \in Fields
  BY Constants DEF Parts
<1>3. call[c].step = i + 2
  BY <1>1, <1>2, Stepped
<1>4. /\ l \in Lines
      /\ ResultSays(mem, b, r, l, i + 2)
      /\ MessageSays(mem, b, message[c], l)
      /\ DecodedSays(mem, b, decoded[c], l)
  BY <1>2, <1>3, BusySays
<1>5. LineOf(message[c]) = l
  BY <1>4, ShowsSays DEF MessageSays
<1>6. result \in [Callers -> [Fields -> View]] /\ r \in [Fields -> View]
  BY DEF Inv, Types
<1>7. CASE f \notin DOMAIN Rewrites[l]
  <2>1. f \notin DOMAIN decoded[c]
    BY <1>4, <1>7 DEF DecodedSays
  <2>2. result' = result
    BY <1>5, <1>7, <2>1 DEF Fill
  <2>3. result' = [result EXCEPT ![c] = r]
    BY <1>6, <2>2
  <2>4. ResultSays(mem, b, r, l, i + 3)
    BY <1>2, <1>4, <1>7, LeavesResult DEF Has
  <2> QED
    BY <1>1, <1>6, <2>3, <2>4, FilledInv
<1>8. CASE f \in DOMAIN Rewrites[l] /\ f = "ResourceGroupID"
  <2> DEFINE w == Part(r["ResourceID"], f)
  <2>1. i = 4 /\ "ResourceID" \in Fields
    BY <1>8, Constants
  <2>2. result' = [result EXCEPT ![c][f] = w]
    BY <1>5, <1>8 DEF Fill
  <2>3. /\ "ResourceID" \in DOMAIN Rewrites[l]
        /\ Rewrites[l]["ResourceGroupID"] = Rewrites[l]["ResourceID"]
    BY <1>4, <1>8, LinesAssumption
  <2>4. /\ Shows(mem, b, r["ResourceID"], l, "ResourceID")
        /\ NotVerbatim(l, "ResourceID") => r["ResourceID"].at = "text"
    BY <1>4, <2>1, <2>3 DEF ResultSays, Due, Has
  <2>5. w \in View /\ w.at = r["ResourceID"].at /\ w.line = r["ResourceID"].line /\ w.part = f
    BY <1>2, <1>6, <2>1 DEF Part, View
  <2>6. Shows(mem, b, w, l, f)
    BY <2>4, <2>5 DEF Shows
  <2>7. NotVerbatim(l, f) => w.at = "text"
    BY <1>8, <2>3, <2>4, <2>5 DEF NotVerbatim
  <2>8. ResultSays(mem, b, [r EXCEPT ![f] = w], l, i + 3)
    <3> HIDE DEF w, l, b, r
    <3> QED
      BY <1>4, <1>6, <1>8, <2>5, <2>6, <2>7, FillsResult DEF Has
  <2>9. /\ [r EXCEPT ![f] = w] \in [Fields -> View] /\ [r EXCEPT ![f] = w]["Body"] = r["Body"]
        /\ result' = [result EXCEPT ![c] = [r EXCEPT ![f] = w]]
    <3> HIDE DEF w
    <3> QED
      BY <1>2, <1>6, <2>2, <2>5, Constants
  <2> QED
    BY <1>1, <2>8, <2>9, FilledInv
<1>9. CASE f \in DOMAIN Rewrites[l] /\ f # "ResourceGroupID"
  <2> DEFINE rewrites == Rewrites[l][f] \ {"escape"}
             w == Carried(decoded[c][f], f, rewrites)
  <2>1. f \in DOMAIN decoded[c]
    BY <1>4, <1>9 DEF DecodedSays
  <2>2. result' = [result EXCEPT ![c][f] = w]
    BY <1>5, <1>9, <2>1 DEF Fill
  <2>3. /\ Shows(mem, b, decoded[c][f], l, f)
        /\ (l \in Coloured \/ "escape" \in Rewrites[l][f]) => decoded[c][f].at = "text"
    BY <1>4, <2>1 DEF DecodedSays
  <2>4. Shows(mem, b, w, l, f)
    <3> HIDE DEF l, b, rewrites, f
    <3> QED
      BY <1>2, <1>4, <2>3, CarriedShows
  <2>5. decoded[c][f].at = "text" => w.at = "text"
    BY <1>2, <2>3, CarriedTexts DEF Shows
  <2>6. rewrites # {} => w.at = "text"
    BY RewrittenTexts
  <2>7. NotVerbatim(l, f) => w.at = "text"
    <3>1. Rewrites[l][f] # {} => rewrites # {} \/ "escape" \in Rewrites[l][f]
      OBVIOUS
    <3> QED
      BY <2>3, <2>5, <2>6, <3>1 DEF NotVerbatim
  <2>8. ResultSays(mem, b, [r EXCEPT ![f] = w], l, i + 3)
    <3>1. w \in View
      BY <2>4 DEF Shows
    <3> HIDE DEF w, l, b, r
    <3> QED
      BY <1>4, <1>6, <1>9, <2>4, <2>7, <3>1, FillsResult DEF Has
  <2>9. /\ [r EXCEPT ![f] = w] \in [Fields -> View] /\ [r EXCEPT ![f] = w]["Body"] = r["Body"]
        /\ result' = [result EXCEPT ![c] = [r EXCEPT ![f] = w]]
    <3>1. w \in View
      BY <2>4 DEF Shows
    <3> HIDE DEF w
    <3> QED
      BY <1>2, <1>6, <2>2, <3>1, Constants
  <2> QED
    BY <1>1, <2>8, <2>9, FilledInv
<1> QED
  BY <1>7, <1>8, <1>9

LEMMA ReturnInv ==
  ASSUME Inv, NEW c \in Callers, Return(c)
  PROVE  Inv'
<1>1. /\ Step(c, 7) /\ message' = [message EXCEPT ![c] = None]
      /\ decoded' = [decoded EXCEPT ![c] = << >>] /\ UNCHANGED <<mem, result, calls, kept>>
  BY Constants DEF Return, Order
<1>2. /\ call[c].step = 7 /\ call' \in [Callers -> Calls]
      /\ call'[c].step = 8 /\ call'[c].line = call[c].line
      /\ call'[c].entry = call[c].entry /\ call'[c].stale = call[c].stale
      /\ \A d \in Callers \ {c} : call'[d] = call[d]
  BY <1>1, Stepped, Constants
<1>3. /\ ~call[c].stale /\ call[c].line \in Lines
      /\ Source(c) \in Buffers => call[c].entry = "ParseBytes"
      /\ ResultSays(mem, Source(c), result[c], call[c].line, 7)
  BY <1>2, BusySays, Constants
<1>4. /\ message' \in [Callers -> View] /\ DOMAIN decoded' = Callers
      /\ \A d \in Callers \ {c} : message'[d] = message[d] /\ decoded'[d] = decoded[d]
  BY <1>1, NoneIsView DEF Inv, Types
<1>5. Types'
  BY <1>1, <1>2, <1>4 DEF Inv, Types
<1>6. ResultSays(mem, Source(c), result[c], call[c].line, 8)
  BY <1>3, ResultWaits
<1>7. CallSays(mem, Source(c), call'[c], result[c], message'[c], decoded'[c])
  BY <1>2, <1>3, <1>6, Constants DEF CallSays
<1> QED
  BY <1>1, <1>2, <1>3, <1>4, <1>5, <1>7, OneCall DEF Source

\* What a Result says once it is returned, until its buffer is overwritten.
LEMMA ReturnedSays ==
  ASSUME Inv, NEW c \in Callers, call[c].step = Returned, ~call[c].stale, NEW f \in Fields
  PROVE  /\ call[c].line \in Lines
         /\ Source(c) \in Buffers => call[c].entry = "ParseBytes"
         /\ IF Has(call[c].line, f)
              THEN /\ Shows(mem, Source(c), result[c][f], call[c].line, f)
                   /\ NotVerbatim(call[c].line, f) => result[c][f].at = "text"
              ELSE result[c][f] = None
<1>1. CallSays(mem, Source(c), call[c], result[c], message[c], decoded[c])
  BY DEF Inv
<1>2. Returned # 0 /\ Returned >= Due(f)
  BY Constants DEF Due
<1> QED
  BY <1>1, <1>2 DEF CallSays, ResultSays

LEMMA KeepInv ==
  ASSUME Inv, NEW c \in Callers, NEW f \in Keeping, Keep(c, f)
  PROVE  Inv'
<1> DEFINE k == [view |-> result[c][f], said |-> Says(result[c][f]), entry |-> call[c].entry,
                 from |-> result[c]["Body"].at, stale |-> FALSE]
           l == call[c].line
<1>1. /\ call[c].step = Returned /\ ~call[c].stale /\ result[c][f] # None
      /\ kept' = kept \cup {k} /\ f \in Fields
      /\ UNCHANGED <<mem, result, message, decoded, call, calls>>
  BY KeepingAssumption DEF Keep
<1>2. /\ l \in Lines /\ (Source(c) \in Buffers => call[c].entry = "ParseBytes")
      /\ Shows(mem, Source(c), result[c][f], l, f)
      /\ NotVerbatim(l, f) => result[c][f].at = "text"
  BY <1>1, ReturnedSays
<1>3. Says(result[c][f]) = <<l, f>>
  BY <1>2, ShowsSays
<1>4. call[c].entry \in Entries /\ result[c][f] \in View /\ result[c]["Body"] \in View
  BY <1>1, Constants DEF Inv, Types, Calls
<1>5. k \in Kept
  <2>1. result[c]["Body"].at \in Buffers \cup {"text", "nothing"}
    BY <1>4 DEF View
  <2> QED
    BY <1>1, <1>2, <1>3, <1>4, <2>1 DEF Kept
<1>6. /\ k.view = result[c][f] /\ k.said[1] = l /\ k.said[2] = f
      /\ k.entry = call[c].entry /\ k.from = Source(c)
  BY <1>3 DEF Source
<1> HIDE DEF k
<1>7. KeptSays(mem, k)
  <2>1. CASE result[c][f].at = "text"
    BY <1>2, <1>6, <2>1 DEF KeptSays
  <2>2. CASE result[c][f].at # "text"
    <3>1. result[c][f].at \in Buffers /\ result[c][f].at = Source(c)
      BY <1>2, <2>2 DEF Shows
    <3> QED
      BY <1>2, <1>6, <2>2, <3>1 DEF KeptSays
  <2> QED
    BY <2>1, <2>2
<1> QED
  BY <1>1, <1>5, <1>7 DEF Inv, Types, Busy, Source

-----------------------------------------------------------------------------
(* The theorems *)

LEMMA NextInv == Inv /\ [Next]_vars => Inv'
<1> SUFFICES ASSUME Inv, [Next]_vars PROVE Inv'
  OBVIOUS
<1>1. CASE UNCHANGED vars
  BY <1>1 DEF Inv, Types, vars, Busy, Source
<1>2. ASSUME NEW b \in Buffers, Scan(b) PROVE Inv'
  BY <1>2, ScanInv
<1>3. ASSUME NEW c \in Callers, NEW b \in Buffers, ParseBytes(c, b) PROVE Inv'
  <2>1. /\ ViewIn(b) \in View /\ ViewIn(b).at = b /\ LineOf(ViewIn(b)) = mem[b]
        /\ ViewIn(b).part = "Body" /\ mem[b] \in Lines /\ "ParseBytes" \in Entries
    BY Constants DEF ViewIn, View, Parts, LineOf, Entries, Inv, Types
  <2>2. Shows(mem, b, ViewIn(b), mem[b], "Body")
    BY <2>1 DEF Shows
  <2> QED
    BY <1>3, <2>1, <2>2, StartInv DEF ParseBytes
<1>4. ASSUME NEW c \in Callers, NEW l \in Lines, ParseInto(c, l) PROVE Inv'
  <2>1. /\ ViewOf(l) \in View /\ ViewOf(l).at = "text" /\ LineOf(ViewOf(l)) = l
        /\ ViewOf(l).line = l /\ ViewOf(l).part = "Body" /\ "ParseInto" \in Entries
    BY Constants, BuffersAssumption DEF ViewOf, View, Parts, LineOf, Entries
  <2>2. Shows(mem, "text", ViewOf(l), l, "Body")
    BY <2>1, BuffersAssumption DEF Shows
  <2> QED
    BY <1>4, <2>1, <2>2, StartInv, BuffersAssumption DEF ParseInto
<1> QED
  BY <1>1, <1>2, <1>3, <1>4, ColoursInv, DecodeInv, ReturnInv, FillInv, KeepInv DEF Next

\* Until its buffer is overwritten a Result says what a new one would say of
\* the line: nothing of the lines before, nothing of what others parse.
THEOREM ResultIsFresh == Spec => []SameAsFresh
<1>1. Inv => SameAsFresh
  <2> SUFFICES ASSUME Inv, NEW c \in Callers, call[c].step = Returned, ~call[c].stale,
                      NEW f \in Fields
               PROVE  Says(result[c][f]) = Expected(call[c].line, f)
    BY DEF SameAsFresh
  <2>1. CASE Has(call[c].line, f)
    <3>1. Shows(mem, Source(c), result[c][f], call[c].line, f)
      BY <2>1, ReturnedSays
    <3> QED
      BY <2>1, <3>1, ShowsSays DEF Expected, Has
  <2>2. CASE ~Has(call[c].line, f)
    <3>1. result[c][f] = None
      BY <2>2, ReturnedSays
    <3> QED
      BY <2>2, <3>1 DEF Expected, Has, Says
  <2> QED
    BY <2>1, <2>2
<1> QED
  BY <1>1, InitInv, NextInv, PTL DEF Spec

\* A string kept from a Result says the same for ever, whatever becomes of the
\* Result, the buffers and the other goroutines, but for a part of the line as
\* it stands, taken after ParseBytes, whose buffer has been overwritten.
THEOREM KeptStrings == Spec => []KeptStringsHold
<1>1. Inv => KeptStringsHold
  <2> SUFFICES ASSUME Inv, NEW k \in kept
               PROVE  \/ Says(k.view) = k.said
                      \/ k.entry = "ParseBytes" /\ k.stale /\ ~NotVerbatim(k.said[1], k.said[2])
    BY DEF KeptStringsHold
  <2>1. KeptSays(mem, k) /\ k \in Kept
    BY DEF Inv, Types
  <2>2. k.said = <<k.said[1], k.said[2]>>
    BY <2>1 DEF Kept
  <2>3. CASE Shows(mem, k.from, k.view, k.said[1], k.said[2])
    BY <2>2, <2>3, ShowsSays
  <2>4. CASE ~Shows(mem, k.from, k.view, k.said[1], k.said[2])
    BY <2>1, <2>4 DEF KeptSays, Kept
  <2> QED
    BY <2>3, <2>4
<1> QED
  BY <1>1, InitInv, NextInv, PTL DEF Spec
=============================================================================
