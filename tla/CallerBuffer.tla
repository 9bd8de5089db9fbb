---------------------------- MODULE CallerBuffer ----------------------------
(***************************************************************************)
(* Who owns the bytes.  A Result's strings are views: of the caller's      *)
(* buffer for ParseBytes, of an immutable string for Parse and ParseInto,  *)
(* or of a copy the package made because what it returns is not in the     *)
(* line as it stands.  Callers (goroutines) reuse buffers and Results, and *)
(* keep strings beyond a call.                                             *)
(***************************************************************************)
EXTENDS Naturals, Sequences, FiniteSets

CONSTANTS
  Buffers,          \* the callers' byte slices
  Callers,          \* goroutines, each with one Result it uses again
  Rewrites,         \* [line -> [field it has -> what has to be rewritten in it]]
  Coloured,         \* the lines with ANSI sequences in them
  Keeping,          \* the fields whose strings a caller keeps
  MaxCalls, MaxKept \* bounds: calls of one caller, kept strings of all

Lines == DOMAIN Rewrites

VARIABLES
  mem,      \* [Buffers -> Lines]
  result,   \* [Callers -> [Fields -> view]]
  message,  \* [Callers -> view]: the line without colours
  decoded,  \* [Callers -> [fields -> view]]: enrichFields, or the scan's locals
  call,     \* [Callers -> [step, entry, line, stale]]; step counts Order
  calls,    \* [Callers -> Nat]
  kept      \* strings taken from a Result, with what they said then

vars == <<mem, result, message, decoded, call, calls, kept>>

-----------------------------------------------------------------------------
(* Views *)

\* The fields filled from a line's text, in the order they are filled in.
Order == <<"TraceID", "Message", "ResourceID", "ResourceGroupID">>
Fields == {"Body"} \cup {Order[i] : i \in DOMAIN Order}

\* A line has fields filled from its text; a resource group comes with the
\* resource's identifier it is cut from.
ASSUME LinesAssumption ==
  \A l \in Lines :
    /\ DOMAIN Rewrites[l] \subseteq Fields \ {"Body"}
    /\ "ResourceGroupID" \in DOMAIN Rewrites[l] =>
         /\ "ResourceID" \in DOMAIN Rewrites[l]
         /\ Rewrites[l]["ResourceGroupID"] = Rewrites[l]["ResourceID"]

ASSUME KeepingAssumption == Keeping \subseteq Fields

\* A buffer is neither a text nor nothing.
ASSUME BuffersAssumption == "text" \notin Buffers /\ "nothing" \notin Buffers

\* A view of a part of a line: of a line in a buffer or of a text of its own.
None == [at |-> "nothing", line |-> "none", part |-> "none"]
ViewIn(b) == [at |-> b, line |-> "none", part |-> "Body"]
ViewOf(l) == [at |-> "text", line |-> l, part |-> "Body"]

LineOf(view) == IF view.at \in Buffers THEN mem[view.at] ELSE view.line
Says(view) == IF view = None THEN None ELSE <<LineOf(view), view.part>>

Part(view, part) == [view EXCEPT !.part = part]

\* Mutant: what has to be rewritten is rewritten where it stands.
RewrittenInPlace(view, part) == Part(view, part)

\* removeANSICodes, removeDashesASCII, lower, and the unescaping of a string:
\* a new text, never written again.
Rewritten(view, part) == [at |-> "text", line |-> LineOf(view), part |-> part]

Carried(view, part, rewrites) ==
  IF rewrites = {} THEN Part(view, part) ELSE Rewritten(view, part)

-----------------------------------------------------------------------------
Idle == [step |-> 0, entry |-> "none", line |-> "none", stale |-> FALSE]
Returned == Len(Order) + 4
Busy(c) == call[c].step \notin {0, Returned}
Reads(c, b) == result[c]["Body"].at = b

Init ==
  /\ mem \in [Buffers -> Lines]
  /\ result = [c \in Callers |-> [f \in Fields |-> None]]
  /\ message = [c \in Callers |-> None]
  /\ decoded = [c \in Callers |-> << >>]
  /\ call = [c \in Callers |-> Idle]
  /\ calls = [c \in Callers |-> 0]
  /\ kept = {}

\* A caller reads its next line into a buffer: not one a call is reading, which
\* is what ParseBytes asks.  Results and strings still in use are its own risk.
Scan(b) ==
  /\ \A c \in Callers : Reads(c, b) => ~Busy(c)
  /\ \E l \in Lines \ {mem[b]} : mem' = [mem EXCEPT ![b] = l]
  /\ call' = [c \in Callers |-> [call[c] EXCEPT !.stale = @ \/ Reads(c, b)]]
  /\ kept' = {[k EXCEPT !.stale = @ \/ k.from = b] : k \in kept}
  /\ UNCHANGED <<result, message, decoded, calls>>

\* Mutant: only Body is new, the strings of the line before stay.
ResetBody(c, input) == [result[c] EXCEPT !["Body"] = input]

\* *result = Result{Body: input}; Parse's new Result holds the same.
Reset(c, input) == [f \in Fields |-> IF f = "Body" THEN input ELSE None]

Start(c, entry, input) ==
  /\ ~Busy(c) /\ calls[c] < MaxCalls
  /\ result' = [result EXCEPT ![c] = Reset(c, input)]
  /\ call' = [call EXCEPT ![c] =
                [step |-> 1, entry |-> entry, line |-> LineOf(input), stale |-> FALSE]]
  /\ calls' = [calls EXCEPT ![c] = @ + 1]
  /\ UNCHANGED <<mem, message, decoded, kept>>

ParseBytes(c, b) == Start(c, "ParseBytes", ViewIn(b))
ParseInto(c, l)  == Start(c, "ParseInto", ViewOf(l))

Step(c, n) == call[c].step = n /\ call' = [call EXCEPT ![c].step = n + 1]

removeANSICodes(c) ==
  /\ Step(c, 1)
  /\ LET body == result[c]["Body"]
     IN  message' = [message EXCEPT ![c] =
           Carried(body, "message", IF LineOf(body) \in Coloured THEN {"colour"} ELSE {})]
  /\ UNCHANGED <<mem, result, decoded, calls, kept>>

\* The decoder, or the scan of the pairs: views, but for a string with escapes.
Decode(c) ==
  /\ Step(c, 2)
  /\ LET has == Rewrites[LineOf(message[c])]
     IN  decoded' = [decoded EXCEPT ![c] =
           [f \in DOMAIN has \ {"ResourceGroupID"} |->
              Carried(message[c], f, has[f] \cap {"escape"})]]
  /\ UNCHANGED <<mem, result, message, calls, kept>>

\* One field of the result, with the dashes and the capitals it may have; the
\* resource group is a part of the resource's identifier as the result has it.
Fill(c, i) ==
  /\ Step(c, i + 2)
  /\ LET f == Order[i]
         has == Rewrites[LineOf(message[c])]
     IN  result' =
           IF f = "ResourceGroupID"
             THEN IF f \in DOMAIN has
                    THEN [result EXCEPT ![c][f] = Part(result[c]["ResourceID"], f)] ELSE result
             ELSE IF f \in DOMAIN decoded[c]
                    THEN [result EXCEPT ![c][f] = Carried(decoded[c][f], f, has[f] \ {"escape"})]
                    ELSE result
  /\ UNCHANGED <<mem, message, decoded, calls, kept>>

\* The call returns; its locals are gone.
Return(c) ==
  /\ Step(c, Len(Order) + 3)
  /\ message' = [message EXCEPT ![c] = None]
  /\ decoded' = [decoded EXCEPT ![c] = << >>]
  /\ UNCHANGED <<mem, result, calls, kept>>

\* A caller takes a string from a Result that is still good.
Keep(c, f) ==
  /\ call[c].step = Returned /\ ~call[c].stale /\ result[c][f] # None
  /\ Cardinality(kept) < MaxKept
  /\ LET k == [view |-> result[c][f], said |-> Says(result[c][f]), entry |-> call[c].entry,
               from |-> result[c]["Body"].at, stale |-> FALSE]
     IN  k \notin kept /\ kept' = kept \cup {k}
  /\ UNCHANGED <<mem, result, message, decoded, call, calls>>

Next ==
  \/ \E b \in Buffers : Scan(b)
  \/ \E c \in Callers :
       \/ \E b \in Buffers : ParseBytes(c, b)
       \/ \E l \in Lines : ParseInto(c, l)
       \/ removeANSICodes(c) \/ Decode(c) \/ Return(c)
       \/ \E i \in DOMAIN Order : Fill(c, i)
       \/ \E f \in Keeping : Keep(c, f)

Spec == Init /\ [][Next]_vars

-----------------------------------------------------------------------------
(* Properties *)

\* What the line says of a field.
Expected(l, f) ==
  IF f = "Body" \/ f \in DOMAIN Rewrites[l] THEN <<l, f>> ELSE None

\* Until its buffer is overwritten a Result says what a new one would say of
\* the line: nothing of the lines before, nothing of what other callers parse.
SameAsFresh ==
  \A c \in Callers : call[c].step = Returned /\ ~call[c].stale =>
    \A f \in Fields : Says(result[c][f]) = Expected(call[c].line, f)

\* Whether the line does not contain the field's text as it stands.
NotVerbatim(l, f) ==
  f # "Body" /\ (l \in Coloured \/ Rewrites[l][f] # {})

\* A string taken from a Result says the same for ever, whatever happens to
\* the Result and the buffers, but for a part of the line as it stands, taken
\* after ParseBytes, whose buffer has been overwritten.
KeptStringsHold ==
  \A k \in kept :
    \/ Says(k.view) = k.said
    \/ k.entry = "ParseBytes" /\ k.stale /\ ~NotVerbatim(k.said[1], k.said[2])
=============================================================================
