------------------------------ MODULE OneShot -------------------------------
(***************************************************************************)
(* The abstract specification of a function call: an input is given once,  *)
(* and one step later the answer is F of it.  The machines that model how  *)
(* the code computes an answer (callbacks, early exits, gates, caches) are *)
(* shown to implement this with F the definition of what they promise.     *)
(***************************************************************************)

CONSTANTS
  F(_),            \* what it promises to return
  NoAnswer         \* the value of answer before it returns

VARIABLES input, answer

vars == <<input, answer>>

Init == answer = NoAnswer

Return ==
  /\ answer = NoAnswer
  /\ answer' = F(input)
  /\ UNCHANGED input

Spec == Init /\ [][Return]_vars /\ WF_vars(Return)

\* The safety part alone, the half that can be proved.
Safe == Init /\ [][Return]_vars
=============================================================================
