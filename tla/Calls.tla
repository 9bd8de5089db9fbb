------------------------------- MODULE Calls -------------------------------
(***************************************************************************)
(* A call of a function that works its text off in a loop: the variables   *)
(* of every such function, and how it begins and ends.  MachineWords and   *)
(* TextScans have the functions.                                           *)
(***************************************************************************)
EXTENDS Integers, Sequences

VARIABLES
  call,            \* [function, text], and what else the function is given
  at,              \* how far the loop has come
  kept,            \* what it carries along
  answer

vars == <<call, at, kept, answer>>

text == call.text

NoAnswer == <<"none">>

Running(f)   == call.function = f /\ answer = NoAnswer
Returns(v)   == answer' = <<"returns", v>> /\ UNCHANGED <<call, at, kept>>
GoesOn(i, k) == at' = i /\ kept' = k /\ UNCHANGED <<call, answer>>

Answered(f)  == call.function = f /\ answer # NoAnswer
Said         == answer[2]
=============================================================================
