---------------------------- MODULE MCCallerBuffer ----------------------------
(***************************************************************************)
(* An instance of CallerBuffer for TLC: lines that need every rewriting,   *)
(* one that needs none and one that says nothing.                          *)
(***************************************************************************)
EXTENDS CallerBuffer, TLC

MCRewrites ==
  [azure    |-> [Message |-> {}, ResourceID |-> {"upper"}, ResourceGroupID |-> {"upper"}],
   envoy    |-> [TraceID |-> {"dash"}, Message |-> {"escape"}],
   plain    |-> [TraceID |-> {}, Message |-> {}],
   coloured |-> [Message |-> {}],
   nothing  |-> << >>]
Symmetric == Permutations(Callers)
=============================================================================
