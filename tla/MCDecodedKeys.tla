---------------------------- MODULE MCDecodedKeys ----------------------------
(***************************************************************************)
(* An instance of DecodedKeys for TLC: every key of every tag, one key     *)
(* that is none of them, and nested objects of every kind.                *)
(***************************************************************************)
EXTENDS DecodedKeys

MCKeys ==
  [enrichFields |-> UNION {t.keys : t \in Structs["enrichFields"]} \cup {"Level"},
   httpResponse |-> {"statusCode", "StatusCode"}]
MCInnerKeys ==
  [mongoDate            |-> {"$date", "date"},
   enrichProperties     |-> {"log", "response", "httpStatusCode", "Log"},
   enrichResponseStatus |-> {"code", "Code"}]
=============================================================================
