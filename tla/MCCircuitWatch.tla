--------------------------- MODULE MCCircuitWatch ---------------------------
(***************************************************************************)
(* Small instance of CircuitWatch: two policies with the same tool_pattern *)
(* around one of another pattern, then a catch-all; the second of the      *)
(* equal ones can never govern a call.                                     *)
(***************************************************************************)
EXTENDS CircuitWatch

MCPattern == <<"get_*", "put_*", "get_*", "*">>
MCMatches == {<<"get_*", "get_a">>, <<"put_*", "put_b">>} \cup ({"*"} \X Tools)
=============================================================================
