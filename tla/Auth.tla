-------------------------------- MODULE Auth --------------------------------
(***************************************************************************)
(* Middleware of internal/auth/auth.go: one header of every request        *)
(* against a list of tokens.                                               *)
(*                                                                         *)
(* A header's value, and a token, is a sequence of symbols; Scheme is the  *)
(* set of symbols that stand for "Bearer " in its various spellings.       *)
(* Left out: the constant-time comparison, the body of the refusal.        *)
(***************************************************************************)
EXTENDS Sequences, Integers

CONSTANTS
  Symbols, \* what headers and tokens are made of
  Scheme  \* spellings of "Bearer ", upper and lower case alike

ExtractToken_ExactCase(header) ==
  IF Len(header) > 1 /\ header[1] = CHOOSE s \in Scheme : TRUE
  THEN Tail(header) ELSE header

(* The scheme is only stripped where something follows it. *)
ExtractToken(header) ==
  IF Len(header) > 1 /\ header[1] \in Scheme THEN Tail(header) ELSE header

IsAllowed(token, tokens) == \E i \in DOMAIN tokens : tokens[i] = token

(* Does a request reach the handler behind?  Otherwise: 401, -32601. *)
Admits(auth, header) ==
  \/ ~auth.enabled
  \/ LET token == ExtractToken(header)
     IN  token /= <<>> /\ IsAllowed(token, auth.tokens)
=============================================================================
