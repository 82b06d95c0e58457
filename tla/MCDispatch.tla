----------------------------- MODULE MCDispatch -----------------------------
(***************************************************************************)
(* Small instances of Dispatch for TLC.  Tools tA and tB share policy p    *)
(* (retries, a rate limit, a breaker, a threshold) and live on different   *)
(* backends; tA advertises a schema, tB none.  tC, with a schema, is       *)
(* governed by policy q, which has a breaker and nothing else; tD, with a  *)
(* schema, matches no policy; tX matches no route.                         *)
(***************************************************************************)
EXTENDS Dispatch, TLC

CONSTANTS tA, tB, tC, tD, tX, b1, b2, p, q

MCBackendOf == [t \in Tools |-> CASE t \in {tA, tC} -> b1
                                  [] t \in {tB, tD} -> b2
                                  [] t = tX -> NoBackend]
MCPolicyOf  == [t \in Tools |-> CASE t \in {tA, tB, tX} -> p
                                  [] t = tC -> q
                                  [] t = tD -> NoPolicy]
MCHasSchema == Tools \cap {tA, tC, tD}

(* p: up to two attempts; q has no retries block. *)
MCMaxAttempts == p :> 2 @@ q :> 0
(* p: one token; q has no rate_limit block. *)
MCBurst == p :> 1 @@ q :> 0

AllResults == AttemptResults
(* One of each way a breaker and a retry tell apart. *)
MCResults == {Success, Rejected, AppError}
=============================================================================
