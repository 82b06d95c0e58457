---------------------------- MODULE ErrorMapping ----------------------------
(***************************************************************************)
(* The classification of a dispatch's error: internal/proxy/errors.go and  *)
(* internal/proxy/retry.go.                                                *)
(*                                                                         *)
(* A Go error is abstracted to what errors.Is and errors.As tell apart:    *)
(* its kind, and for a *jsonrpc.Error (kind "wire") its code.  Message and *)
(* data payload are left out: nothing in the program branches on them.     *)
(***************************************************************************)
EXTENDS Integers

codeRateLimitExceeded == -33001
codeCircuitOpen       == -33002
codeExecutionTimeout  == -33003
codeInternalError     == -32603
codeInvalidParams     == -32602
codeRejected          == -32005    \* errTransientBackendStatus
codeMethodNotFound    == -32601    \* any code that no policy tells apart

Plain(kind) == [kind |-> kind, code |-> 0]
Wire(code)  == [kind |-> "wire", code |-> code]

Success        == Plain("nil")
Panicked       == Plain("panic")          \* *resile.PanicError
CircuitOpen    == Plain("circuit_open")   \* circuit.ErrCircuitOpen
RateLimited    == Plain("rate_limited")   \* resile.ErrRateLimitExceeded
DeadlinePassed == Plain("deadline")       \* context.DeadlineExceeded
Canceled       == Plain("canceled")       \* context.Canceled
NetworkFailure == Plain("network")        \* any net.Error
Rejected       == Wire(codeRejected)
AppError       == Wire(codeMethodNotFound)
InvalidParams  == Wire(codeInvalidParams)

(* A backend may answer with the gateway's own codes: it may be such a      *)
(* gateway itself.                                                         *)
OwnCodes == {codeRateLimitExceeded, codeCircuitOpen, codeExecutionTimeout,
             codeInternalError, codeInvalidParams}

(* What one attempt at the backend may end with. *)
AttemptResults == {Success, Panicked, DeadlinePassed, Canceled,
                   NetworkFailure, Rejected, AppError}
                    \cup {Wire(code) : code \in OwnCodes}

(* What dispatchTool may hold when it is about to return. *)
Errors == AttemptResults \cup {CircuitOpen, RateLimited}

(* The four sentinels mapResilienceError replaces, and by which code. *)
MappedCode == [panic        |-> codeInternalError,
               circuit_open |-> codeCircuitOpen,
               rate_limited |-> codeRateLimitExceeded,
               deadline     |-> codeExecutionTimeout]

MapResilienceError(e) ==
  IF e.kind \in DOMAIN MappedCode THEN Wire(MappedCode[e.kind]) ELSE e

Answers == {MapResilienceError(e) : e \in Errors}

(* The label each sentinel has in mcp_resile_requests_total. *)
OutcomeLabel == [nil          |-> "success",
                 panic        |-> "internal_error",
                 circuit_open |-> "circuit_open",
                 rate_limited |-> "rate_limited",
                 deadline     |-> "timeout"]

Outcomes == {"success", "internal_error", "circuit_open", "rate_limited",
             "timeout", "invalid_params", "error"}

OutcomeForError(e) ==
  IF e.kind \in DOMAIN OutcomeLabel THEN OutcomeLabel[e.kind]
  ELSE IF e = InvalidParams THEN "invalid_params" ELSE "error"

(* context.DeadlineExceeded implements net.Error, so a deadline that passes
   during an attempt counts as transient too. *)
IsTransientError(e) == e = Rejected \/ e.kind \in {"network", "deadline"}

(* The transient failures of a backend, after which its tool may be asked  *)
(* again: a call whose own deadline has passed is over.                    *)
Repeatable == {NetworkFailure, Rejected}

(* logDispatch's level: error is for a recovered panic alone. *)
LogLevel(e, outcome) ==
  IF e = Success THEN "info"
  ELSE IF outcome = "internal_error" THEN "error" ELSE "warn"
=============================================================================
