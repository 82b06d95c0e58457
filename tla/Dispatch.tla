------------------------------ MODULE Dispatch ------------------------------
(***************************************************************************)
(* Concurrent tools/call requests on their way through the gateway:        *)
(* callTool and dispatchTool of internal/proxy/proxy.go, with what they    *)
(* share - the schema cache, each policy's rate limiter and circuit        *)
(* breaker, the metrics - and resile.Do around the backend call.           *)
(*                                                                         *)
(* A call is a goroutine; pc[c] is where it stands:                        *)
(*                                                                         *)
(*   idle -> resolve -> (listing ->) limiter -> attempt <-> waiting        *)
(*                                                 ^           |           *)
(*                                                 +- backoff -+           *)
(*   ... -> return -> done                                                 *)
(*                                                                         *)
(* Left out: payloads, messages, log attributes; progress tokens           *)
(* (NotificationRouter); what a schema says (SchemaCache has schemas that  *)
(* change, here the backends' schemas are fixed); durations, except which  *)
(* side of a deadline or of a min_deadline_threshold a call is on.         *)
(*                                                                         *)
(* The resile library is external.  It is modelled from how the options    *)
(* are built, from the instrumenter's comments and from the tests; where   *)
(* they leave its behaviour open the model allows both outcomes.           *)
(***************************************************************************)
EXTENDS ErrorMapping, Sequences, FiniteSets

CONSTANTS
  Calls,          \* tools/call requests
  Tools,          \* prefixed tool names
  Backends,
  Policies,
  NoBackend,      \* no route's prefix matches the tool
  NoPolicy,       \* no tool_pattern matches the tool
  BackendOf,      \* [Tools -> Backends \cup {NoBackend}]: matchRoute
  PolicyOf,       \* [Tools -> Policies \cup {NoPolicy}]: Resolver.Resolve
  HasSchema,      \* tools with a compilable inputSchema on the page that
                  \* egress.ListTools reads
  MaxAttempts,    \* [Policies -> Nat]: retries.max_attempts, 0 without block
  Burst,          \* [Policies -> Nat]: rate_limit.rate, 0 without block
  HasBreaker,     \* policies with a circuit_breaker block
  HasThreshold,   \* policies with a min_deadline_threshold
  MinCalls,       \* resile: outcomes a window needs before it can trip
  FailureRate,    \* failure_rate, in percent
  BreakerWraps,   \* resile: the breaker counts each "attempt" or each "call"
  Results,        \* what the backends' answers to tools/call may be
  Deadlines,      \* how far off arriving calls' deadlines may be
  Leaving,        \* calls whose client may go away before it is answered
  MaxRefills      \* bound on the tokens a limiter is given over time

ASSUME ToolsAssumption ==
  /\ BackendOf \in [Tools -> Backends \cup {NoBackend}]
  /\ PolicyOf \in [Tools -> Policies \cup {NoPolicy}]
  /\ HasSchema \subseteq Tools
  /\ NoBackend \notin Backends /\ NoPolicy \notin Policies
  /\ IsFiniteSet(Calls)

ASSUME PolicyAssumption ==
  /\ MaxAttempts \in [Policies -> Nat]
  /\ Burst \in [Policies -> Nat]
  /\ HasBreaker \subseteq Policies /\ HasThreshold \subseteq Policies
  /\ MinCalls \in Nat \ {0} /\ FailureRate \in 1..100
  /\ BreakerWraps \in {"attempt", "call"}

ASSUME BoundsAssumption ==
  /\ Results \subseteq AttemptResults
  /\ Deadlines \subseteq {"none", "ample", "short"}
  /\ Leaving \subseteq Calls
  /\ MaxRefills \in Nat

VARIABLES
  pc,          \* pc[c]: where the call's goroutine stands
  tool,        \* tool[c]: the tool it names
  valid,       \* valid[c]: its arguments satisfy the tool's inputSchema
  left,        \* left[c]: how far its context's deadline is
  gone,        \* gone[c]: its context was cancelled: the client left
  lookup,      \* lookup[c]: how resolveTool ended
  results,     \* results[c]: what each finished attempt returned, in order
  err,         \* err[c]: what dispatchTool is about to map and return
  answer,      \* answer[c]: what the client received
  outcome,     \* outcome[c]: the label it was counted under
  cached,      \* tools whose schema the cache holds
  tokens,      \* tokens[p]: what is left in the limiter's bucket
  refills,     \* refills[p]: tokens added since the start
  served,      \* served[p]: calls that took a token
  breaker,     \* breaker[p]: "closed", "open" or "half_open"
  window,      \* window[p]: outcomes in the breaker's trailing window
  requests,    \* requests[o]: mcp_resile_requests_total by outcome
  rejections,  \* mcp_resile_rate_limit_rejections_total
  retries      \* mcp_resile_retries_total

callVars    == <<pc, tool, valid, left, gone, lookup, results, err, answer,
                 outcome>>
limiterVars == <<tokens, refills, served>>
breakerVars == <<breaker, window>>
metricVars  == <<requests, rejections, retries>>
vars == <<callVars, cached, limiterVars, breakerVars, metricVars>>

-----------------------------------------------------------------------------
(* The policy of a call, and what its blocks configure. *)

Policy(c) == PolicyOf[tool[c]]

Limited == {p \in Policies : Burst[p] > 0}

(* WithMaxAttempts: pinned to 1 unless the policy has a retries block. *)
AttemptsAllowed(t) ==
  IF PolicyOf[t] \in Policies /\ MaxAttempts[PolicyOf[t]] > 0
  THEN MaxAttempts[PolicyOf[t]] ELSE 1

TooClose_Unset(c) == left[c] = "short" /\ Policy(c) \in HasThreshold

(* WithMinDeadlineThreshold: 0 aborts only what has already expired. *)
TooClose(c) ==
  \/ left[c] = "expired"
  \/ left[c] = "short" /\ Policy(c) \in HasThreshold

(* What the call's own context reports, if it has ended. *)
ContextEnds(c, e) ==
  \/ e = Canceled /\ gone[c]
  \/ e = DeadlinePassed /\ left[c] = "expired"

Routed(t) == BackendOf[t] /= NoBackend

EmptyWindow == [ok |-> 0, bad |-> 0]

Trips(w) ==
  /\ w.ok + w.bad >= MinCalls
  /\ 100 * w.bad >= FailureRate * (w.ok + w.bad)

(* A call's request - tool, arguments, deadline - is its client's choice. *)
Init ==
  /\ pc = [c \in Calls |-> "idle"]
  /\ tool \in [Calls -> Tools]
  /\ valid \in [Calls -> BOOLEAN]
  /\ left \in [Calls -> Deadlines]
  /\ gone = [c \in Calls |-> FALSE]
  /\ lookup = [c \in Calls |-> "none"]
  /\ results = [c \in Calls |-> <<>>]
  /\ err = [c \in Calls |-> Success]
  /\ answer = [c \in Calls |-> Success]
  /\ outcome = [c \in Calls |-> "none"]
  /\ cached = {}
  /\ tokens = Burst
  /\ refills = [p \in Policies |-> 0]
  /\ served = [p \in Policies |-> {}]
  /\ breaker = [p \in Policies |-> "closed"]
  /\ window = [p \in Policies |-> EmptyWindow]
  /\ requests = [o \in Outcomes |-> 0]
  /\ rejections = 0
  /\ retries = 0

-----------------------------------------------------------------------------
(* callTool, dispatchTool: the request's own steps. *)

Goto(c, label) == pc' = [pc EXCEPT ![c] = label]

(* The call ends with e: dispatchTool's return statements. *)
Leave(c, e) == Goto(c, "return") /\ err' = [err EXCEPT ![c] = e]

(* No route: next answers as for any unknown tool; nothing is recorded. *)
FallThrough(c) ==
  /\ pc[c] = "idle" /\ ~Routed(tool[c])
  /\ Goto(c, "done")
  /\ answer' = [answer EXCEPT ![c] = AppError]
  /\ UNCHANGED <<tool, valid, left, gone, lookup, results, err, outcome,
                 cached, limiterVars, breakerVars, metricVars>>

Arrive(c) ==
  /\ pc[c] = "idle" /\ Routed(tool[c])
  /\ Goto(c, "resolve")
  /\ UNCHANGED <<tool, valid, left, gone, lookup, results, err, answer,
                 outcome, cached, limiterVars, breakerVars, metricVars>>

Validate_Unrecorded(c) ==
  IF valid[c] THEN Goto(c, "limiter") /\ UNCHANGED err
              ELSE Goto(c, "done") /\ err' = [err EXCEPT ![c] = InvalidParams]

(* validateArguments, for a call whose schema was found. *)
Validate(c) ==
  IF valid[c] THEN Goto(c, "limiter") /\ UNCHANGED err
              ELSE Leave(c, InvalidParams)

ResolveHit(c) ==
  /\ pc[c] = "resolve" /\ tool[c] \in cached
  /\ lookup' = [lookup EXCEPT ![c] = "found"]
  /\ Validate(c)
  /\ UNCHANGED <<tool, valid, left, gone, results, answer, outcome, cached,
                 limiterVars, breakerVars, metricVars>>

(* A miss sends tools/list to the tool's backend. *)
ResolveMiss(c) ==
  /\ pc[c] = "resolve" /\ tool[c] \notin cached
  /\ lookup' = [lookup EXCEPT ![c] = "asked"]
  /\ Goto(c, "listing")
  /\ UNCHANGED <<tool, valid, left, gone, results, err, answer, outcome,
                 cached, limiterVars, breakerVars, metricVars>>

Refreshed_Unprefixed(b) == cached   \* stored under names nobody looks up

(* What refreshing the cache with backend b's whole listing leaves in it. *)
Refreshed(b) == cached \cup {t \in HasSchema : BackendOf[t] = b}

ListReply(c) ==
  /\ pc[c] = "listing"
  /\ cached' = Refreshed(BackendOf[tool[c]])
  /\ IF tool[c] \in cached'
     THEN lookup' = [lookup EXCEPT ![c] = "filled"] /\ Validate(c)
     ELSE /\ lookup' = [lookup EXCEPT ![c] = "schemaless"]
          /\ Goto(c, "limiter") /\ UNCHANGED err
  /\ UNCHANGED <<tool, valid, left, gone, results, answer, outcome,
                 limiterVars, breakerVars, metricVars>>

(* The listing failed: dispatch goes on without validation. *)
ListFail(c) ==
  /\ pc[c] = "listing"
  /\ lookup' = [lookup EXCEPT ![c] = "failed"]
  /\ Goto(c, "limiter")
  /\ UNCHANGED <<tool, valid, left, gone, results, err, answer, outcome,
                 cached, limiterVars, breakerVars, metricVars>>

(* One iteration of listTools' loop, for a client's own tools/list. *)
RefreshRoute(b) ==
  /\ cached' = Refreshed(b)
  /\ UNCHANGED <<callVars, limiterVars, breakerVars, metricVars>>

-----------------------------------------------------------------------------
(* resile.Do: the limiter first, then the retry loop, the breaker in it or *)
(* around it.                                                              *)

HasToken(p) == tokens[p] > 0

Admit(c) ==
  /\ pc[c] = "limiter"
  /\ IF Policy(c) \in Limited
     THEN /\ HasToken(Policy(c))
          /\ tokens' = [tokens EXCEPT ![Policy(c)] = @ - 1]
          /\ served' = [served EXCEPT ![Policy(c)] = @ \cup {c}]
     ELSE UNCHANGED <<tokens, served>>
  /\ Goto(c, "attempt")
  /\ UNCHANGED <<tool, valid, left, gone, lookup, results, err, answer,
                 outcome, cached, refills, breakerVars, metricVars>>

Shed_Waits(c) ==
  /\ pc[c] = "limiter" /\ Policy(c) \in Limited /\ ~HasToken(Policy(c))
  /\ UNCHANGED vars

Shed(c) ==
  /\ pc[c] = "limiter" /\ Policy(c) \in Limited /\ ~HasToken(Policy(c))
  /\ Leave(c, RateLimited)
  /\ rejections' = rejections + 1
  /\ UNCHANGED <<tool, valid, left, gone, lookup, results, answer, outcome,
                 cached, limiterVars, breakerVars, requests, retries>>

(* Does the breaker get to decide on this attempt? *)
Gated(c) ==
  /\ Policy(c) \in HasBreaker
  /\ BreakerWraps = "attempt" \/ results[c] = <<>>

(* The breaker counts an outcome; which half-open success closes it is     *)
(* resile's decision.                                                      *)
Observe(p, e) ==
  LET seen == IF e = Success THEN [window[p] EXCEPT !.ok = @ + 1]
                             ELSE [window[p] EXCEPT !.bad = @ + 1]
  IN  \/ /\ breaker[p] = "closed" /\ ~Trips(seen)
         /\ window' = [window EXCEPT ![p] = seen]
         /\ UNCHANGED breaker
      \/ /\ breaker[p] = "closed" /\ Trips(seen)
         /\ breaker' = [breaker EXCEPT ![p] = "open"]
         /\ window' = [window EXCEPT ![p] = EmptyWindow]
      \/ /\ breaker[p] = "half_open" /\ e = Success
         /\ \E s \in {"half_open", "closed"} :
              breaker' = [breaker EXCEPT ![p] = s]
         /\ UNCHANGED window
      \/ /\ breaker[p] = "half_open" /\ e /= Success
         /\ breaker' = [breaker EXCEPT ![p] = "open"]
         /\ UNCHANGED window
      \/ breaker[p] = "open" /\ UNCHANGED breakerVars

Count_AnyPolicy(c, unit, e) ==
  IF BreakerWraps = unit THEN \E p \in HasBreaker : Observe(p, e)
                         ELSE UNCHANGED breakerVars

(* The breaker of the call's policy sees e, if there is one and it wraps   *)
(* the unit of work that ended with e.                                     *)
Count(c, unit, e) ==
  IF Policy(c) \in HasBreaker /\ BreakerWraps = unit
  THEN Observe(Policy(c), e) ELSE UNCHANGED breakerVars

(* min_deadline_threshold: no round trip that cannot finish in time. *)
Abort(c) ==
  /\ pc[c] = "attempt" /\ TooClose(c)
  /\ Leave(c, DeadlinePassed)
  /\ Count(c, "call", DeadlinePassed)
  /\ UNCHANGED <<tool, valid, left, gone, lookup, results, answer, outcome,
                 cached, limiterVars, metricVars>>

(* AfterAttempt: every attempt past the call's first counts as a retry. *)
AfterAttempt(c) == retries' = retries + IF results[c] = <<>> THEN 0 ELSE 1

Refuse_Retried(c) ==
  /\ pc[c] = "attempt" /\ ~TooClose(c)
  /\ Gated(c) /\ breaker[Policy(c)] \in {"open", "half_open"}
  /\ Goto(c, "backoff")
  /\ UNCHANGED <<tool, valid, left, gone, lookup, results, err, answer,
                 outcome, cached, limiterVars, breakerVars, metricVars>>

(* Fail fast; half open lets probes through and may refuse the rest.       *)
(* Whether a refusal is an attempt to the instrumenter is resile's choice. *)
Refuse(c) ==
  /\ pc[c] = "attempt" /\ ~TooClose(c)
  /\ Gated(c) /\ breaker[Policy(c)] \in {"open", "half_open"}
  /\ Leave(c, CircuitOpen)
  /\ AfterAttempt(c) \/ UNCHANGED retries
  /\ UNCHANGED <<tool, valid, left, gone, lookup, results, answer, outcome,
                 cached, limiterVars, breakerVars, requests, rejections>>

Send(c) ==
  /\ pc[c] = "attempt" /\ ~TooClose(c)
  /\ Gated(c) => breaker[Policy(c)] /= "open"
  /\ Goto(c, "waiting")
  /\ UNCHANGED <<tool, valid, left, gone, lookup, results, err, answer,
                 outcome, cached, limiterVars, breakerVars, metricVars>>

(* WithRetryIfFunc(isTransientError), while attempts are left. *)
ShouldRetry(t, n, e) == IsTransientError(e) /\ n < AttemptsAllowed(t)

(* One attempt ends: with the backend's answer, a broken connection, a     *)
(* panic in the client library, or because the context ended.              *)
Reply(c, e) ==
  /\ pc[c] = "waiting"
  /\ e \in {Canceled, DeadlinePassed} => ContextEnds(c, e)
  /\ results' = [results EXCEPT ![c] = Append(@, e)]
  /\ IF ShouldRetry(tool[c], Len(results[c]) + 1, e)
     THEN /\ Goto(c, "backoff") /\ UNCHANGED err
          /\ Count(c, "attempt", e)
     ELSE /\ Leave(c, e)
          /\ Count(c, BreakerWraps, e)
  /\ AfterAttempt(c)
  /\ UNCHANGED <<tool, valid, left, gone, lookup, answer, outcome, cached,
                 limiterVars, requests, rejections>>

BackoffOver_Recharged(c) ==
  /\ pc[c] = "backoff"
  /\ Goto(c, "limiter")
  /\ UNCHANGED <<tool, valid, left, gone, lookup, results, err, answer,
                 outcome, cached, limiterVars, breakerVars, metricVars>>

(* Full jitter: the delay may be anything, so only its end is a step. *)
BackoffOver(c) ==
  /\ pc[c] = "backoff"
  /\ Goto(c, "attempt")
  /\ UNCHANGED <<tool, valid, left, gone, lookup, results, err, answer,
                 outcome, cached, limiterVars, breakerVars, metricVars>>

(* The context ends between two attempts or before the first: a client     *)
(* that left while its schema was looked up still gets this far.  resile   *)
(* may look at the context here, or only after the next attempt.           *)
Cut(c, e) ==
  /\ pc[c] \in {"attempt", "backoff"} /\ ContextEnds(c, e)
  /\ Leave(c, e)
  /\ Count(c, "call", e)
  /\ UNCHANGED <<tool, valid, left, gone, lookup, results, answer, outcome,
                 cached, limiterVars, metricVars>>

(* The same ahead of the limiter: no token is taken. *)
CutEarly(c, e) ==
  /\ pc[c] = "limiter" /\ ContextEnds(c, e)
  /\ Leave(c, e)
  /\ UNCHANGED <<tool, valid, left, gone, lookup, results, answer, outcome,
                 cached, limiterVars, breakerVars, metricVars>>

-----------------------------------------------------------------------------
Return_Unmapped(c) ==
  /\ pc[c] = "return"
  /\ Goto(c, "done")
  /\ answer' = [answer EXCEPT ![c] = err[c]]
  /\ outcome' = [outcome EXCEPT ![c] = OutcomeForError(answer'[c])]
  /\ requests' = [requests EXCEPT ![outcome'[c]] = @ + 1]
  /\ UNCHANGED <<tool, valid, left, gone, lookup, results, err, cached,
                 limiterVars, breakerVars, rejections, retries>>

(* The way back: mapResilienceError, then callTool's single RecordRequest, *)
(* which sees the error mapResilienceError already replaced.               *)
Return(c) ==
  /\ pc[c] = "return"
  /\ Goto(c, "done")
  /\ answer' = [answer EXCEPT ![c] = MapResilienceError(err[c])]
  /\ outcome' = [outcome EXCEPT ![c] = OutcomeForError(answer'[c])]
  /\ requests' = [requests EXCEPT ![outcome'[c]] = @ + 1]
  /\ UNCHANGED <<tool, valid, left, gone, lookup, results, err, cached,
                 limiterVars, breakerVars, rejections, retries>>

-----------------------------------------------------------------------------
(* Time. *)

Refill(p) ==
  /\ tokens[p] < Burst[p] /\ refills[p] < MaxRefills
  /\ tokens' = [tokens EXCEPT ![p] = @ + 1]
  /\ refills' = [refills EXCEPT ![p] = @ + 1]
  /\ UNCHANGED <<callVars, cached, served, breakerVars, metricVars>>

ResetTimeout(p) ==
  /\ breaker[p] = "open"
  /\ breaker' = [breaker EXCEPT ![p] = "half_open"]
  /\ UNCHANGED <<callVars, cached, limiterVars, window, metricVars>>

(* Outcomes older than window_duration drop out of the window. *)
WindowSlides(p) ==
  /\ window[p] /= EmptyWindow
  /\ \E ok \in 0..window[p].ok, bad \in 0..window[p].bad :
       window' = [window EXCEPT ![p] = [ok |-> ok, bad |-> bad]]
  /\ UNCHANGED <<callVars, cached, limiterVars, breaker, metricVars>>

Tick(c) ==
  /\ pc[c] \notin {"idle", "return", "done"}
  /\ \/ left[c] = "ample" /\ left' = [left EXCEPT ![c] = "short"]
     \/ left[c] = "short" /\ left' = [left EXCEPT ![c] = "expired"]
  /\ UNCHANGED <<pc, tool, valid, gone, lookup, results, err, answer, outcome,
                 cached, limiterVars, breakerVars, metricVars>>

(* The client cancels its request or closes its session. *)
GoAway(c) ==
  /\ c \in Leaving /\ ~gone[c]
  /\ pc[c] \notin {"idle", "return", "done"}
  /\ gone' = [gone EXCEPT ![c] = TRUE]
  /\ UNCHANGED <<pc, tool, valid, left, lookup, results, err, answer, outcome,
                 cached, limiterVars, breakerVars, metricVars>>

-----------------------------------------------------------------------------
Step(c) ==
  \/ FallThrough(c) \/ Arrive(c) \/ ResolveHit(c) \/ ResolveMiss(c)
  \/ ListReply(c) \/ ListFail(c)
  \/ Admit(c) \/ Shed(c)
  \/ Abort(c) \/ Refuse(c) \/ Send(c)
  \/ \E e \in Results : Reply(c, e)
  \/ BackoffOver(c)
  \/ \E e \in {Canceled, DeadlinePassed} : Cut(c, e) \/ CutEarly(c, e)
  \/ Return(c)

Environment ==
  \/ \E b \in Backends : RefreshRoute(b)
  \/ \E p \in Policies : Refill(p) \/ ResetTimeout(p) \/ WindowSlides(p)
  \/ \E c \in Calls : Tick(c) \/ GoAway(c)

Next == Environment \/ \E c \in Calls : Step(c)

Spec == Init /\ [][Next]_vars

(* A goroutine that can run does; a backend answers in the end (nothing in *)
(* the gateway bounds how long it may take).  Limiters and breakers are    *)
(* not assumed to recover.                                                 *)
FairSpec == Spec /\ \A c \in Calls : WF_vars(Step(c))

-----------------------------------------------------------------------------
(* What is asked of it. *)

Labels == {"idle", "resolve", "listing", "limiter", "attempt", "waiting",
           "backoff", "return", "done"}

(* Type correctness; a bucket never holds less than nothing or more than   *)
(* its burst, and every error on its way out is one the mapping knows.     *)
TypeOK ==
  /\ pc \in [Calls -> Labels]
  /\ tool \in [Calls -> Tools]
  /\ valid \in [Calls -> BOOLEAN]
  /\ left \in [Calls -> {"none", "ample", "short", "expired"}]
  /\ gone \in [Calls -> BOOLEAN]
  /\ lookup \in [Calls -> {"none", "found", "asked", "filled", "schemaless",
                           "failed"}]
  /\ results \in [Calls -> Seq(AttemptResults)]
  /\ err \in [Calls -> Errors]
  /\ answer \in [Calls -> Answers]
  /\ outcome \in [Calls -> Outcomes \cup {"none"}]
  /\ cached \in SUBSET HasSchema
  /\ tokens \in [Policies -> Nat]
  /\ refills \in [Policies -> 0..MaxRefills]
  /\ \A p \in Policies : tokens[p] <= Burst[p]
  /\ served \in [Policies -> SUBSET Calls]
  /\ breaker \in [Policies -> {"closed", "open", "half_open"}]
  /\ window \in [Policies -> [ok : Nat, bad : Nat]]
  /\ requests \in [Outcomes -> Nat]
  /\ rejections \in Nat
  /\ retries \in Nat

(* How often the backend was asked to run the call's tool. *)
Attempts(c) == Len(results[c]) + IF pc[c] = "waiting" THEN 1 ELSE 0

(* Retries: a call never exceeds its policy's max_attempts - a single      *)
(* attempt without a retries block - and asks the backend again only after *)
(* a transient failure of the backend: never after a result, an error the  *)
(* backend itself reported, a panic, a cancellation or the call's own      *)
(* deadline, though isTransientError takes the last for a network error.   *)
(* (resilienceOptions, isTransientError)                                   *)
AttemptDiscipline ==
  \A c \in Calls :
    /\ Attempts(c) <= AttemptsAllowed(tool[c])
    /\ \A i \in 1..Len(results[c]) :
         i < Attempts(c) => results[c][i] \in Repeatable

(* What is left of a call: its stage, and three stages per attempt. *)
Stage == [idle |-> 8, resolve |-> 7, listing |-> 6, limiter |-> 5,
          backoff |-> 5, attempt |-> 4, waiting |-> 3, return |-> 1, done |-> 0]

Fuel(c) == Stage[pc[c]] + 3 * (AttemptsAllowed(tool[c]) - Len(results[c]))

(* A call cannot go round in circles: each of its own steps uses up some   *)
(* of what it started with, and no step of anybody else - a racing call, a *)
(* refill, a breaker's timeout - gives any of it back.  (What remains of   *)
(* EveryCallAnswered is that the call takes its steps.)                    *)
(* (dispatchTool, resile.Do's retry loop)                                  *)
StepsRunOut ==
  [][\A c \in Calls :
       /\ Step(c) => Fuel(c)' < Fuel(c)
       /\ Fuel(c)' \in 0..Fuel(c)]_vars

(* The argument firewall: arguments that violate the schema their tool     *)
(* advertises reach no limiter, no breaker and no backend, unless that     *)
(* very call could not fetch the schema; and the gateway's own -32602 only *)
(* ever answers such arguments.  (dispatchTool, resolveTool)               *)
FirewallHolds ==
  \A c \in Calls :
    /\ ~valid[c] /\ tool[c] \in HasSchema /\ lookup[c] /= "failed" =>
         /\ results[c] = <<>>
         /\ \A p \in Policies : c \notin served[p]
         /\ pc[c] \in {"idle", "resolve", "listing", "return", "done"}
    /\ err[c] = InvalidParams /\ results[c] = <<>> =>
         ~valid[c] /\ tool[c] \in HasSchema

(* The limiter's budget: a call takes at most one token of one policy      *)
(* however often it is retried, no token is lost or made up, and nothing   *)
(* governed by a rate_limit reaches the backend without one - so no more   *)
(* than burst plus refills calls ever do, over all tools and backends that *)
(* the policy covers.  (newPolicy, resilienceOptions)                      *)
RateConservation ==
  /\ \A p \in Policies :
       Cardinality(served[p]) + tokens[p] = Burst[p] + refills[p]
  /\ \A c \in Calls :
       Attempts(c) > 0 /\ Policy(c) \in Limited => c \in served[Policy(c)]
  /\ \A c \in Calls, p \in Policies : c \in served[p] => p = Policy(c)

(* How much of call c a breaker may have counted: its attempts, and the    *)
(* deadline or cancellation that ended it outside of them.                 *)
Ends(c) == Len(results[c]) + IF err[c] \in {DeadlinePassed, Canceled} THEN 1 ELSE 0

WentBadly(c) ==
  \/ err[c] \in {DeadlinePassed, Canceled}
  \/ \E i \in 1..Len(results[c]) : results[c][i] /= Success

(* A breaker that left closed saw the trouble itself: at least MinCalls    *)
(* outcomes of its own policy's calls, one of them bad.  What calls of     *)
(* other policies met never opens it, nor does a call that was rejected,   *)
(* shed or found no route.  (newPolicy: one breaker per policy)            *)
BreakerIsolation ==
  \A p \in Policies :
    breaker[p] /= "closed" =>
      LET own == {c \in Calls : Policy(c) = p}
      IN  /\ Cardinality(UNION {{c} \X (1..Ends(c)) : c \in own}) >= MinCalls
          /\ \E c \in own : WentBadly(c)

(* The attempts of all calls, from the nth of each on. *)
AttemptsFrom(n) == UNION {{c} \X (n..Len(results[c])) : c \in Calls}

(* Calls whose breaker cut them short between two attempts. *)
CutShort == {c \in Calls : err[c] = CircuitOpen /\ results[c] /= <<>>}

(* The books balance: every routed call is counted exactly once, when it   *)
(* is answered, whichever way it ended, and an unrouted one never; the     *)
(* rejections counter is the number of calls the gateway's own limiter     *)
(* shed, whatever codes backends answer with; the retries counter is the   *)
(* number of attempts past each call's first, give or take those an open   *)
(* breaker refused.                                                        *)
(* (callTool, RecordRequest, OnRateLimitExceeded, AfterAttempt)            *)
MetricsAgree ==
  /\ \A o \in Outcomes :
       requests[o] = Cardinality({c \in Calls :
                       pc[c] = "done" /\ Routed(tool[c]) /\ outcome[c] = o})
  /\ \A c \in Calls :
       pc[c] = "done" => (outcome[c] \in Outcomes <=> Routed(tool[c]))
  /\ rejections = Cardinality({c \in Calls : err[c] = RateLimited})
  /\ retries - Cardinality(AttemptsFrom(2)) \in 0..Cardinality(CutShort)

(* What errors.go:96-103 says of the label - one for each of the cases of  *)
(* mapResilienceError - and proxy.go:161-163 of the level a recovered      *)
(* panic is logged at.                                                     *)
OutcomeNamesCause ==
  \A c \in Calls :
    pc[c] = "done" /\ Routed(tool[c]) =>
      /\ err[c].kind \in DOMAIN MappedCode =>
           outcome[c] = OutcomeLabel[err[c].kind]
      /\ err[c] = Panicked => LogLevel(answer[c], outcome[c]) = "error"

(* The refinement mapping: what CallContract sees of a call. *)
Phase == [c \in Calls |-> CASE pc[c] = "idle" -> "new"
                             [] pc[c] = "done" -> "closed"
                             [] pc[c] = "waiting" -> "running"
                             [] OTHER -> "open"]

Budget == [c \in Calls |-> IF pc[c] = "idle" \/ ~Routed(tool[c])
                           THEN 0 ELSE AttemptsAllowed(tool[c])]

Runs == [c \in Calls |-> Attempts(c)]

Last == [c \in Calls |-> IF results[c] = <<>> THEN Success
                         ELSE results[c][Len(results[c])]]

Contract == INSTANCE CallContract WITH
  Budgets <- {AttemptsAllowed(t) : t \in Tools},
  phase <- Phase, budget <- Budget, runs <- Runs, last <- Last

(* The promise to each client, CallContract, is kept by dispatchTool and   *)
(* resile.Do together.                                                     *)
KeepsContract == Contract!Spec

(* Every call is answered: no policy block, and no failure of a backend    *)
(* that answers at all, leaves a client waiting.                           *)
EveryCallAnswered == \A c \in Calls : pc[c] /= "idle" ~> pc[c] = "done"
=============================================================================
