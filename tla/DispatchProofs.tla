--------------------------- MODULE DispatchProofs ---------------------------
(***************************************************************************)
(* Theorems about Dispatch, for every number of calls, tools, backends and *)
(* policies and every setting of their blocks.                             *)
(***************************************************************************)
EXTENDS Dispatch, FiniteSetTheorems, TLAPS

(* The classification of errors stays within its tables. *)
LEMMA MappingTypes ==
  /\ \A e \in Errors : MapResilienceError(e) \in Answers
  /\ \A e \in Answers : OutcomeForError(e) \in Outcomes
<1>1. \A e \in Errors : MapResilienceError(e) \in Answers
  BY DEF Answers
<1>2. \A e : OutcomeForError(e) \in Outcomes
  BY DEF OutcomeForError, OutcomeLabel, Outcomes
<1>3. QED BY <1>1, <1>2

(* The constants that Init and Leave name are errors of the right kind. *)
LEMMA NamedErrors ==
  /\ {Success, Canceled, DeadlinePassed, InvalidParams, CircuitOpen,
      RateLimited} \subseteq Errors
  /\ Success \in Answers /\ AppError \in Answers
<1>1. /\ {Success, Canceled, DeadlinePassed, InvalidParams, CircuitOpen,
          RateLimited, AppError} \subseteq Errors
  BY DEF Errors, AttemptResults, OwnCodes, InvalidParams
<1>2. MapResilienceError(Success) = Success
  BY DEF MapResilienceError, Success, Plain, MappedCode
<1>3. MapResilienceError(AppError) = AppError
  BY DEF MapResilienceError, AppError, Wire, MappedCode
<1>4. QED BY <1>1, <1>2, <1>3 DEF Answers

LEMMA TypeInit == Init => TypeOK
<1> SUFFICES ASSUME Init PROVE TypeOK
  OBVIOUS
<1>1. results \in [Calls -> Seq(AttemptResults)]
  BY DEF Init
<1>2. window \in [Policies -> [ok : Nat, bad : Nat]]
  BY DEF Init, EmptyWindow
<1>3. left \in [Calls -> {"none", "ample", "short", "expired"}]
  BY BoundsAssumption DEF Init
<1>4. /\ tokens \in [Policies -> Nat]
      /\ \A p \in Policies : tokens[p] <= Burst[p]
  BY PolicyAssumption DEF Init
<1>5. refills \in [Policies -> 0..MaxRefills]
  BY BoundsAssumption DEF Init
<1>6. QED
  BY <1>1, <1>2, <1>3, <1>4, <1>5, NamedErrors DEF Init, TypeOK, Labels

(* The breaker's counters stay well typed whatever it is shown. *)
LEMMA ObserveTypes ==
  ASSUME TypeOK, NEW p \in Policies, NEW e, Observe(p, e)
  PROVE  /\ breaker' \in [Policies -> {"closed", "open", "half_open"}]
         /\ window' \in [Policies -> [ok : Nat, bad : Nat]]
<1>1. /\ breaker \in [Policies -> {"closed", "open", "half_open"}]
      /\ window \in [Policies -> [ok : Nat, bad : Nat]]
  BY DEF TypeOK
<1> DEFINE seen == IF e = Success THEN [window[p] EXCEPT !.ok = @ + 1]
                                  ELSE [window[p] EXCEPT !.bad = @ + 1]
<1>2. seen \in [ok : Nat, bad : Nat]
  BY <1>1
<1>3. EmptyWindow \in [ok : Nat, bad : Nat]
  BY DEF EmptyWindow
<1>4. /\ window' = window \/ window' = [window EXCEPT ![p] = seen]
                          \/ window' = [window EXCEPT ![p] = EmptyWindow]
      /\ \/ breaker' = breaker
         \/ \E b \in {"closed", "open", "half_open"} :
              breaker' = [breaker EXCEPT ![p] = b]
  BY DEF Observe, breakerVars
<1> HIDE DEF seen
<1>5. QED
  BY <1>1, <1>2, <1>3, <1>4

LEMMA CountTypes ==
  ASSUME TypeOK, NEW c \in Calls, NEW unit, NEW e, Count(c, unit, e)
  PROVE  /\ breaker' \in [Policies -> {"closed", "open", "half_open"}]
         /\ window' \in [Policies -> [ok : Nat, bad : Nat]]
<1>1. CASE Policy(c) \in HasBreaker /\ BreakerWraps = unit
  <2>1. Policy(c) \in Policies /\ Observe(Policy(c), e)
    BY <1>1, PolicyAssumption DEF Count
  <2>2. QED BY <2>1, ObserveTypes
<1>2. CASE ~(Policy(c) \in HasBreaker /\ BreakerWraps = unit)
  BY <1>2 DEF Count, breakerVars, TypeOK
<1>3. QED BY <1>1, <1>2

(* One lemma per action: it keeps the types. *)

LEMMA FallThroughType == ASSUME TypeOK, NEW c \in Calls, FallThrough(c) PROVE TypeOK'
BY NamedErrors DEF FallThrough, Goto, TypeOK, Labels, callVars,
   limiterVars, breakerVars, metricVars

LEMMA ArriveType == ASSUME TypeOK, NEW c \in Calls, Arrive(c) PROVE TypeOK'
BY NamedErrors DEF Arrive, Goto, TypeOK, Labels, callVars,
   limiterVars, breakerVars, metricVars

LEMMA ResolveHitType == ASSUME TypeOK, NEW c \in Calls, ResolveHit(c) PROVE TypeOK'
<1>1. pc' \in [Calls -> Labels] /\ err' \in [Calls -> Errors]
  BY NamedErrors DEF ResolveHit, Validate, Leave, Goto, TypeOK, Labels
<1>2. lookup' \in [Calls -> {"none", "found", "asked", "filled", "schemaless",
                           "failed"}]
  BY DEF ResolveHit, TypeOK
<1>3. QED
  BY <1>1, <1>2 DEF ResolveHit, TypeOK, limiterVars, breakerVars, metricVars

LEMMA ResolveMissType == ASSUME TypeOK, NEW c \in Calls, ResolveMiss(c) PROVE TypeOK'
BY NamedErrors DEF ResolveMiss, Goto, TypeOK, Labels, callVars,
   limiterVars, breakerVars, metricVars

LEMMA ListReplyType == ASSUME TypeOK, NEW c \in Calls, ListReply(c) PROVE TypeOK'
<1>1. /\ \/ Goto(c, "limiter") /\ UNCHANGED err
         \/ Leave(c, InvalidParams)
      /\ \/ lookup' = [lookup EXCEPT ![c] = "filled"]
         \/ lookup' = [lookup EXCEPT ![c] = "schemaless"]
  BY DEF ListReply, Validate
<1>2. pc' \in [Calls -> Labels] /\ err' \in [Calls -> Errors]
  <2>1. pc \in [Calls -> Labels] /\ err \in [Calls -> Errors]
    BY DEF TypeOK
  <2>2. CASE Goto(c, "limiter") /\ UNCHANGED err
    BY <2>1, <2>2 DEF Goto, Labels
  <2>3. CASE Leave(c, InvalidParams)
    BY <2>1, <2>3, NamedErrors DEF Leave, Goto, Labels
  <2>4. QED BY <1>1, <2>2, <2>3
<1>3. lookup' \in [Calls -> {"none", "found", "asked", "filled", "schemaless", "failed"}]
  BY <1>1 DEF TypeOK
<1>4. cached' \in SUBSET HasSchema
  BY DEF ListReply, Refreshed, TypeOK
<1>5. UNCHANGED <<tool, valid, left, gone, results, answer, outcome,
                  limiterVars, breakerVars, metricVars>>
  BY DEF ListReply
<1>6. QED
  BY <1>2, <1>3, <1>4, <1>5 DEF TypeOK, limiterVars, breakerVars, metricVars

LEMMA ListFailType == ASSUME TypeOK, NEW c \in Calls, ListFail(c) PROVE TypeOK'
BY NamedErrors DEF ListFail, Goto, TypeOK, Labels, callVars,
   limiterVars, breakerVars, metricVars

LEMMA AfterAttemptType ==
  ASSUME TypeOK, NEW c \in Calls, AfterAttempt(c) PROVE retries' \in Nat
BY DEF AfterAttempt, TypeOK

LEMMA RefuseType == ASSUME TypeOK, NEW c \in Calls, Refuse(c) PROVE TypeOK'
<1>1. retries' \in Nat
  BY AfterAttemptType DEF Refuse, TypeOK
<1>2. QED
  BY <1>1, NamedErrors DEF Refuse, Leave, Goto, TypeOK, Labels, callVars,
     limiterVars, breakerVars

LEMMA SendType == ASSUME TypeOK, NEW c \in Calls, Send(c) PROVE TypeOK'
BY NamedErrors DEF Send, Goto, TypeOK, Labels, callVars,
   limiterVars, breakerVars, metricVars

LEMMA BackoffOverType == ASSUME TypeOK, NEW c \in Calls, BackoffOver(c) PROVE TypeOK'
BY NamedErrors DEF BackoffOver, Goto, TypeOK, Labels, callVars,
   limiterVars, breakerVars, metricVars

LEMMA AdmitType == ASSUME TypeOK, NEW c \in Calls, Admit(c) PROVE TypeOK'
<1>1. CASE Policy(c) \in Limited
  <2> DEFINE p == Policy(c)
  <2>1. p \in Policies /\ tokens[p] \in Nat /\ tokens[p] > 0 /\ c \in Calls
    BY <1>1 DEF Limited, Admit, HasToken, TypeOK
  <2>2. /\ tokens' = [tokens EXCEPT ![p] = tokens[p] - 1]
        /\ served' = [served EXCEPT ![p] = served[p] \cup {c}]
    BY <1>1 DEF Admit
  <2> HIDE DEF p
  <2>3. tokens' \in [Policies -> Nat] /\ served' \in [Policies -> SUBSET Calls]
    BY <2>1, <2>2 DEF TypeOK
  <2>4. ASSUME NEW r \in Policies PROVE tokens'[r] <= Burst[r]
    <3>1. tokens[r] \in Nat /\ Burst[r] \in Nat /\ tokens[r] <= Burst[r]
      BY PolicyAssumption DEF TypeOK
    <3>2. tokens'[r] = tokens[r] \/ tokens'[r] = tokens[r] - 1
      BY <2>1, <2>2 DEF TypeOK
    <3>3. QED BY <3>1, <3>2
  <2>5. QED
    BY <2>3, <2>4 DEF Admit, Goto, TypeOK, Labels, breakerVars, metricVars
<1>2. CASE Policy(c) \notin Limited
  BY <1>2 DEF Admit, Goto, TypeOK, Labels, breakerVars, metricVars
<1>3. QED BY <1>1, <1>2

LEMMA ShedType == ASSUME TypeOK, NEW c \in Calls, Shed(c) PROVE TypeOK'
<1>1. err' \in [Calls -> Errors] /\ pc' \in [Calls -> Labels]
  BY NamedErrors DEF Shed, Leave, Goto, TypeOK, Labels
<1>2. rejections' \in Nat
  BY DEF Shed, TypeOK
<1>3. QED
  BY <1>1, <1>2 DEF Shed, TypeOK, limiterVars, breakerVars

LEMMA AbortType == ASSUME TypeOK, NEW c \in Calls, Abort(c) PROVE TypeOK'
<1>1. /\ breaker' \in [Policies -> {"closed", "open", "half_open"}]
      /\ window' \in [Policies -> [ok : Nat, bad : Nat]]
  BY CountTypes DEF Abort
<1>2. QED
  BY <1>1, NamedErrors DEF Abort, Leave, Goto, TypeOK, Labels, limiterVars,
                           metricVars

LEMMA ReplyType ==
  ASSUME TypeOK, NEW c \in Calls, NEW e \in Results, Reply(c, e)
  PROVE  TypeOK'
<1>1. /\ breaker' \in [Policies -> {"closed", "open", "half_open"}]
      /\ window' \in [Policies -> [ok : Nat, bad : Nat]]
  BY CountTypes DEF Reply
<1>2. e \in AttemptResults /\ e \in Errors
  BY BoundsAssumption DEF Errors
<1>3. results' \in [Calls -> Seq(AttemptResults)]
  <2>1. results[c] \in Seq(AttemptResults)
    BY DEF TypeOK
  <2>2. Append(results[c], e) \in Seq(AttemptResults)
    BY <1>2, <2>1
  <2>3. QED BY <2>2 DEF Reply, TypeOK
<1>4. pc' \in [Calls -> Labels] /\ err' \in [Calls -> Errors]
  BY <1>2 DEF Reply, Leave, Goto, TypeOK, Labels
<1>5. retries' \in Nat
  BY AfterAttemptType DEF Reply
<1>6. QED
  BY <1>1, <1>3, <1>4, <1>5 DEF Reply, TypeOK, limiterVars

LEMMA CutType ==
  ASSUME TypeOK, NEW c \in Calls, NEW e \in {Canceled, DeadlinePassed},
         Cut(c, e)
  PROVE  TypeOK'
<1>1. /\ breaker' \in [Policies -> {"closed", "open", "half_open"}]
      /\ window' \in [Policies -> [ok : Nat, bad : Nat]]
  BY CountTypes DEF Cut
<1>2. e \in Errors
  BY NamedErrors
<1>3. pc' \in [Calls -> Labels] /\ err' \in [Calls -> Errors]
  BY <1>2 DEF Cut, Leave, Goto, TypeOK, Labels
<1>4. QED
  BY <1>1, <1>3 DEF Cut, TypeOK, limiterVars, metricVars

LEMMA CutEarlyType ==
  ASSUME TypeOK, NEW c \in Calls, NEW e \in {Canceled, DeadlinePassed},
         CutEarly(c, e)
  PROVE  TypeOK'
<1>1. e \in Errors
  BY NamedErrors
<1>2. pc' \in [Calls -> Labels] /\ err' \in [Calls -> Errors]
  BY <1>1 DEF CutEarly, Leave, Goto, TypeOK, Labels
<1>3. QED
  BY <1>2 DEF CutEarly, TypeOK, limiterVars, breakerVars, metricVars

LEMMA ReturnType == ASSUME TypeOK, NEW c \in Calls, Return(c) PROVE TypeOK'
<1> DEFINE a == MapResilienceError(err[c])
<1> DEFINE o == OutcomeForError(a)
<1>1. a \in Answers /\ o \in Outcomes
  BY MappingTypes DEF TypeOK
<1>2. /\ answer' = [answer EXCEPT ![c] = a]
      /\ answer'[c] = a
  BY DEF Return, TypeOK
<1>3. /\ outcome' = [outcome EXCEPT ![c] = o]
      /\ outcome'[c] = o
  BY <1>2 DEF Return, TypeOK
<1>4. requests' = [requests EXCEPT ![o] = requests[o] + 1]
  BY <1>3 DEF Return
<1> HIDE DEF a, o
<1>5. requests' \in [Outcomes -> Nat]
  BY <1>1, <1>4 DEF TypeOK
<1>6. /\ answer' \in [Calls -> Answers]
      /\ outcome' \in [Calls -> Outcomes \cup {"none"}]
      /\ pc' \in [Calls -> Labels]
  BY <1>1, <1>2, <1>3 DEF Return, Goto, TypeOK, Labels
<1>7. QED
  BY <1>5, <1>6 DEF Return, TypeOK, limiterVars, breakerVars

LEMMA EnvironmentType == TypeOK /\ Environment => TypeOK'
<1> SUFFICES ASSUME TypeOK, Environment PROVE TypeOK'
  OBVIOUS
<1>1. ASSUME NEW b \in Backends, RefreshRoute(b) PROVE TypeOK'
  BY <1>1 DEF RefreshRoute, Refreshed, TypeOK, callVars, limiterVars,
              breakerVars, metricVars
<1>2. ASSUME NEW p \in Policies, Refill(p) PROVE TypeOK'
  <2>1. tokens[p] \in Nat /\ refills[p] \in Nat /\ Burst[p] \in Nat
    BY PolicyAssumption, BoundsAssumption DEF TypeOK
  <2>2. tokens' \in [Policies -> Nat] /\ refills' \in [Policies -> 0..MaxRefills]
    BY <1>2, <2>1, BoundsAssumption DEF Refill, TypeOK
  <2>3. \A r \in Policies : tokens'[r] <= Burst[r]
    BY <1>2, <2>1, PolicyAssumption DEF Refill, TypeOK
  <2>4. QED
    BY <1>2, <2>2, <2>3 DEF Refill, TypeOK, callVars, breakerVars, metricVars
<1>3. ASSUME NEW p \in Policies, ResetTimeout(p) PROVE TypeOK'
  BY <1>3 DEF ResetTimeout, TypeOK, callVars, limiterVars, metricVars
<1>4. ASSUME NEW p \in Policies, WindowSlides(p) PROVE TypeOK'
  <2>1. window[p].ok \in Nat /\ window[p].bad \in Nat
    BY DEF TypeOK
  <2>2. PICK ok \in 0..window[p].ok, bad \in 0..window[p].bad :
          window' = [window EXCEPT ![p] = [ok |-> ok, bad |-> bad]]
    BY <1>4 DEF WindowSlides
  <2>3. window' \in [Policies -> [ok : Nat, bad : Nat]]
    BY <2>1, <2>2 DEF TypeOK
  <2>4. QED
    BY <1>4, <2>3 DEF WindowSlides, TypeOK, callVars, limiterVars, metricVars
<1>5. ASSUME NEW c \in Calls, Tick(c) PROVE TypeOK'
  <2>1. left' \in [Calls -> {"none", "ample", "short", "expired"}]
    <3>1. left \in [Calls -> {"none", "ample", "short", "expired"}]
      BY DEF TypeOK
    <3>2. \/ left' = [left EXCEPT ![c] = "short"]
          \/ left' = [left EXCEPT ![c] = "expired"]
      BY <1>5 DEF Tick
    <3>3. QED BY <3>1, <3>2
  <2>2. QED
    BY <1>5, <2>1 DEF Tick, TypeOK, limiterVars, breakerVars, metricVars
<1>6. ASSUME NEW c \in Calls, GoAway(c) PROVE TypeOK'
  BY <1>6 DEF GoAway, TypeOK, limiterVars, breakerVars, metricVars
<1>7. QED
  BY <1>1, <1>2, <1>3, <1>4, <1>5, <1>6 DEF Environment

LEMMA TypeNext == TypeOK /\ [Next]_vars => TypeOK'
<1> SUFFICES ASSUME TypeOK, [Next]_vars PROVE TypeOK'
  OBVIOUS
<1>1. ASSUME NEW c \in Calls, Step(c) PROVE TypeOK'
  BY <1>1, FallThroughType, ArriveType, ResolveHitType, ResolveMissType,
     ListReplyType, ListFailType, AdmitType, ShedType, AbortType, RefuseType,
     SendType, ReplyType, BackoffOverType, CutType, CutEarlyType,
     ReturnType DEF Step
<1>2. CASE UNCHANGED vars
  BY <1>2 DEF TypeOK, vars, callVars, limiterVars, breakerVars, metricVars
<1>3. QED
  BY <1>1, <1>2, EnvironmentType DEF Next

(* Types hold in every reachable state; in particular no bucket is ever    *)
(* overdrawn or overfull, however the calls interleave.                    *)
THEOREM TypeCorrect == Spec => []TypeOK
BY TypeInit, TypeNext, PTL DEF Spec

-----------------------------------------------------------------------------
(* What the steps of one call do to the state the invariants speak of.     *)

Before  == {"idle", "resolve", "listing", "limiter"}
Running == {"attempt", "waiting", "backoff"}

(* Up to the limiter a call only moves: it runs nothing and pays nothing.  *)
LEMMA PreparingEffect ==
  ASSUME TypeOK, NEW c \in Calls,
         \/ FallThrough(c) \/ Arrive(c) \/ ResolveHit(c) \/ ResolveMiss(c)
         \/ ListReply(c) \/ ListFail(c) \/ Shed(c)
         \/ \E e \in {Canceled, DeadlinePassed} : CutEarly(c, e)
  PROVE  /\ pc[c] \in Before
         /\ \E l \in Before \cup {"return", "done"} : pc' = [pc EXCEPT ![c] = l]
         /\ UNCHANGED <<tool, left, results, tokens, refills, served>>
BY DEF FallThrough, Arrive, ResolveHit, ResolveMiss, ListReply, ListFail, Shed,
       CutEarly, Validate, Leave, Goto, limiterVars, Before

(* An attempt's result is kept, and only a retry goes on after it.         *)
Attempted(c, e) ==
  /\ pc[c] = "waiting" /\ pc'[c] /= "waiting"
  /\ e = DeadlinePassed => left[c] = "expired"
  /\ results' = [results EXCEPT ![c] = Append(@, e)]
  /\ pc'[c] \in Running => ShouldRetry(tool[c], Len(results[c]) + 1, e)

(* Inside resile.Do no token changes hands, and no request is sent once    *)
(* the deadline has passed.                                                *)
LEMMA RunningEffect ==
  ASSUME TypeOK, NEW c \in Calls,
         \/ Abort(c) \/ Refuse(c) \/ Send(c) \/ BackoffOver(c)
         \/ \E e \in Results : Reply(c, e)
         \/ \E e \in {Canceled, DeadlinePassed} : Cut(c, e)
  PROVE  /\ pc[c] \in Running
         /\ \E l \in Running \cup {"return"} : pc' = [pc EXCEPT ![c] = l]
         /\ UNCHANGED <<tool, left, tokens, refills, served>>
         /\ \/ UNCHANGED results /\ (pc'[c] = "waiting" => left[c] /= "expired")
            \/ \E e \in AttemptResults : Attempted(c, e)
<1>1. CASE Abort(c) \/ Refuse(c) \/ BackoffOver(c)
  BY <1>1 DEF Abort, Refuse, BackoffOver, Leave, Goto, limiterVars, Running,
     TypeOK
<1>2. CASE Send(c)
  BY <1>2 DEF Send, TooClose, Goto, limiterVars, Running, TypeOK
<1>3. ASSUME NEW e \in Results, Reply(c, e)
      PROVE  /\ pc[c] \in Running
             /\ \E l \in Running \cup {"return"} : pc' = [pc EXCEPT ![c] = l]
             /\ UNCHANGED <<tool, left, tokens, refills, served>>
             /\ Attempted(c, e) /\ e \in AttemptResults
  <2>1. /\ pc'[c] \in Running => ShouldRetry(tool[c], Len(results[c]) + 1, e)
        /\ pc'[c] /= "waiting"
    BY <1>3 DEF Reply, Leave, Goto, Running, TypeOK
  <2>2. e = DeadlinePassed => left[c] = "expired"
    BY <1>3 DEF Reply, ContextEnds, DeadlinePassed, Canceled, Plain
  <2>3. QED
    BY <1>3, <2>1, <2>2, BoundsAssumption
    DEF Reply, Leave, Goto, limiterVars, Running, Attempted
<1>4. ASSUME NEW e \in {Canceled, DeadlinePassed}, Cut(c, e)
      PROVE  /\ pc[c] \in Running
             /\ pc' = [pc EXCEPT ![c] = "return"] /\ pc'[c] = "return"
             /\ UNCHANGED <<tool, left, tokens, refills, served, results>>
  BY <1>4 DEF Cut, Leave, Goto, limiterVars, Running, TypeOK
<1>5. QED BY <1>1, <1>2, <1>3, <1>4

LEMMA EnvironmentEffect ==
  ASSUME TypeOK, Environment
  PROVE  /\ UNCHANGED <<pc, tool, results, served>>
         /\ \A c \in Calls : left[c] = "expired" => left'[c] = "expired"
<1>1. UNCHANGED <<pc, tool, results, served>>
  BY DEF Environment, RefreshRoute, Refill, ResetTimeout, WindowSlides, Tick,
         GoAway, callVars, limiterVars
<1>2. ASSUME NEW d \in Calls, Tick(d), NEW c \in Calls, left[c] = "expired"
      PROVE  left'[c] = "expired"
  BY <1>2 DEF Tick, TypeOK
<1>3. \/ UNCHANGED left
      \/ \E d \in Calls : Tick(d)
  BY DEF Environment, RefreshRoute, Refill, ResetTimeout, WindowSlides,
         GoAway, callVars
<1>4. QED BY <1>1, <1>2, <1>3

(* Every step of the system, sorted by its effect. *)
LEMMA Cases ==
  ASSUME [Next]_vars
  PROVE  \/ \E c \in Calls :
              \/ FallThrough(c) \/ Arrive(c) \/ ResolveHit(c) \/ ResolveMiss(c)
              \/ ListReply(c) \/ ListFail(c) \/ Shed(c)
              \/ \E e \in {Canceled, DeadlinePassed} : CutEarly(c, e)
         \/ \E c \in Calls : Admit(c)
         \/ \E c \in Calls :
              \/ Abort(c) \/ Refuse(c) \/ Send(c) \/ BackoffOver(c)
              \/ \E e \in Results : Reply(c, e)
              \/ \E e \in {Canceled, DeadlinePassed} : Cut(c, e)
         \/ \E c \in Calls : Return(c)
         \/ Environment
         \/ UNCHANGED vars
BY DEF Next, Step

-----------------------------------------------------------------------------
(* Retries. *)

(* Whoever still runs has attempts left, and behind it nothing but         *)
(* transient failures of the backend - or, unless it is waiting for one,   *)
(* its own deadline.                                                       *)
MayGoOn(c, e) ==
  \/ e \in Repeatable
  \/ pc[c] /= "waiting" /\ e = DeadlinePassed /\ left[c] = "expired"

RetryInv ==
  \A c \in Calls :
    /\ pc[c] \in Before => results[c] = <<>>
    /\ pc[c] \in Running =>
         /\ Len(results[c]) < AttemptsAllowed(tool[c])
         /\ \A i \in 1..Len(results[c]) : MayGoOn(c, results[c][i])
    /\ Len(results[c]) <= AttemptsAllowed(tool[c])
    /\ \A i \in 1..Len(results[c]) :
         i < Len(results[c]) => results[c][i] \in Repeatable

(* A transient error is repeatable, or the call's own deadline. *)
LEMMA TransientEnds ==
  /\ \A e \in AttemptResults :
       IsTransientError(e) <=> e \in Repeatable \/ e = DeadlinePassed
  /\ DeadlinePassed \notin Repeatable
BY DEF AttemptResults, OwnCodes, Repeatable, IsTransientError, Success,
       Panicked, Canceled, AppError, NetworkFailure, DeadlinePassed, Rejected,
       Plain, Wire, codeMethodNotFound, codeInvalidParams, codeRejected,
       codeRateLimitExceeded, codeCircuitOpen, codeExecutionTimeout,
       codeInternalError

LEMMA AllowedPositive ==
  ASSUME NEW t \in Tools PROVE AttemptsAllowed(t) \in Nat \ {0}
BY ToolsAssumption, PolicyAssumption DEF AttemptsAllowed

LEMMA RetryNext == TypeOK /\ RetryInv /\ [Next]_vars => RetryInv'
<1> SUFFICES ASSUME TypeOK, RetryInv, [Next]_vars PROVE RetryInv'
  OBVIOUS
<1> DEFINE Good(d) ==
      /\ pc[d] \in Before => results[d] = <<>>
      /\ pc[d] \in Running =>
           /\ Len(results[d]) < AttemptsAllowed(tool[d])
           /\ \A i \in 1..Len(results[d]) : MayGoOn(d, results[d][i])
      /\ Len(results[d]) <= AttemptsAllowed(tool[d])
      /\ \A i \in 1..Len(results[d]) :
           i < Len(results[d]) => results[d][i] \in Repeatable
<1>a. \A d \in Calls : Good(d)
  BY DEF RetryInv
<1>b. SUFFICES ASSUME NEW d \in Calls PROVE Good(d)'
  BY DEF RetryInv
<1>c. /\ pc[d] \in Labels /\ tool[d] \in Tools
      /\ results[d] \in Seq(AttemptResults)
  BY DEF TypeOK
<1>1. ASSUME NEW c \in Calls, NEW l \in Before \cup Running \cup {"return", "done"},
             pc' = [pc EXCEPT ![c] = l], UNCHANGED <<tool, left, results>>,
             \/ pc[c] \in Before /\ l \in Before \cup {"attempt", "return", "done"}
             \/ pc[c] \in Running /\ l \in Running \cup {"return"}
             \/ l = "done",
             pc[c] \in Running /\ l = "waiting" => left[c] /= "expired"
      PROVE  Good(d)'
  <2>1. pc'[d] = IF d = c THEN l ELSE pc[d]
    BY <1>1 DEF TypeOK
  <2>2. CASE pc[d] \in Before
    <3>1. results[d] = <<>> /\ Len(results[d]) = 0
      BY <2>2, <1>a
    <3>2. AttemptsAllowed(tool[d]) \in Nat \ {0}
      BY <1>c, AllowedPositive
    <3>3. QED
      BY <1>1, <3>1, <3>2
  <2>3. CASE pc[d] \notin Before
    <3>1. pc'[d] \notin Before
      BY <2>1, <2>3, <1>1 DEF Before, Running
    <3>2. pc'[d] \in Running => pc[d] \in Running
      BY <2>1, <2>3, <1>1 DEF Before, Running
    <3>3. ASSUME pc'[d] \in Running, NEW e, MayGoOn(d, e) PROVE MayGoOn(d, e)'
      BY <1>1, <2>1, <3>2, <3>3 DEF MayGoOn
    <3>4. QED
      BY <1>1, <1>a, <3>1, <3>2, <3>3
  <2>4. QED BY <2>2, <2>3
<1>2. ASSUME NEW c \in Calls, NEW e \in AttemptResults, Attempted(c, e),
             NEW l \in Running \cup {"return"}, pc' = [pc EXCEPT ![c] = l],
             UNCHANGED <<tool, left>>
      PROVE  Good(d)'
  <2>1. CASE d /= c
    BY <2>1, <1>2, <1>a DEF Attempted, TypeOK, MayGoOn
  <2>2. CASE d = c
    <3> DEFINE n == Len(results[c])
    <3>1. /\ results'[c] = Append(results[c], e)
          /\ results[c] \in Seq(AttemptResults) /\ n \in Nat
          /\ pc'[c] = l
      BY <1>2 DEF Attempted, TypeOK
    <3>2. /\ Len(results'[c]) = n + 1
          /\ \A i \in 1..n : results'[c][i] = results[c][i]
          /\ results'[c][n + 1] = e
      BY <3>1
    <3>3. /\ n < AttemptsAllowed(tool[c])
          /\ \A i \in 1..n : results[c][i] \in Repeatable
      BY <1>2, <1>a DEF Attempted, Running, MayGoOn
    <3>4. AttemptsAllowed(tool[c]) \in Nat
      BY AllowedPositive DEF TypeOK
    <3> DEFINE May(x) == \/ x \in Repeatable
                         \/ l /= "waiting" /\ x = DeadlinePassed /\ left[c] = "expired"
    <3>5. l \in Running => n + 1 < AttemptsAllowed(tool[c]) /\ May(e)
      BY <1>2, <3>1, TransientEnds DEF Attempted, ShouldRetry
    <3>6. l \notin Before
      BY DEF Before, Running
    <3>7. \A i \in 1..(n + 1) : i < n + 1 => results'[c][i] \in Repeatable
      BY <3>2, <3>3
    <3>8. l \in Running => \A i \in 1..(n + 1) : May(results'[c][i])
      <4>1. \A i \in 1..n : May(results'[c][i])
        BY <3>2, <3>3
      <4>2. \A i \in 1..(n + 1) : i \in 1..n \/ i = n + 1
        BY <3>1
      <4>3. l \in Running => May(results'[c][n + 1])
        BY <3>2, <3>5
      <4> HIDE DEF May
      <4>4. QED BY <4>1, <4>2, <4>3
    <3> HIDE DEF n
    <3>9. QED
      BY <2>2, <1>2, <3>1, <3>2, <3>3, <3>4, <3>5, <3>6, <3>7, <3>8 DEF MayGoOn
  <2>3. QED BY <2>1, <2>2
<1>3. ASSUME UNCHANGED <<pc, tool, results>>,
             left[d] = "expired" => left'[d] = "expired"
      PROVE  Good(d)'
  BY <1>3, <1>a DEF MayGoOn
<1> HIDE DEF Good
<1>4. ASSUME NEW c \in Calls, Admit(c) PROVE Good(d)'
  BY <1>4, <1>1 DEF Admit, Goto, Before, Running
<1>5. ASSUME NEW c \in Calls, Return(c) PROVE Good(d)'
  BY <1>5, <1>1 DEF Return, Goto
<1>6. ASSUME NEW c \in Calls,
             \/ FallThrough(c) \/ Arrive(c) \/ ResolveHit(c) \/ ResolveMiss(c)
             \/ ListReply(c) \/ ListFail(c) \/ Shed(c)
             \/ \E e \in {Canceled, DeadlinePassed} : CutEarly(c, e)
      PROVE  Good(d)'
  <2>1. pc[c] \notin Running
    BY <1>6, PreparingEffect DEF Before, Running
  <2>2. QED BY <1>6, <1>1, <2>1, PreparingEffect
<1>7. ASSUME NEW c \in Calls,
             \/ Abort(c) \/ Refuse(c) \/ Send(c) \/ BackoffOver(c)
             \/ \E e \in Results : Reply(c, e)
             \/ \E e \in {Canceled, DeadlinePassed} : Cut(c, e)
      PROVE  Good(d)'
  <2>1. PICK l \in Running \cup {"return"} : pc' = [pc EXCEPT ![c] = l]
    BY <1>7, RunningEffect
  <2>2. pc'[c] = l
    BY <2>1 DEF TypeOK
  <2>3. QED BY <1>7, <1>1, <1>2, <2>1, <2>2, RunningEffect
<1>8. CASE Environment
  BY <1>3, <1>8, EnvironmentEffect
<1>9. CASE UNCHANGED vars
  BY <1>3, <1>9 DEF vars, callVars
<1>10. QED BY Cases, <1>4, <1>5, <1>6, <1>7, <1>8, <1>9

LEMMA RetryInit == Init => RetryInv
<1> SUFFICES ASSUME Init, NEW c \in Calls
    PROVE  results[c] = <<>> /\ Len(results[c]) = 0 /\ tool[c] \in Tools
           /\ pc[c] = "idle"
  BY AllowedPositive DEF RetryInv, Before, Running
<1>1. QED BY DEF Init

(* However calls interleave, no call runs its tool more often than its     *)
(* policy's max_attempts allows, or again after anything but a transient   *)
(* failure of the backend - its own deadline included.                     *)
THEOREM RetriesDisciplined == Spec => []AttemptDiscipline
<1>1. TypeOK /\ RetryInv => AttemptDiscipline
  <2> SUFFICES ASSUME TypeOK, RetryInv, NEW c \in Calls
      PROVE  /\ Attempts(c) <= AttemptsAllowed(tool[c])
             /\ \A i \in 1..Len(results[c]) :
                  i < Attempts(c) => results[c][i] \in Repeatable
    BY DEF AttemptDiscipline
  <2>1. AttemptsAllowed(tool[c]) \in Nat /\ Len(results[c]) \in Nat
    BY AllowedPositive DEF TypeOK
  <2>2. CASE pc[c] = "waiting"
    <3>1. /\ pc[c] \in Running /\ Attempts(c) = Len(results[c]) + 1
      BY <2>2 DEF Running, Attempts
    <3>2. QED BY <2>1, <2>2, <3>1 DEF RetryInv, MayGoOn
  <2>3. CASE pc[c] /= "waiting"
    <3>1. Attempts(c) = Len(results[c])
      BY <2>1, <2>3 DEF Attempts
    <3>2. QED BY <2>1, <3>1 DEF RetryInv
  <2>4. QED BY <2>2, <2>3
<1>2. QED
  BY <1>1, TypeInit, TypeNext, RetryInit, RetryNext, PTL DEF Spec

(* A step of a call's own takes it to a later stage of the same attempt,   *)
(* or ends the attempt.                                                    *)
LEMMA StageEffect ==
  ASSUME TypeOK, NEW c \in Calls, Step(c)
  PROVE  /\ UNCHANGED tool
         /\ \A d \in Calls : d /= c => pc'[d] = pc[d] /\ results'[d] = results[d]
         /\ \/ /\ UNCHANGED results
               /\ Stage[pc'[c]] < Stage[pc[c]]
            \/ /\ pc[c] = "waiting" /\ pc'[c] \in {"backoff", "return"}
               /\ \E e \in AttemptResults :
                    results' = [results EXCEPT ![c] = Append(@, e)]
<1> DEFINE Goal ==
      /\ UNCHANGED tool
      /\ \A d \in Calls : d /= c => pc'[d] = pc[d] /\ results'[d] = results[d]
      /\ \/ /\ UNCHANGED results
            /\ Stage[pc'[c]] < Stage[pc[c]]
         \/ /\ pc[c] = "waiting" /\ pc'[c] \in {"backoff", "return"}
            /\ \E e \in AttemptResults :
                 results' = [results EXCEPT ![c] = Append(@, e)]
<1>a. \A k, l \in Labels : Stage[k] < Stage[l] <=>
        \/ l = "idle" /\ k /= "idle"
        \/ l = "resolve" /\ k \notin {"idle", "resolve"}
        \/ l = "listing" /\ k \notin {"idle", "resolve", "listing"}
        \/ l \in {"limiter", "backoff"} /\ k \in {"attempt", "waiting", "return", "done"}
        \/ l = "attempt" /\ k \in {"waiting", "return", "done"}
        \/ l = "waiting" /\ k \in {"return", "done"}
        \/ l = "return" /\ k = "done"
  BY DEF Labels, Stage
<1>1. ASSUME NEW l \in Labels, pc' = [pc EXCEPT ![c] = l],
             UNCHANGED <<tool, results>>, Stage[l] < Stage[pc[c]]
      PROVE  Goal
  BY <1>1 DEF TypeOK
<1>2. ASSUME FallThrough(c) \/ Arrive(c) \/ ResolveMiss(c) \/ ListFail(c)
             \/ Shed(c) \/ Admit(c)
      PROVE  Goal
  BY <1>2, <1>1, <1>a DEF FallThrough, Arrive, ResolveMiss, ListFail, Shed,
     Admit, Leave, Goto, Labels
<1>3. ASSUME ResolveHit(c) \/ ListReply(c) PROVE Goal
  BY <1>3, <1>1, <1>a DEF ResolveHit, ListReply, Validate, Leave, Goto, Labels
<1>4. ASSUME Abort(c) \/ Refuse(c) \/ Send(c) \/ BackoffOver(c) \/ Return(c)
      PROVE  Goal
  BY <1>4, <1>1, <1>a DEF Abort, Refuse, Send, BackoffOver, Return, Leave, Goto,
     Labels
<1>5. ASSUME NEW e \in {Canceled, DeadlinePassed}, Cut(c, e) \/ CutEarly(c, e)
      PROVE  Goal
  BY <1>5, <1>1, <1>a DEF Cut, CutEarly, Leave, Goto, Labels
<1>6. ASSUME NEW e \in Results, Reply(c, e) PROVE Goal
  <2>1. e \in AttemptResults
    BY BoundsAssumption
  <2>2. /\ pc[c] = "waiting" /\ UNCHANGED tool
        /\ results' = [results EXCEPT ![c] = Append(@, e)]
        /\ pc' = [pc EXCEPT ![c] = "backoff"] \/ pc' = [pc EXCEPT ![c] = "return"]
    BY <1>6 DEF Reply, Leave, Goto
  <2>3. QED BY <2>1, <2>2 DEF TypeOK
<1> HIDE DEF Goal
<1>7. Goal
  BY <1>2, <1>3, <1>4, <1>5, <1>6 DEF Step
<1>8. QED BY <1>7 DEF Goal

LEMMA StageType == \A l \in Labels : Stage[l] \in Nat
BY DEF Labels, Stage

(* Whatever else happens meanwhile, a call takes at most as many steps as  *)
(* its policy's attempts are worth.                                        *)
THEOREM CallsWindDown == Spec => StepsRunOut
<1> DEFINE Burns(c) ==
      /\ Step(c) => Fuel(c)' < Fuel(c)
      /\ Fuel(c)' \in 0..Fuel(c)
<1>1. ASSUME TypeOK, TypeOK', RetryInv, RetryInv', [Next]_vars, NEW c \in Calls,
             ~UNCHANGED vars
      PROVE  Burns(c)
  <2>1. /\ pc[c] \in Labels /\ pc'[c] \in Labels
        /\ Len(results[c]) \in Nat /\ Len(results'[c]) \in Nat
        /\ tool[c] \in Tools /\ tool'[c] \in Tools
        /\ Len(results[c]) <= AttemptsAllowed(tool[c])
        /\ Len(results'[c]) <= AttemptsAllowed(tool'[c])
    <3>1. /\ Len(results[c]) <= AttemptsAllowed(tool[c])
          /\ Len(results'[c]) <= AttemptsAllowed(tool'[c])
      BY <1>1 DEF RetryInv, AttemptsAllowed
    <3>2. QED BY <1>1, <3>1 DEF TypeOK
  <2>a. Fuel(c) \in Nat /\ Fuel(c)' \in Nat
    <3>1. AttemptsAllowed(tool[c]) \in Nat /\ AttemptsAllowed(tool'[c]) \in Nat
      BY <2>1, AllowedPositive
    <3>2. /\ Fuel(c) = Stage[pc[c]] + 3 * (AttemptsAllowed(tool[c]) - Len(results[c]))
          /\ Fuel(c)' = Stage[pc'[c]] + 3 * (AttemptsAllowed(tool'[c]) - Len(results'[c]))
      BY DEF Fuel, AttemptsAllowed
    <3>3. Stage[pc[c]] \in Nat /\ Stage[pc'[c]] \in Nat
      BY <2>1, StageType
    <3>4. \A k, m, n \in Nat : n <= m => k + 3 * (m - n) \in Nat
      OBVIOUS
    <3>5. Fuel(c) \in Nat
      BY <2>1, <3>1, <3>2, <3>3, <3>4
    <3>6. Fuel(c)' \in Nat
      BY <2>1, <3>1, <3>2, <3>3, <3>4
    <3>7. QED BY <3>5, <3>6
  <2>2. ASSUME Step(c) PROVE Fuel(c)' < Fuel(c)
    <3> DEFINE n == Len(results[c])
               m == AttemptsAllowed(tool[c])
    <3>1. /\ n \in Nat /\ m \in Nat
          /\ Stage[pc[c]] \in Nat /\ Stage[pc'[c]] \in Nat
      BY <2>1, StageType, AllowedPositive
    <3>2. /\ Fuel(c) = Stage[pc[c]] + 3 * (m - n)
          /\ Fuel(c)' = Stage[pc'[c]] + 3 * (m - Len(results'[c]))
      BY <1>1, <2>2, StageEffect DEF Fuel, AttemptsAllowed
    <3>3. CASE UNCHANGED results /\ Stage[pc'[c]] < Stage[pc[c]]
      BY <3>1, <3>2, <3>3
    <3>4. ASSUME pc[c] = "waiting", pc'[c] \in {"backoff", "return"},
                 NEW e \in AttemptResults,
                 results' = [results EXCEPT ![c] = Append(@, e)]
          PROVE  Fuel(c)' < Fuel(c)
      <4>1. Len(results'[c]) = n + 1
        <5>1. results'[c] = Append(results[c], e) /\ results[c] \in Seq(AttemptResults)
          BY <1>1, <3>4 DEF TypeOK
        <5>2. QED BY <5>1
      <4>2. Stage[pc[c]] = 3 /\ Stage[pc'[c]] \in {1, 5}
        BY <3>4 DEF Stage
      <4>3. QED BY <3>1, <3>2, <4>1, <4>2
    <3>5. QED BY <1>1, <2>2, <3>3, <3>4, StageEffect
  <2>3. ASSUME ~Step(c) PROVE Fuel(c)' = Fuel(c)
    <3>1. UNCHANGED tool /\ pc'[c] = pc[c] /\ results'[c] = results[c]
      <4>1. ASSUME NEW d \in Calls, Step(d)
            PROVE  UNCHANGED tool /\ pc'[c] = pc[c] /\ results'[c] = results[c]
        BY <1>1, <2>3, <4>1, StageEffect
      <4>2. CASE Environment
        BY <1>1, <4>2, EnvironmentEffect
      <4>3. QED BY <1>1, <4>1, <4>2 DEF Next
    <3>2. QED BY <3>1 DEF Fuel, AttemptsAllowed
  <2>4. Fuel(c)' <= Fuel(c)
    BY <2>a, <2>2, <2>3
  <2>5. QED BY <2>a, <2>2, <2>4
<1>2. TypeOK /\ TypeOK' /\ RetryInv /\ RetryInv' /\ [Next]_vars
        => [\A c \in Calls : Burns(c)]_vars
  <2> HIDE DEF Burns
  <2> QED BY <1>1
<1>3. Spec => [](TypeOK /\ RetryInv)
  BY TypeInit, TypeNext, RetryInit, RetryNext, PTL DEF Spec
<1>4. QED BY <1>2, <1>3, PTL DEF Spec, StepsRunOut

-----------------------------------------------------------------------------
(* The limiter. *)

(* Nobody has paid before the limiter, everybody limited has after it, and *)
(* only with a token of its own policy.                                    *)
PaidInv ==
  \A c \in Calls :
    /\ pc[c] \in Before => \A p \in Policies : c \notin served[p]
    /\ pc[c] \in Running \/ results[c] /= <<>> =>
         (Policy(c) \in Limited => c \in served[Policy(c)])
    /\ \A p \in Policies : c \in served[p] => p = Policy(c)

Conserved ==
  \A p \in Policies :
    Cardinality(served[p]) + tokens[p] = Burst[p] + refills[p]

LEMMA PaidNext ==
  TypeOK /\ RetryInv /\ PaidInv /\ [Next]_vars => PaidInv'
<1> SUFFICES ASSUME TypeOK, RetryInv, PaidInv, [Next]_vars PROVE PaidInv'
  OBVIOUS
<1>1. ASSUME NEW c \in Calls,
             NEW l \in Before \cup Running \cup {"return", "done"},
             pc' = [pc EXCEPT ![c] = l], UNCHANGED <<tool, served>>,
             UNCHANGED results \/ \E e \in AttemptResults : Attempted(c, e),
             \/ pc[c] \in Before /\ l \in Before \cup {"return", "done"}
             \/ pc[c] \in Running /\ l \in Running \cup {"return"}
             \/ l = "done"
      PROVE  PaidInv'
  <2>1. ASSUME NEW d \in Calls, d /= c
        PROVE  pc'[d] = pc[d] /\ results'[d] = results[d]
    BY <1>1, <2>1 DEF Attempted, TypeOK
  <2>2. /\ pc'[c] = l
        /\ pc[c] \in Running \/ results'[c] = results[c]
    BY <1>1 DEF Attempted, Running, TypeOK
  <2>3. Policy(c)' = Policy(c) /\ \A d \in Calls : Policy(d)' = Policy(d)
    BY <1>1 DEF Policy
  <2>4. QED
    BY <1>1, <2>1, <2>2, <2>3 DEF PaidInv, Before, Running
<1>2. ASSUME NEW c \in Calls, Admit(c) PROVE PaidInv'
  <2>1. /\ \A d \in Calls : d /= c => pc'[d] = pc[d]
        /\ pc[c] = "limiter" /\ pc'[c] = "attempt"
        /\ UNCHANGED <<tool, results>>
    BY <1>2 DEF Admit, Goto, TypeOK
  <2>2. \A d \in Calls : Policy(d)' = Policy(d)
    BY <2>1 DEF Policy
  <2>3. results[c] = <<>> /\ \A p \in Policies : c \notin served[p]
    BY <2>1 DEF RetryInv, PaidInv, Before
  <2>4. /\ \A p \in Policies :
             \/ served'[p] = served[p]
             \/ p = Policy(c) /\ served'[p] = served[p] \cup {c}
        /\ Policy(c) \in Limited => c \in served'[Policy(c)]
    <3> DEFINE r == Policy(c)
    <3>1. \/ r \in Policies /\ served' = [served EXCEPT ![r] = @ \cup {c}]
          \/ r \notin Limited /\ served' = served
      BY <1>2 DEF Admit, Limited
    <3> HIDE DEF r
    <3>2. /\ \A p \in Policies :
               \/ served'[p] = served[p]
               \/ p = r /\ served'[p] = served[p] \cup {c}
          /\ r \in Limited => c \in served'[r]
      BY <3>1 DEF TypeOK
    <3>3. QED BY <3>2 DEF r
  <2>5. \A d \in Calls : Policy(d) \in Limited => Policy(d) \in Policies
    BY DEF Limited
  <2>6. QED
    BY <2>1, <2>2, <2>3, <2>4, <2>5 DEF PaidInv, Before, Running
<1>3. ASSUME UNCHANGED <<pc, tool, results, served>> PROVE PaidInv'
  BY <1>3 DEF PaidInv, Policy
<1>4. ASSUME NEW c \in Calls, Return(c) PROVE PaidInv'
  BY <1>4, <1>1 DEF Return, Goto, limiterVars
<1>5. QED
  BY Cases, PreparingEffect, RunningEffect, EnvironmentEffect, <1>1, <1>2,
     <1>3, <1>4 DEF vars, callVars, limiterVars

LEMMA ServedFinite ==
  ASSUME TypeOK, NEW p \in Policies
  PROVE  IsFiniteSet(served[p]) /\ Cardinality(served[p]) \in Nat
BY ToolsAssumption, FS_Subset, FS_CardinalityType DEF TypeOK

LEMMA ConservedNext ==
  TypeOK /\ PaidInv /\ Conserved /\ [Next]_vars => Conserved'
<1> SUFFICES ASSUME TypeOK, PaidInv, Conserved, [Next]_vars, NEW p \in Policies
    PROVE  Cardinality(served'[p]) + tokens'[p] = Burst[p] + refills'[p]
  BY DEF Conserved
<1>a. /\ tokens[p] \in Nat /\ refills[p] \in Nat /\ Burst[p] \in Nat
      /\ Cardinality(served[p]) + tokens[p] = Burst[p] + refills[p]
  BY PolicyAssumption, BoundsAssumption DEF TypeOK, Conserved
<1>1. ASSUME UNCHANGED <<tokens, refills, served>>
      PROVE  Cardinality(served'[p]) + tokens'[p] = Burst[p] + refills'[p]
  BY <1>1, <1>a
<1>2. ASSUME NEW c \in Calls, Admit(c)
      PROVE  Cardinality(served'[p]) + tokens'[p] = Burst[p] + refills'[p]
  <2>1. CASE Policy(c) = p /\ p \in Limited
    <3>1. /\ served'[p] = served[p] \cup {c} /\ c \notin served[p]
          /\ tokens'[p] = tokens[p] - 1 /\ refills'[p] = refills[p]
      BY <1>2, <2>1 DEF Admit, PaidInv, Before, TypeOK
    <3>2. Cardinality(served'[p]) = Cardinality(served[p]) + 1
      BY <3>1, ServedFinite, FS_AddElement
    <3>3. QED BY <1>a, <3>1, <3>2, ServedFinite
  <2>2. CASE ~(Policy(c) = p /\ p \in Limited)
    <3>1. /\ served'[p] = served[p] /\ tokens'[p] = tokens[p]
          /\ refills'[p] = refills[p]
      BY <1>2, <2>2 DEF Admit, TypeOK
    <3>2. QED BY <1>a, <3>1
  <2>3. QED BY <2>1, <2>2
<1>3. ASSUME NEW r \in Policies, Refill(r)
      PROVE  Cardinality(served'[p]) + tokens'[p] = Burst[p] + refills'[p]
  <2>1. /\ served' = served
        /\ \/ tokens'[p] = tokens[p] /\ refills'[p] = refills[p]
           \/ tokens'[p] = tokens[p] + 1 /\ refills'[p] = refills[p] + 1
    BY <1>3 DEF Refill, TypeOK
  <2>2. QED BY <1>a, <2>1, ServedFinite
<1>4. ASSUME Environment, \A r \in Policies : ~Refill(r)
      PROVE  UNCHANGED <<tokens, refills, served>>
  BY <1>4 DEF Environment, RefreshRoute, ResetTimeout, WindowSlides, Tick, GoAway,
              limiterVars
<1>5. ASSUME NEW c \in Calls, Return(c) PROVE UNCHANGED <<tokens, refills, served>>
  BY <1>5 DEF Return, limiterVars
<1>6. QED
  BY Cases, PreparingEffect, RunningEffect, <1>1, <1>2, <1>3, <1>4, <1>5
  DEF vars, limiterVars

LEMMA LimiterInit == Init => PaidInv /\ Conserved
<1> SUFFICES ASSUME Init PROVE PaidInv /\ Conserved
  OBVIOUS
<1>1. PaidInv
  BY DEF Init, PaidInv, Running
<1>2. ASSUME NEW p \in Policies
      PROVE  Cardinality(served[p]) + tokens[p] = Burst[p] + refills[p]
  <2>1. served[p] = {} /\ tokens[p] = Burst[p] /\ refills[p] = 0
    BY DEF Init
  <2>2. Burst[p] \in Nat
    BY PolicyAssumption
  <2>3. QED BY <2>1, <2>2, FS_EmptySet
<1>3. QED BY <1>1, <1>2 DEF Conserved

(* A rate_limit lets exactly burst plus refills calls through, counts a    *)
(* call once however often it is retried, and nothing governed by it gets  *)
(* to a backend without a token, for any number of concurrent calls.       *)
THEOREM RateIsConserved == Spec => []RateConservation
<1>1. TypeOK /\ PaidInv /\ Conserved => RateConservation
  <2> SUFFICES ASSUME TypeOK, PaidInv, Conserved PROVE RateConservation
    OBVIOUS
  <2>1. ASSUME NEW c \in Calls, Attempts(c) > 0
        PROVE  pc[c] \in Running \/ results[c] /= <<>>
    <3>1. CASE pc[c] = "waiting"
      BY <3>1 DEF Running
    <3>2. CASE pc[c] /= "waiting"
      <4>1. Len(results[c]) \in Nat /\ Attempts(c) = Len(results[c])
        BY <3>2 DEF Attempts, TypeOK
      <4>2. Len(results[c]) /= 0
        BY <2>1, <4>1
      <4>3. QED BY <4>2
    <3>3. QED BY <3>1, <3>2
  <2>2. QED BY <2>1 DEF RateConservation, PaidInv, Conserved
<1>2. QED
  BY <1>1, TypeInit, TypeNext, RetryInit, RetryNext, LimiterInit, PaidNext,
     ConservedNext, PTL DEF Spec

-----------------------------------------------------------------------------
(* The argument firewall. *)

(* FirewallHolds for one call. *)
Screened(c) ==
  /\ ~valid[c] /\ tool[c] \in HasSchema /\ lookup[c] /= "failed" =>
       /\ results[c] = <<>>
       /\ \A p \in Policies : c \notin served[p]
       /\ pc[c] \in {"idle", "resolve", "listing", "return", "done"}
  /\ err[c] = InvalidParams /\ results[c] = <<>> =>
       ~valid[c] /\ tool[c] \in HasSchema

(* The gateway's own errors are not -32602. *)
LEMMA OnlyValidationIsInvalidParams ==
  InvalidParams \notin {Success, RateLimited, CircuitOpen, DeadlinePassed,
                        Canceled}
BY DEF InvalidParams, Success, RateLimited, CircuitOpen, DeadlinePassed,
       Canceled, Plain, Wire

(* A step of one call leaves what the firewall says of the others alone.   *)
LEMMA OthersKeep ==
  ASSUME TypeOK, NEW c \in Calls, NEW d \in Calls, d /= c, Step(c)
  PROVE  /\ pc'[d] = pc[d] /\ results'[d] = results[d] /\ err'[d] = err[d]
         /\ lookup'[d] = lookup[d]
         /\ UNCHANGED <<tool, valid>>
         /\ \A p \in Policies : d \in served'[p] => d \in served[p]
<1>1. ASSUME \/ FallThrough(c) \/ Arrive(c) \/ ResolveHit(c) \/ ResolveMiss(c)
             \/ ListReply(c) \/ ListFail(c)
      PROVE  /\ pc'[d] = pc[d] /\ results'[d] = results[d] /\ err'[d] = err[d]
             /\ lookup'[d] = lookup[d]
             /\ UNCHANGED <<tool, valid, served>>
  BY <1>1 DEF FallThrough, Arrive, ResolveHit, ResolveMiss, ListReply,
              ListFail, Validate, Leave, Goto, limiterVars, TypeOK
<1>2. ASSUME \/ Shed(c) \/ Abort(c) \/ Refuse(c) \/ Send(c) \/ BackoffOver(c)
             \/ \E e \in Results : Reply(c, e)
             \/ \E e \in {Canceled, DeadlinePassed} : Cut(c, e) \/ CutEarly(c, e)
             \/ Return(c)
      PROVE  /\ pc'[d] = pc[d] /\ results'[d] = results[d] /\ err'[d] = err[d]
             /\ lookup'[d] = lookup[d]
             /\ UNCHANGED <<tool, valid, served>>
  BY <1>2 DEF Shed, Abort, Refuse, Send, BackoffOver, Reply, Cut,
              CutEarly, Return, Leave, Goto, limiterVars, TypeOK
<1>3. ASSUME Admit(c)
      PROVE  /\ pc'[d] = pc[d] /\ results'[d] = results[d] /\ err'[d] = err[d]
             /\ lookup'[d] = lookup[d]
             /\ UNCHANGED <<tool, valid>>
             /\ \A p \in Policies : d \in served'[p] => d \in served[p]
  <2> DEFINE r == Policy(c)
  <2>1. \/ served' = [served EXCEPT ![r] = @ \cup {c}]
        \/ served' = served
    BY <1>3 DEF Admit
  <2> HIDE DEF r
  <2>2. ASSUME NEW p \in Policies, d \in served'[p] PROVE d \in served[p]
    <3>1. \/ served'[p] = served[p]
          \/ served'[p] = served[p] \cup {c}
      BY <2>1 DEF TypeOK
    <3>2. QED BY <2>2, <3>1
  <2>3. QED BY <1>3, <2>2 DEF Admit, Goto, TypeOK
<1>4. QED BY <1>1, <1>2, <1>3 DEF Step

(* The call that steps stays behind the firewall too. *)
LEMMA SelfScreened ==
  ASSUME TypeOK, RetryInv, PaidInv, NEW c \in Calls, Screened(c), Step(c)
  PROVE  Screened(c)'
<1>a. pc[c] \in Before =>
        results[c] = <<>> /\ \A p \in Policies : c \notin served[p]
  BY DEF RetryInv, PaidInv
<1>1. ASSUME \/ FallThrough(c) \/ Arrive(c) \/ ResolveMiss(c) \/ ListFail(c)
             \/ Return(c)
      PROVE  Screened(c)'
  BY <1>1, <1>a DEF FallThrough, Arrive, ResolveMiss, ListFail, Return, Goto,
     limiterVars, Screened, TypeOK, Before
<1>2. CASE ResolveHit(c)
  <2>1. tool[c] \in HasSchema
    BY <1>2 DEF ResolveHit, TypeOK
  <2>2. QED
    BY <1>2, <1>a, <2>1 DEF ResolveHit, Validate, Leave, Goto, limiterVars,
       Screened, TypeOK, Before
<1>3. CASE ListReply(c)
  <2>1. tool[c] \in cached' <=> tool[c] \in HasSchema
    BY <1>3 DEF ListReply, Refreshed, TypeOK
  <2>2. QED
    BY <1>3, <1>a, <2>1 DEF ListReply, Validate, Leave, Goto, limiterVars,
       Screened, TypeOK, Before
<1>4. CASE Shed(c)
  BY <1>4, OnlyValidationIsInvalidParams
  DEF Shed, Leave, Goto, limiterVars, Screened, TypeOK
<1>5. ASSUME \/ Admit(c) \/ Send(c) \/ BackoffOver(c) PROVE Screened(c)'
  BY <1>5 DEF Admit, Send, BackoffOver, Goto, limiterVars, Screened, TypeOK
<1>6. ASSUME \/ Abort(c) \/ Refuse(c)
             \/ \E e \in {Canceled, DeadlinePassed} : Cut(c, e) \/ CutEarly(c, e)
      PROVE  Screened(c)'
  BY <1>6, OnlyValidationIsInvalidParams
  DEF Abort, Refuse, Cut, CutEarly, Leave, Goto, limiterVars, Screened, TypeOK
<1>7. ASSUME NEW e \in Results, Reply(c, e) PROVE Screened(c)'
  <2>1. results'[c] = Append(results[c], e) /\ results[c] \in Seq(AttemptResults)
    BY <1>7 DEF Reply, TypeOK
  <2>2. results'[c] /= <<>>
    BY <2>1, BoundsAssumption
  <2>3. pc[c] = "waiting" /\ UNCHANGED <<tool, valid, lookup, served>>
    BY <1>7 DEF Reply, limiterVars
  <2>4. QED BY <2>2, <2>3 DEF Screened
<1>8. QED
  BY <1>1, <1>2, <1>3, <1>4, <1>5, <1>6, <1>7 DEF Step

LEMMA FirewallNext ==
  TypeOK /\ RetryInv /\ PaidInv /\ FirewallHolds /\ [Next]_vars
    => FirewallHolds'
<1> SUFFICES ASSUME TypeOK, RetryInv, PaidInv, FirewallHolds, [Next]_vars,
                    NEW d \in Calls
    PROVE  Screened(d)'
  BY DEF FirewallHolds, Screened
<1>a. Screened(d)
  BY DEF FirewallHolds, Screened
<1>1. ASSUME NEW c \in Calls, Step(c) PROVE Screened(d)'
  <2>1. CASE d = c
    BY <1>1, <1>a, <2>1, SelfScreened
  <2>2. CASE d /= c
    BY <1>1, <1>a, <2>2, OthersKeep DEF Screened
  <2>3. QED BY <2>1, <2>2
<1>2. CASE Environment
  <2>1. UNCHANGED <<pc, tool, valid, lookup, results, err, served>>
    BY <1>2 DEF Environment, RefreshRoute, Refill, ResetTimeout,
       WindowSlides, Tick, GoAway, callVars, limiterVars
  <2>2. QED BY <1>a, <2>1 DEF Screened
<1>3. CASE UNCHANGED vars
  BY <1>a, <1>3 DEF Screened, vars, callVars, limiterVars
<1>4. QED BY <1>1, <1>2, <1>3 DEF Next

LEMMA FirewallInit == Init => FirewallHolds
BY OnlyValidationIsInvalidParams DEF Init, FirewallHolds

(* Arguments that violate the advertised schema are charged to no limiter  *)
(* and reach no backend unless the schema itself could not be fetched,     *)
(* whatever other calls and listings do to the shared cache meanwhile.     *)
THEOREM FirewallIsSound == Spec => []FirewallHolds
BY TypeInit, TypeNext, RetryInit, RetryNext, LimiterInit, PaidNext,
   FirewallInit, FirewallNext, PTL DEF Spec
=============================================================================
