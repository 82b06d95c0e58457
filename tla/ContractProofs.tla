--------------------------- MODULE ContractProofs ---------------------------
(***************************************************************************)
(* Dispatch implements CallContract: its initial states map to initial     *)
(* states, each of its steps to a step of the contract or to a stutter.    *)
(***************************************************************************)
EXTENDS DispatchProofs

(* What the latest attempt of a call ended with. *)
Latest(c) == results[c][Len(results[c])]

(* Where the error of a returning call comes from: without an attempt it   *)
(* is the gateway's own or the context's; after one it is what the latest  *)
(* attempt ended with - a failure that could be retried only if there is   *)
(* no attempt left - or what ended the call between two of them.           *)
Excused(c) ==
  \/ /\ results[c] = <<>>
     /\ err[c] \in {InvalidParams, RateLimited, DeadlinePassed, CircuitOpen,
                    Canceled}
  \/ /\ results[c] /= <<>> /\ IsTransientError(Latest(c))
     /\ err[c] \in {DeadlinePassed, CircuitOpen, Canceled}
  \/ /\ results[c] /= <<>> /\ err[c] = Latest(c)
     /\ Latest(c) \in Repeatable => Len(results[c]) = AttemptsAllowed(tool[c])

(* Only routed calls get anywhere. *)
Caused(c) ==
  /\ pc[c] \notin {"idle", "done"} => Routed(tool[c])
  /\ pc[c] = "return" => Excused(c)

CauseInv == \A c \in Calls : Caused(c)

(* Between two attempts the latest was transient. *)
LEMMA LatestTransient ==
  ASSUME TypeOK, RetryInv, NEW c \in Calls, pc[c] \in Running, results[c] /= <<>>
  PROVE  IsTransientError(Latest(c))
<1>1. results[c] \in Seq(AttemptResults) /\ results[c] /= <<>>
  BY DEF TypeOK
<1>2. Len(results[c]) \in 1..Len(results[c]) /\ Latest(c) \in AttemptResults
  BY <1>1 DEF Latest
<1>3. MayGoOn(c, Latest(c))
  BY <1>2 DEF RetryInv, Latest
<1>4. QED BY <1>2, <1>3, TransientEnds DEF MayGoOn

LEMMA CauseInit == Init => CauseInv
BY DEF Init, CauseInv, Caused

LEMMA SelfCaused ==
  ASSUME TypeOK, RetryInv, NEW c \in Calls, Caused(c), Step(c)
  PROVE  Caused(c)'
<1>a. pc[c] \in Before => results[c] = <<>>
  BY DEF RetryInv
<1>b. pc[c] \in Running /\ results[c] /= <<>> => IsTransientError(Latest(c))
  BY LatestTransient
<1>1. ASSUME \/ FallThrough(c) \/ Arrive(c) \/ ResolveMiss(c) \/ ListFail(c)
             \/ Admit(c) \/ Send(c) \/ BackoffOver(c) \/ Return(c)
      PROVE  Caused(c)'
  BY <1>1 DEF FallThrough, Arrive, ResolveMiss, ListFail, Admit, Send,
     BackoffOver, Return, Goto, Caused, Routed,
     TypeOK
<1>2. ASSUME ResolveHit(c) \/ ListReply(c) PROVE Caused(c)'
  <2>1. /\ pc'[c] = "return" => err'[c] = InvalidParams
        /\ pc[c] \in Before \ {"idle"} /\ results'[c] = results[c] /\ tool' = tool
    BY <1>2 DEF ResolveHit, ListReply, Validate, Leave, Goto, TypeOK, Before
  <2>2. QED BY <1>a, <2>1 DEF Caused, Excused, Routed, Before
<1>3. CASE Shed(c)
  BY <1>3, <1>a DEF Shed, Leave, Goto, Caused, Excused, Routed, TypeOK, Before
<1>4. ASSUME \/ Abort(c) \/ Refuse(c)
             \/ \E e \in {Canceled, DeadlinePassed} : Cut(c, e)
      PROVE  Caused(c)'
  <2>1. /\ pc'[c] = "return" /\ results'[c] = results[c]
        /\ pc[c] \in {"attempt", "backoff"} /\ tool' = tool
        /\ err'[c] \in {DeadlinePassed, CircuitOpen, Canceled}
    BY <1>4 DEF Abort, Refuse, Cut, Leave, Goto, TypeOK
  <2>2. Latest(c)' = Latest(c)
    BY <2>1 DEF Latest
  <2>3. QED BY <1>b, <2>1, <2>2 DEF Caused, Excused, Routed, Running
<1>5. ASSUME NEW e \in {Canceled, DeadlinePassed}, CutEarly(c, e)
      PROVE  Caused(c)'
  <2>1. /\ pc'[c] = "return" /\ results'[c] = <<>> /\ err'[c] = e
        /\ pc[c] = "limiter" /\ tool' = tool
    BY <1>5, <1>a DEF CutEarly, Leave, Goto, TypeOK, Before
  <2>2. QED BY <2>1 DEF Caused, Excused, Routed
<1>6. ASSUME NEW e \in Results, Reply(c, e) PROVE Caused(c)'
  <2> DEFINE n == Len(results[c])
  <2>1. /\ results[c] \in Seq(AttemptResults) /\ e \in AttemptResults
        /\ results'[c] = Append(results[c], e) /\ n \in Nat
    BY <1>6, BoundsAssumption DEF Reply, TypeOK
  <2>2. /\ results'[c] /= <<>> /\ Len(results'[c]) = n + 1
        /\ results'[c][n + 1] = e
    BY <2>1
  <2>3. Latest(c)' = e
    BY <2>2 DEF Latest
  <2>4. /\ pc[c] = "waiting" /\ tool' = tool
        /\ pc'[c] = "return" =>
             err'[c] = e /\ ~ShouldRetry(tool[c], n + 1, e)
    BY <1>6 DEF Reply, Leave, Goto, TypeOK
  <2>5. n < AttemptsAllowed(tool[c]) /\ AttemptsAllowed(tool[c]) \in Nat
    BY <2>4, AllowedPositive DEF RetryInv, Running, TypeOK
  <2>6. pc'[c] = "return" /\ e \in Repeatable => n + 1 = AttemptsAllowed(tool[c])
    BY <2>1, <2>4, <2>5, TransientEnds DEF ShouldRetry
  <2> HIDE DEF n
  <2>7. AttemptsAllowed(tool[c])' = AttemptsAllowed(tool[c])
    BY <2>4 DEF AttemptsAllowed
  <2>8. QED BY <2>2, <2>3, <2>4, <2>6, <2>7 DEF Caused, Excused, Routed
<1>7. QED
  BY <1>1, <1>2, <1>3, <1>4, <1>5, <1>6 DEF Step

LEMMA CauseNext == TypeOK /\ RetryInv /\ CauseInv /\ [Next]_vars => CauseInv'
<1> SUFFICES ASSUME TypeOK, RetryInv, CauseInv, [Next]_vars, NEW d \in Calls
    PROVE  Caused(d)'
  BY DEF CauseInv
<1>a. Caused(d)
  BY DEF CauseInv
<1>1. ASSUME NEW c \in Calls, Step(c) PROVE Caused(d)'
  <2>1. CASE d = c
    BY <1>1, <1>a, <2>1, SelfCaused
  <2>2. CASE d /= c
    BY <1>1, <1>a, <2>2, OthersKeep
    DEF Caused, Excused, Latest, Routed, AttemptsAllowed
  <2>3. QED BY <2>1, <2>2
<1>2. CASE Environment
  <2>1. UNCHANGED <<pc, tool, results, err>>
    BY <1>2 DEF Environment, RefreshRoute, Refill, ResetTimeout,
       WindowSlides, Tick, GoAway, callVars
  <2>2. QED BY <1>a, <2>1 DEF Caused, Excused, Latest, Routed, AttemptsAllowed
<1>3. CASE UNCHANGED vars
  BY <1>a, <1>3 DEF Caused, Excused, Latest, Routed, AttemptsAllowed, vars,
     callVars
<1>4. QED BY <1>1, <1>2, <1>3 DEF Next

(* The contract speaks of the same errors and answers.                     *)
LEMMA SameCodes ==
  /\ Contract!codeRateLimitExceeded = codeRateLimitExceeded
  /\ Contract!codeCircuitOpen = codeCircuitOpen
  /\ Contract!codeExecutionTimeout = codeExecutionTimeout
  /\ Contract!codeInternalError = codeInternalError
  /\ Contract!codeInvalidParams = codeInvalidParams
  /\ Contract!codeRejected = codeRejected
  /\ Contract!codeMethodNotFound = codeMethodNotFound
  /\ \A k : Contract!Plain(k) = Plain(k) /\ Contract!Wire(k) = Wire(k)
BY DEF codeRateLimitExceeded, codeCircuitOpen, codeExecutionTimeout,
   codeInternalError, codeInvalidParams, codeRejected, codeMethodNotFound,
   Plain, Wire, Contract!codeRateLimitExceeded, Contract!codeCircuitOpen,
   Contract!codeExecutionTimeout, Contract!codeInternalError,
   Contract!codeInvalidParams, Contract!codeRejected,
   Contract!codeMethodNotFound, Contract!Plain, Contract!Wire

LEMMA SameErrors ==
  /\ Contract!Success = Success /\ Contract!Panicked = Panicked
  /\ Contract!CircuitOpen = CircuitOpen /\ Contract!RateLimited = RateLimited
  /\ Contract!DeadlinePassed = DeadlinePassed /\ Contract!Canceled = Canceled
  /\ Contract!NetworkFailure = NetworkFailure /\ Contract!Rejected = Rejected
  /\ Contract!AppError = AppError /\ Contract!InvalidParams = InvalidParams
BY SameCodes DEF Success, Panicked, CircuitOpen, RateLimited, DeadlinePassed,
   Canceled, NetworkFailure, Rejected, AppError, InvalidParams,
   Contract!Success, Contract!Panicked, Contract!CircuitOpen,
   Contract!RateLimited, Contract!DeadlinePassed, Contract!Canceled,
   Contract!NetworkFailure, Contract!Rejected, Contract!AppError,
   Contract!InvalidParams

LEMMA SameResults ==
  /\ Contract!AttemptResults = AttemptResults
  /\ Contract!Repeatable = Repeatable
  /\ \A e : Contract!IsTransientError(e) = IsTransientError(e)
  /\ \A e : Contract!MapResilienceError(e) = MapResilienceError(e)
<1>1. Contract!OwnCodes = OwnCodes
  BY SameCodes DEF OwnCodes, Contract!OwnCodes
<1>2. {Contract!Wire(code) : code \in OwnCodes} = {Wire(code) : code \in OwnCodes}
  BY SameCodes
<1>3. Contract!AttemptResults = AttemptResults
  BY <1>1, <1>2, SameErrors DEF AttemptResults, Contract!AttemptResults
<1>4. /\ Contract!Repeatable = Repeatable
      /\ \A e : Contract!IsTransientError(e) = IsTransientError(e)
  BY SameErrors DEF Repeatable, Contract!Repeatable, IsTransientError,
     Contract!IsTransientError
<1>5. Contract!MappedCode = MappedCode
  BY SameCodes DEF MappedCode, Contract!MappedCode
<1>6. \A e : Contract!MapResilienceError(e) = MapResilienceError(e)
  BY <1>5, SameCodes DEF MapResilienceError, Contract!MapResilienceError
<1>7. QED BY <1>3, <1>4, <1>6

LEMMA SameAnswers == Contract!Answers = Answers
BY SameErrors, SameResults DEF Answers, Contract!Answers, Errors, Contract!Errors

(* What each error of the gateway's own becomes. *)
LEMMA OwnAnswers ==
  /\ MapResilienceError(InvalidParams) = InvalidParams
  /\ MapResilienceError(Canceled) = Canceled
  /\ MapResilienceError(RateLimited) = Wire(codeRateLimitExceeded)
  /\ MapResilienceError(CircuitOpen) = Wire(codeCircuitOpen)
  /\ MapResilienceError(DeadlinePassed) = Wire(codeExecutionTimeout)
BY DEF MapResilienceError, MappedCode, InvalidParams, Canceled, RateLimited,
   CircuitOpen, DeadlinePassed, Plain, Wire

(* What such an error becomes is an answer the contract allows. *)
LEMMA AnswersJustified ==
  ASSUME TypeOK, NEW c \in Calls, Caused(c), pc[c] = "return"
  PROVE  /\ MapResilienceError(err[c]) \in Answers
         /\ Contract!Justified(c, MapResilienceError(err[c]))
<1> DEFINE a == MapResilienceError(err[c])
<1>1. a \in Answers
  BY MappingTypes DEF TypeOK
<1>2. /\ results[c] \in Seq(AttemptResults) /\ Len(results[c]) \in Nat
      /\ Runs[c] = Len(results[c])
      /\ results[c] = <<>> <=> Len(results[c]) = 0
  BY DEF Attempts, Runs, TypeOK
<1>3. results[c] /= <<>> => Last[c] = Latest(c)
  BY DEF Last, Latest
<1>4. Excused(c) /\ Routed(tool[c])
  BY DEF Caused
<1>5. Budget[c] = AttemptsAllowed(tool[c])
  BY <1>4 DEF Budget
<1>6. CASE results[c] = <<>>
  <2>1. \/ a \in {Wire(codeRateLimitExceeded), InvalidParams}
        \/ a \in {Wire(codeCircuitOpen), Wire(codeExecutionTimeout), Canceled}
    BY <1>4, <1>6, OwnAnswers DEF Excused
  <2>2. Contract!NeverRan(c, a) \/ Contract!EndedEarly(c, a)
    BY <1>2, <1>6, <2>1, SameCodes, SameErrors
    DEF Contract!NeverRan, Contract!EndedEarly
  <2>3. QED BY <1>1, <2>2 DEF Contract!Justified
<1>7. ASSUME results[c] /= <<>>, IsTransientError(Latest(c)),
             err[c] \in {DeadlinePassed, CircuitOpen, Canceled}
      PROVE  Contract!Justified(c, a)
  <2>1. a \in {Wire(codeCircuitOpen), Wire(codeExecutionTimeout), Canceled}
    BY <1>7, OwnAnswers
  <2>2. Contract!EndedEarly(c, a)
    BY <1>3, <1>7, <2>1, SameCodes, SameErrors, SameResults
    DEF Contract!EndedEarly
  <2>3. QED BY <2>2 DEF Contract!Justified
<1>8. ASSUME results[c] /= <<>>, err[c] = Latest(c),
             Latest(c) \in Repeatable => Len(results[c]) = AttemptsAllowed(tool[c])
      PROVE  Contract!Justified(c, a)
  <2>1. Runs[c] > 0 /\ a = Contract!MapResilienceError(Last[c])
    BY <1>2, <1>3, <1>8, SameResults
  <2>2. Last[c] \in Contract!Repeatable => Runs[c] = Budget[c]
    BY <1>2, <1>3, <1>5, <1>8, SameResults
  <2>3. QED BY <2>1, <2>2 DEF Contract!PassedOn, Contract!Justified
<1> HIDE DEF a
<1>9. QED BY <1>1, <1>4, <1>6, <1>7, <1>8 DEF Excused, a

-----------------------------------------------------------------------------
(* Steps. *)

(* A call that moves on within dispatchTool without asking the backend. *)
LEMMA Stutters ==
  ASSUME \A d \in Calls : /\ (pc'[d] = "idle") = (pc[d] = "idle")
                          /\ (pc'[d] = "done") = (pc[d] = "done")
                          /\ (pc'[d] = "waiting") = (pc[d] = "waiting"),
         UNCHANGED <<tool, results, answer>>
  PROVE  UNCHANGED Contract!vars
<1>1. Phase' = Phase
  BY DEF Phase
<1>2. Budget' = Budget
  BY DEF Budget, Routed
<1>3. Runs' = Runs
  BY DEF Runs, Attempts
<1>4. Last' = Last
  BY DEF Last
<1>5. QED BY <1>1, <1>2, <1>3, <1>4 DEF Contract!vars

(* FallThrough refuses, Arrive accepts. *)
LEMMA FallThroughRefuses ==
  ASSUME TypeOK, NEW c \in Calls, FallThrough(c) PROVE Contract!Refuse(c)
<1>1. /\ pc[c] = "idle" /\ pc'[c] = "done" /\ ~Routed(tool[c])
      /\ \A d \in Calls : d /= c => pc'[d] = pc[d]
      /\ UNCHANGED <<tool, results>>
      /\ answer' = [answer EXCEPT ![c] = AppError]
  BY DEF FallThrough, Goto, TypeOK
<1>2. Phase' = [Phase EXCEPT ![c] = "closed"]
  <2>1. Phase'[c] = "closed" /\ \A d \in Calls : d /= c => Phase'[d] = Phase[d]
    BY <1>1 DEF Phase
  <2>2. Phase = [d \in Calls |-> Phase[d]] /\ Phase' = [d \in Calls |-> Phase'[d]]
    BY DEF Phase
  <2>3. QED BY <2>1, <2>2
<1>3. Budget' = Budget
  BY <1>1 DEF Budget, Routed
<1>4. Runs' = Runs /\ Last' = Last
  BY <1>1 DEF Runs, Attempts, Last
<1>5. Phase[c] = "new"
  BY <1>1 DEF Phase
<1>6. QED
  BY <1>1, <1>2, <1>3, <1>4, <1>5, SameErrors DEF Contract!Refuse

LEMMA ArriveAccepts ==
  ASSUME TypeOK, NEW c \in Calls, Arrive(c) PROVE Contract!Accept(c)
<1>1. /\ pc[c] = "idle" /\ pc'[c] = "resolve" /\ Routed(tool[c])
      /\ \A d \in Calls : d /= c => pc'[d] = pc[d]
      /\ UNCHANGED <<tool, results, answer>>
  BY DEF Arrive, Goto, TypeOK
<1>2. Phase' = [Phase EXCEPT ![c] = "open"]
  <2>1. Phase'[c] = "open" /\ \A d \in Calls : d /= c => Phase'[d] = Phase[d]
    BY <1>1 DEF Phase
  <2>2. Phase = [d \in Calls |-> Phase[d]] /\ Phase' = [d \in Calls |-> Phase'[d]]
    BY DEF Phase
  <2>3. QED BY <2>1, <2>2
<1>3. \E n \in {AttemptsAllowed(t) : t \in Tools} :
        Budget' = [Budget EXCEPT ![c] = n]
  <2>1. /\ Budget'[c] = AttemptsAllowed(tool[c])
        /\ \A d \in Calls : d /= c => Budget'[d] = Budget[d]
    BY <1>1 DEF Budget, Routed
  <2>2. Budget = [d \in Calls |-> Budget[d]] /\ Budget' = [d \in Calls |-> Budget'[d]]
    BY DEF Budget
  <2>3. Budget' = [Budget EXCEPT ![c] = AttemptsAllowed(tool[c])]
    BY <2>1, <2>2
  <2>4. tool[c] \in Tools
    BY DEF TypeOK
  <2>5. QED BY <2>3, <2>4
<1>4. Runs' = Runs /\ Last' = Last
  BY <1>1 DEF Runs, Attempts, Last
<1>5. Phase[c] = "new"
  BY <1>1 DEF Phase
<1>6. QED
  BY <1>1, <1>2, <1>3, <1>4, <1>5 DEF Contract!Accept

(* A request sent to the backend is a run the budget still covers, after   *)
(* nothing or a transient failure.                                         *)
LEMMA SendRuns ==
  ASSUME TypeOK, RetryInv, NEW c \in Calls, Routed(tool[c]), Send(c)
  PROVE  Contract!Run(c)
<1>1. /\ pc[c] = "attempt" /\ pc'[c] = "waiting"
      /\ \A d \in Calls : d /= c => pc'[d] = pc[d]
      /\ UNCHANGED <<tool, results, answer>>
  BY DEF Send, Goto, TypeOK
<1>2. Phase' = [Phase EXCEPT ![c] = "running"]
  <2>1. Phase'[c] = "running" /\ \A d \in Calls : d /= c => Phase'[d] = Phase[d]
    BY <1>1 DEF Phase
  <2>2. Phase = [d \in Calls |-> Phase[d]] /\ Phase' = [d \in Calls |-> Phase'[d]]
    BY DEF Phase
  <2>3. QED BY <2>1, <2>2
<1>3. Budget' = Budget /\ Last' = Last
  BY <1>1 DEF Budget, Routed, Last
<1>4. Len(results[c]) \in Nat
  BY DEF TypeOK
<1>5. Attempts(c) = Len(results[c]) /\ Attempts(c)' = Len(results[c]) + 1
  BY <1>1, <1>4 DEF Attempts
<1>6. Runs' = [Runs EXCEPT ![c] = Runs[c] + 1]
  <2>1. \A d \in Calls : d /= c => Attempts(d)' = Attempts(d)
    BY <1>1 DEF Attempts
  <2>2. Runs'[c] = Runs[c] + 1 /\ \A d \in Calls : d /= c => Runs'[d] = Runs[d]
    BY <1>4, <1>5, <2>1 DEF Runs
  <2>3. Runs = [d \in Calls |-> Runs[d]] /\ Runs' = [d \in Calls |-> Runs'[d]]
    BY DEF Runs
  <2>4. QED BY <2>2, <2>3
<1>7. Phase[c] = "open"
  BY <1>1 DEF Phase
<1>8. Runs[c] < Budget[c]
  BY <1>1, <1>5 DEF RetryInv, Running, Runs, Budget
<1>9. Runs[c] = 0 \/ Last[c] \in Contract!Repeatable
  <2>1. CASE results[c] = <<>>
    BY <1>5, <2>1 DEF Runs
  <2>2. CASE results[c] /= <<>>
    <3>1. results[c] \in Seq(AttemptResults) /\ left[c] /= "expired"
      BY DEF TypeOK, Send, TooClose
    <3>2. Len(results[c]) \in 1..Len(results[c])
      BY <2>2, <3>1
    <3>3. MayGoOn(c, results[c][Len(results[c])])
      BY <1>1, <3>2 DEF RetryInv, Running
    <3>4. QED BY <2>2, <3>1, <3>3, SameResults DEF MayGoOn, Last
  <2>3. QED BY <2>1, <2>2
<1>10. QED
  BY <1>1, <1>2, <1>3, <1>6, <1>7, <1>8, <1>9 DEF Contract!Run

(* The end of an attempt finishes the run. *)
LEMMA ReplyFinishes ==
  ASSUME TypeOK, NEW c \in Calls, NEW e \in Results, Reply(c, e)
  PROVE  Contract!Finish(c)
<1>1. /\ pc[c] = "waiting" /\ pc'[c] \in {"backoff", "return"}
      /\ \A d \in Calls : d /= c => pc'[d] = pc[d]
      /\ results' = [results EXCEPT ![c] = Append(results[c], e)]
      /\ UNCHANGED <<tool, answer>>
  BY DEF Reply, Leave, Goto, TypeOK
<1>2. /\ results[c] \in Seq(AttemptResults) /\ e \in AttemptResults
      /\ results'[c] = Append(results[c], e)
      /\ \A d \in Calls : d /= c => results'[d] = results[d]
  BY <1>1, BoundsAssumption DEF TypeOK
<1>3. /\ Len(results'[c]) = Len(results[c]) + 1 /\ Len(results[c]) \in Nat
      /\ results'[c] /= <<>> /\ results'[c][Len(results'[c])] = e
  BY <1>2
<1>4. Phase' = [Phase EXCEPT ![c] = "open"]
  <2>1. Phase'[c] = "open" /\ \A d \in Calls : d /= c => Phase'[d] = Phase[d]
    BY <1>1 DEF Phase
  <2>2. Phase = [d \in Calls |-> Phase[d]] /\ Phase' = [d \in Calls |-> Phase'[d]]
    BY DEF Phase
  <2>3. QED BY <2>1, <2>2
<1>5. Budget' = Budget
  BY <1>1 DEF Budget, Routed
<1>6. Runs' = Runs
  <2>1. ASSUME NEW d \in Calls PROVE Attempts(d)' = Attempts(d)
    <3>1. CASE d = c
      <4>1. Attempts(c) = Len(results[c]) + 1
        BY <1>1 DEF Attempts
      <4>2. pc'[c] /= "waiting"
        BY <1>1
      <4>3. Attempts(c)' = Len(results'[c]) + 0
        BY <4>2 DEF Attempts
      <4>4. QED BY <1>3, <3>1, <4>1, <4>3
    <3>2. CASE d /= c
      BY <1>1, <1>2, <3>2 DEF Attempts
    <3>3. QED BY <3>1, <3>2
  <2>2. QED BY <2>1 DEF Runs
<1>7. Last' = [Last EXCEPT ![c] = e]
  <2>1. Last'[c] = e /\ \A d \in Calls : d /= c => Last'[d] = Last[d]
    BY <1>2, <1>3 DEF Last
  <2>2. Last = [d \in Calls |-> Last[d]] /\ Last' = [d \in Calls |-> Last'[d]]
    BY DEF Last
  <2>3. QED BY <2>1, <2>2
<1>8. Phase[c] = "running" /\ e \in Contract!AttemptResults
  BY <1>1, <1>2, SameResults DEF Phase
<1>9. QED
  BY <1>1, <1>4, <1>5, <1>6, <1>7, <1>8 DEF Contract!Finish

(* The way back answers, with an answer that is justified. *)
LEMMA ReturnAnswers ==
  ASSUME TypeOK, NEW c \in Calls, Caused(c), Return(c)
  PROVE  Contract!Answer(c)
<1>1. /\ pc[c] = "return" /\ pc'[c] = "done"
      /\ \A d \in Calls : d /= c => pc'[d] = pc[d]
      /\ UNCHANGED <<tool, results>>
      /\ answer' = [answer EXCEPT ![c] = MapResilienceError(err[c])]
  BY DEF Return, Goto, TypeOK
<1>2. Phase' = [Phase EXCEPT ![c] = "closed"]
  <2>1. Phase'[c] = "closed" /\ \A d \in Calls : d /= c => Phase'[d] = Phase[d]
    BY <1>1 DEF Phase
  <2>2. Phase = [d \in Calls |-> Phase[d]] /\ Phase' = [d \in Calls |-> Phase'[d]]
    BY DEF Phase
  <2>3. QED BY <2>1, <2>2
<1>3. Budget' = Budget
  BY <1>1 DEF Budget, Routed
<1>4. Runs' = Runs /\ Last' = Last
  BY <1>1 DEF Runs, Attempts, Last
<1>5. Phase[c] = "open"
  BY <1>1 DEF Phase
<1>6. QED
  BY <1>1, <1>2, <1>3, <1>4, <1>5, AnswersJustified, SameAnswers
  DEF Contract!Answer

(* Every other step of a call is invisible to the contract. *)
LEMMA OthersStutter ==
  ASSUME TypeOK, NEW c \in Calls, Step(c),
         ~FallThrough(c), ~Arrive(c), ~Send(c), ~Return(c),
         \A e \in Results : ~Reply(c, e)
  PROVE  UNCHANGED Contract!vars
<1>1. ASSUME NEW l \in Labels, l \notin {"idle", "waiting", "done"},
             pc[c] \notin {"idle", "waiting", "done"},
             pc' = [pc EXCEPT ![c] = l], UNCHANGED <<tool, results, answer>>
      PROVE  UNCHANGED Contract!vars
  <2>1. \A d \in Calls : pc'[d] = IF d = c THEN l ELSE pc[d]
    BY <1>1 DEF TypeOK
  <2>2. QED BY <1>1, <2>1, Stutters
<1>2. ASSUME \/ ResolveHit(c) \/ ResolveMiss(c) \/ ListReply(c) \/ ListFail(c)
             \/ Admit(c) \/ Shed(c)
      PROVE  UNCHANGED Contract!vars
  BY <1>1, <1>2 DEF ResolveHit, ResolveMiss, ListReply, ListFail, Admit, Shed,
     Validate, Leave, Goto, Labels
<1>3. ASSUME \/ Abort(c) \/ Refuse(c) \/ BackoffOver(c)
             \/ \E e \in {Canceled, DeadlinePassed} : Cut(c, e) \/ CutEarly(c, e)
      PROVE  UNCHANGED Contract!vars
  BY <1>1, <1>3 DEF Abort, Refuse, BackoffOver, Cut, CutEarly, Leave, Goto,
     Labels
<1>4. QED BY <1>2, <1>3 DEF Step

LEMMA ContractNext ==
  TypeOK /\ RetryInv /\ CauseInv /\ [Next]_vars =>
    [Contract!Next]_(Contract!vars)
<1> SUFFICES ASSUME TypeOK, RetryInv, CauseInv, [Next]_vars
    PROVE  Contract!Next \/ UNCHANGED Contract!vars
  OBVIOUS
<1>1. ASSUME NEW c \in Calls, Step(c)
      PROVE  Contract!Next \/ UNCHANGED Contract!vars
  <2>1. Caused(c)
    BY DEF CauseInv
  <2>2. Send(c) => Routed(tool[c])
    BY <2>1 DEF Send, Caused
  <2>3. QED
    BY <1>1, <2>1, <2>2, FallThroughRefuses, ArriveAccepts, SendRuns,
       ReplyFinishes, ReturnAnswers, OthersStutter DEF Contract!Next
<1>2. CASE Environment \/ UNCHANGED vars
  <2>1. UNCHANGED <<pc, tool, results, answer>>
    BY <1>2 DEF Environment, RefreshRoute, Refill, ResetTimeout,
       WindowSlides, Tick, GoAway, vars, callVars
  <2>2. QED BY <2>1, Stutters
<1>3. QED BY <1>1, <1>2 DEF Next

LEMMA ContractInit == Init => Contract!Init
<1> SUFFICES ASSUME Init PROVE Contract!Init
  OBVIOUS
<1>1. \A c \in Calls : pc[c] = "idle" /\ Attempts(c) = 0
  BY DEF Init, Attempts
<1>2. /\ Phase = [c \in Calls |-> "new"] /\ Budget = [c \in Calls |-> 0]
      /\ Runs = [c \in Calls |-> 0] /\ Last = [c \in Calls |-> Success]
  BY <1>1 DEF Init, Phase, Budget, Runs, Last
<1>3. QED BY <1>2, SameErrors DEF Init, Contract!Init

(* Whatever policies govern a call, whatever other calls do, and whatever  *)
(* codes the backends answer with: its tool runs at most as often as was   *)
(* fixed when it was accepted, again only after a transient failure, and   *)
(* never after the answer; a run that ended for good is what the client    *)
(* gets, and any other answer is one that how far the call got accounts    *)
(* for.  The dispatch and resile.Do together implement CallContract.       *)
THEOREM DispatchKeepsContract == Spec => KeepsContract
<1>1. Spec => [](TypeOK /\ RetryInv /\ CauseInv)
  BY TypeInit, TypeNext, RetryInit, RetryNext, CauseInit, CauseNext, PTL
  DEF Spec
<1>2. QED
  BY <1>1, ContractInit, ContractNext, PTL
  DEF Spec, KeepsContract, Contract!Spec
=============================================================================
