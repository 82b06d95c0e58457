---------------------------- MODULE CallContract ----------------------------
(***************************************************************************)
(* What the gateway promises to the client of one tools/call, whatever     *)
(* policies, schemas, breakers and limiters sit in between:                *)
(*                                                                         *)
(*  - the number of times the tool may run is fixed when the call is       *)
(*    accepted and never exceeded, one run is over before the next begins, *)
(*    and only a transient failure of the backend is followed by another;  *)
(*  - an answer is given once, and the tool does not run after it;         *)
(*  - a run that ended for good - with a result, an error of the backend's *)
(*    own, a panic - is what the client gets, unaltered but for its code;  *)
(*  - a transient failure is passed on only when the budget is used up;    *)
(*    before that only an open breaker, the deadline or the client's own   *)
(*    leaving may end the call;                                            *)
(*  - an answer "rate limited" or "invalid params" means that the tool     *)
(*    never ran, unless it is what the backend itself answered last.       *)
(***************************************************************************)
EXTENDS ErrorMapping

CONSTANTS
  Calls,      \* the tools/call requests the clients make
  Budgets     \* the retry budgets tools have: positive numbers

VARIABLES
  phase,      \* phase[c]: "new", "open", "running" or "closed"
  budget,     \* budget[c]: how often the tool may run, fixed at acceptance
  runs,       \* runs[c]: how often the backend was asked to run it
  last,       \* last[c]: what its latest run ended with, if there was one
  answer      \* answer[c]: what the client was told

vars == <<phase, budget, runs, last, answer>>

Init ==
  /\ phase = [c \in Calls |-> "new"]
  /\ budget = [c \in Calls |-> 0]
  /\ runs = [c \in Calls |-> 0]
  /\ last = [c \in Calls |-> Success]
  /\ answer = [c \in Calls |-> Success]

Accept(c) ==
  /\ phase[c] = "new"
  /\ phase' = [phase EXCEPT ![c] = "open"]
  /\ \E n \in Budgets : budget' = [budget EXCEPT ![c] = n]
  /\ UNCHANGED <<runs, last, answer>>

Refuse(c) ==
  /\ phase[c] = "new"
  /\ phase' = [phase EXCEPT ![c] = "closed"]
  /\ answer' = [answer EXCEPT ![c] = AppError]
  /\ UNCHANGED <<budget, runs, last>>

Run(c) ==
  /\ phase[c] = "open"
  /\ runs[c] < budget[c]
  /\ runs[c] = 0 \/ last[c] \in Repeatable
  /\ phase' = [phase EXCEPT ![c] = "running"]
  /\ runs' = [runs EXCEPT ![c] = @ + 1]
  /\ UNCHANGED <<budget, last, answer>>

Finish(c) ==
  /\ phase[c] = "running"
  /\ phase' = [phase EXCEPT ![c] = "open"]
  /\ \E e \in AttemptResults : last' = [last EXCEPT ![c] = e]
  /\ UNCHANGED <<budget, runs, answer>>

(* Answers to a call whose tool never ran. *)
NeverRan(c, a) ==
  runs[c] = 0 /\ a \in {Wire(codeRateLimitExceeded), InvalidParams}

(* Answers to a call that was ended before a run, or between two. *)
EndedEarly(c, a) ==
  /\ runs[c] = 0 \/ IsTransientError(last[c])
  /\ a \in {Wire(codeCircuitOpen), Wire(codeExecutionTimeout), Canceled}

(* The answer that passes the latest run's end on. *)
PassedOn(c, a) ==
  /\ runs[c] > 0 /\ a = MapResilienceError(last[c])
  /\ last[c] \in Repeatable => runs[c] = budget[c]

Justified(c, a) == NeverRan(c, a) \/ EndedEarly(c, a) \/ PassedOn(c, a)

Answer(c) ==
  /\ phase[c] = "open"
  /\ phase' = [phase EXCEPT ![c] = "closed"]
  /\ \E a \in Answers :
       /\ Justified(c, a)
       /\ answer' = [answer EXCEPT ![c] = a]
  /\ UNCHANGED <<budget, runs, last>>

Next ==
  \E c \in Calls : Accept(c) \/ Refuse(c) \/ Run(c) \/ Finish(c) \/ Answer(c)

Spec == Init /\ [][Next]_vars
=============================================================================
