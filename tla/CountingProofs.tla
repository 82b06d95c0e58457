--------------------------- MODULE CountingProofs ---------------------------
(***************************************************************************)
(* What Dispatch counts, counted against what the calls went through: the  *)
(* outcomes a breaker sees, and the metrics.                               *)
(***************************************************************************)
EXTENDS ContractProofs

(* One field of a function changes. *)
LEMMA Except ==
  ASSUME NEW D, NEW R, NEW f \in [D -> R], NEW r \in D, NEW p \in D, NEW v
  PROVE  LET g == [f EXCEPT ![r] = v]
         IN  g[p] = f[p] \/ (p = r /\ g[p] = v)
OBVIOUS

(* Cardinalities of sets that grow by at most two elements. *)
LEMMA Growth ==
  ASSUME NEW S, NEW T, NEW x, NEW y, IsFiniteSet(S),
         S \subseteq T, T \subseteq (S \cup {x}) \cup {y}
  PROVE  /\ IsFiniteSet(T)
         /\ Cardinality(S) \in Nat /\ Cardinality(T) \in Nat
         /\ Cardinality(S) <= Cardinality(T)
         /\ x \in T /\ x \notin S => Cardinality(S) + 1 <= Cardinality(T)
<1>1. IsFiniteSet(S \cup {x})
  BY FS_AddElement
<1>2. IsFiniteSet((S \cup {x}) \cup {y})
  BY <1>1, FS_AddElement
<1>3. IsFiniteSet(T)
  BY <1>2, FS_Subset
<1>4. Cardinality(S) \in Nat /\ Cardinality(T) \in Nat
  BY <1>3, FS_CardinalityType
<1>5. Cardinality(S) <= Cardinality(T)
  BY <1>3, FS_Subset
<1>6. ASSUME x \in T, x \notin S PROVE Cardinality(S) + 1 <= Cardinality(T)
  <2>1. Cardinality(S \cup {x}) = Cardinality(S) + 1
    BY <1>6, FS_AddElement
  <2>2. Cardinality(S \cup {x}) <= Cardinality(T)
    <3>1. (S \cup {x}) \in SUBSET T
      BY <1>6
    <3>2. QED BY <1>3, <3>1, FS_Subset
  <2>3. QED BY <2>1, <2>2
<1>7. QED BY <1>3, <1>4, <1>5, <1>6

-----------------------------------------------------------------------------
(* Errors. *)

(* A call has an error only once it is on its way back. *)
ErrInv == \A c \in Calls : pc[c] \notin {"return", "done"} => err[c] = Success

(* The errors a breaker counts, apart from an attempt's, and the others.   *)
Breaks == {DeadlinePassed, Canceled}

LEMMA ErrorsDiffer ==
  /\ Success \notin Breaks /\ InvalidParams \notin Breaks
  /\ RateLimited \notin Breaks /\ CircuitOpen \notin Breaks
  /\ DeadlinePassed /= Success /\ Canceled /= Success
  /\ \A e \in AttemptResults : e /= RateLimited /\ e /= CircuitOpen
  /\ RateLimited /= CircuitOpen /\ Success /= RateLimited /\ Success /= CircuitOpen
  /\ InvalidParams \in AttemptResults /\ Breaks \subseteq AttemptResults
BY DEF Breaks, AttemptResults, OwnCodes, Success, Panicked, DeadlinePassed, Canceled,
   NetworkFailure, Rejected, AppError, InvalidParams, RateLimited, CircuitOpen,
   Plain, Wire, codeRejected, codeMethodNotFound, codeInvalidParams

(* The kinds of steps: those that end without an attempt's result leave    *)
(* the results and the breakers alone.                                     *)
LEMMA QuietEffect ==
  ASSUME TypeOK, NEW c \in Calls,
         \/ FallThrough(c) \/ Arrive(c) \/ ResolveHit(c) \/ ResolveMiss(c)
         \/ ListReply(c) \/ ListFail(c) \/ Admit(c) \/ Send(c)
         \/ BackoffOver(c) \/ Return(c)
  PROVE  /\ UNCHANGED <<results, breaker, window, rejections, retries>>
         /\ \/ err'[c] = err[c] /\ (pc'[c] = "return" => pc[c] = "return")
            \/ pc[c] \notin {"return", "done"} /\ pc'[c] = "return"
               /\ err'[c] = InvalidParams
         /\ pc[c] /= "done"
         /\ pc[c] = "return" => pc'[c] = "done"
BY DEF FallThrough, Arrive, ResolveHit, ResolveMiss, ListReply, ListFail,
       Admit, Send, BackoffOver, Return, Validate, Leave, Goto, TypeOK,
       breakerVars, metricVars

(* The limiter's and the breaker's refusals. *)
LEMMA RefusalEffect ==
  ASSUME TypeOK, NEW c \in Calls, Shed(c) \/ Refuse(c)
  PROVE  /\ UNCHANGED <<results, breaker, window>>
         /\ pc[c] \notin {"return", "done"} /\ pc'[c] = "return"
         /\ Shed(c) => /\ err'[c] = RateLimited
                       /\ rejections' = rejections + 1 /\ retries' = retries
         /\ Refuse(c) => /\ err'[c] = CircuitOpen /\ rejections' = rejections
                         /\ \/ retries' = retries
                            \/ results[c] /= <<>> /\ retries' = retries + 1
<1>1. CASE Shed(c)
  BY <1>1 DEF Shed, Refuse, Leave, Goto, TypeOK, breakerVars
<1>2. CASE Refuse(c)
  BY <1>2 DEF Shed, Refuse, AfterAttempt, Leave, Goto, TypeOK, breakerVars
<1>3. QED BY <1>1, <1>2

(* A deadline or a cancellation outside of the attempts. *)
LEMMA CutEffect ==
  ASSUME TypeOK, NEW c \in Calls, NEW e,
         \/ Abort(c) /\ e = DeadlinePassed
         \/ e \in Breaks /\ (Cut(c, e) \/ CutEarly(c, e))
  PROVE  /\ UNCHANGED <<results, rejections, retries>>
         /\ pc[c] \notin {"return", "done"} /\ pc'[c] = "return"
         /\ err'[c] = e /\ e \in Breaks
         /\ Count(c, "call", e) \/ UNCHANGED <<breaker, window>>
BY DEF Abort, Cut, CutEarly, breakerVars, Leave, Goto, TypeOK, metricVars, Breaks

(* An attempt's end. *)
LEMMA ReplyEffect ==
  ASSUME TypeOK, NEW c \in Calls, NEW e \in Results, Reply(c, e)
  PROVE  /\ results' = [results EXCEPT ![c] = Append(@, e)]
         /\ pc[c] = "waiting" /\ pc'[c] \in {"return", "backoff"}
         /\ IF pc'[c] = "return" THEN err'[c] = e ELSE err'[c] = err[c]
         /\ UNCHANGED rejections
         /\ AfterAttempt(c)
         /\ e \in AttemptResults
         /\ \E unit : Count(c, unit, e)
<1>1. CASE ShouldRetry(tool[c], Len(results[c]) + 1, e)
  BY <1>1, BoundsAssumption DEF Reply, Leave, Goto, TypeOK
<1>2. CASE ~ShouldRetry(tool[c], Len(results[c]) + 1, e)
  BY <1>2, BoundsAssumption DEF Reply, Leave, Goto, TypeOK
<1>3. QED BY <1>1, <1>2

LEMMA ErrInit == Init => ErrInv
BY DEF Init, ErrInv

LEMMA ErrNext == TypeOK /\ ErrInv /\ [Next]_vars => ErrInv'
<1> SUFFICES ASSUME TypeOK, ErrInv, [Next]_vars, NEW d \in Calls,
                    pc'[d] \notin {"return", "done"}
             PROVE  err'[d] = Success
  BY DEF ErrInv
<1>1. ASSUME NEW c \in Calls, Step(c) PROVE err'[d] = Success
  <2>1. CASE d /= c
    BY <1>1, <2>1, OthersKeep DEF ErrInv
  <2>2. CASE d = c
    <3>1. ASSUME NEW e \in Results, Reply(c, e) PROVE err'[d] = Success
      BY <2>2, <3>1, ReplyEffect DEF ErrInv
    <3>2. Abort(c) => err'[d] = Success
      BY <2>2, CutEffect
    <3>3. ASSUME NEW e \in {Canceled, DeadlinePassed}, Cut(c, e) \/ CutEarly(c, e)
          PROVE  err'[d] = Success
      BY <2>2, <3>3, CutEffect DEF Breaks
    <3>4. QED
      BY <1>1, <2>2, <3>1, <3>2, <3>3, QuietEffect, RefusalEffect
      DEF Step, ErrInv
  <2>3. QED BY <2>1, <2>2
<1>2. CASE Environment
  BY <1>2 DEF Environment, RefreshRoute, Refill, ResetTimeout, WindowSlides,
     Tick, GoAway, callVars, ErrInv
<1>3. CASE UNCHANGED vars
  BY <1>3 DEF vars, callVars, ErrInv
<1>4. QED BY <1>1, <1>2, <1>3 DEF Next

-----------------------------------------------------------------------------
(* Breakers. *)

(* What policy p's breaker may have counted so far, call by call. *)
OwnEnds(p) == UNION {{c} \X (1..Ends(c)) : c \in {d \in Calls : Policy(d) = p}}

Troubled(p) == \E c \in {d \in Calls : Policy(d) = p} : WentBadly(c)

Isolated(p) ==
  /\ IsFiniteSet(OwnEnds(p))
  /\ window[p].ok + window[p].bad <= Cardinality(OwnEnds(p))
  /\ window[p].bad > 0 => Troubled(p)
  /\ breaker[p] /= "closed" =>
       MinCalls <= Cardinality(OwnEnds(p)) /\ Troubled(p)

IsolationInv == \A p \in Policies : Isolated(p)

LEMMA EndsType ==
  ASSUME TypeOK, NEW c \in Calls PROVE Ends(c) \in Nat /\ Len(results[c]) \in Nat
BY DEF TypeOK, Ends

LEMMA InOwnEnds ==
  ASSUME NEW p, NEW z
  PROVE  z \in OwnEnds(p) <=> \E c \in Calls : /\ Policy(c) = p
                                              /\ \E i \in 1..Ends(c) : z = <<c, i>>
BY DEF OwnEnds

(* The trip condition asks for MinCalls outcomes, one of them bad. *)
LEMMA TripsOnTrouble ==
  ASSUME NEW w \in [ok : Nat, bad : Nat], Trips(w)
  PROVE  w.bad > 0 /\ MinCalls <= w.ok + w.bad
<1>1. w.ok \in Nat /\ w.bad \in Nat /\ MinCalls \in Nat \ {0} /\ FailureRate \in 1..100
  BY PolicyAssumption
<1>2. w.ok + w.bad >= MinCalls /\ 100 * w.bad >= FailureRate * (w.ok + w.bad)
  BY DEF Trips
<1>3. FailureRate * (w.ok + w.bad) > 0
  <2>1. w.ok + w.bad \in Nat /\ w.ok + w.bad > 0 /\ FailureRate > 0
    BY <1>1, <1>2
  <2>2. \A m, n \in Nat : m > 0 /\ n > 0 => m * n > 0
    OBVIOUS
  <2>3. QED BY <1>1, <2>1, <2>2
<1>4. w.bad > 0
  BY <1>1, <1>2, <1>3
<1>5. QED BY <1>1, <1>2, <1>4

(* A call's own step: what its breaker may count only grows, by as much as *)
(* its breaker did count.                                                  *)
LEMMA SelfEnds ==
  ASSUME TypeOK, ErrInv, NEW c \in Calls, Step(c)
  PROVE  /\ Ends(c)' \in Ends(c)..(Ends(c) + 2)
         /\ WentBadly(c) => WentBadly(c)'
         /\ \/ UNCHANGED <<breaker, window>>
            \/ \E e, unit : /\ Count(c, unit, e)
                            /\ Ends(c)' > Ends(c)
                            /\ e /= Success => WentBadly(c)'
<1>a. Ends(c) \in Nat /\ Len(results[c]) \in Nat /\ results[c] \in Seq(AttemptResults)
  BY EndsType DEF TypeOK
<1>b. pc[c] \notin {"return", "done"} => err[c] = Success /\ Ends(c) = Len(results[c])
  <2>1. pc[c] \notin {"return", "done"} => err[c] = Success
    BY DEF ErrInv
  <2>2. err[c] = Success => err[c] \notin Breaks
    BY ErrorsDiffer
  <2>3. err[c] \notin Breaks => Ends(c) = Len(results[c]) + 0
    BY DEF Ends, Breaks
  <2>4. QED BY <1>a, <2>1, <2>2, <2>3
<1>1. ASSUME \/ FallThrough(c) \/ Arrive(c) \/ ResolveHit(c) \/ ResolveMiss(c)
             \/ ListReply(c) \/ ListFail(c) \/ Admit(c) \/ Send(c)
             \/ BackoffOver(c) \/ Return(c) \/ Shed(c) \/ Refuse(c)
      PROVE  /\ Ends(c)' = Ends(c) /\ (WentBadly(c) => WentBadly(c)')
             /\ UNCHANGED <<breaker, window>>
  <2>1. /\ UNCHANGED <<results, breaker, window>>
        /\ \/ err'[c] = err[c]
           \/ pc[c] \notin {"return", "done"}
              /\ err'[c] \in {InvalidParams, RateLimited, CircuitOpen}
    BY <1>1, QuietEffect, RefusalEffect
  <2>2. (err'[c] \in Breaks) = (err[c] \in Breaks)
    BY <1>b, <2>1, ErrorsDiffer
  <2>3. QED BY <2>1, <2>2 DEF Ends, WentBadly, Breaks
<1>2. ASSUME NEW e, \/ Abort(c) /\ e = DeadlinePassed
                    \/ e \in Breaks /\ (Cut(c, e) \/ CutEarly(c, e))
      PROVE  /\ Ends(c)' = Ends(c) + 1 /\ WentBadly(c)'
             /\ Count(c, "call", e) \/ UNCHANGED <<breaker, window>>
  <2>1. /\ UNCHANGED results /\ err'[c] \in Breaks
        /\ Count(c, "call", e) \/ UNCHANGED <<breaker, window>>
        /\ pc[c] \notin {"return", "done"}
    BY <1>2, CutEffect
  <2>2. Ends(c)' = Len(results[c]) + 1
    BY <2>1 DEF Ends, Breaks
  <2>3. QED BY <1>b, <2>1, <2>2 DEF WentBadly, Breaks
<1>3. ASSUME NEW e \in Results, Reply(c, e)
      PROVE  /\ Ends(c)' \in {Ends(c) + 1, Ends(c) + 2}
             /\ WentBadly(c) => WentBadly(c)'
             /\ e /= Success => WentBadly(c)'
             /\ \E unit : Count(c, unit, e)
  <2> DEFINE n == Len(results[c])
  <2>1. /\ results'[c] = Append(results[c], e) /\ e \in AttemptResults
        /\ \E unit : Count(c, unit, e)
        /\ pc[c] = "waiting"
    BY <1>3, ReplyEffect DEF TypeOK
  <2>2. /\ Len(results'[c]) = n + 1 /\ results'[c][n + 1] = e /\ n \in Nat
        /\ \A i \in 1..n : results'[c][i] = results[c][i]
    BY <1>a, <2>1
  <2> HIDE DEF n
  <2>3. Ends(c) = n
    BY <1>b, <2>1 DEF n
  <2>4. Ends(c)' \in {n + 1, n + 2}
    BY <2>2 DEF Ends
  <2>5. e /= Success => WentBadly(c)'
    BY <2>2 DEF WentBadly
  <2>6. WentBadly(c) => WentBadly(c)'
    <3>1. ASSUME WentBadly(c)
          PROVE  \E i \in 1..n : results[c][i] /= Success
      BY <1>b, <2>1, <3>1, ErrorsDiffer DEF WentBadly, Breaks, n
    <3>2. \A i \in 1..n : i \in 1..(n + 1)
      BY <2>2
    <3>3. QED BY <2>2, <3>1, <3>2 DEF WentBadly
  <2>7. QED BY <2>1, <2>3, <2>4, <2>5, <2>6
<1>4. CASE \E e \in {Canceled, DeadlinePassed} : Cut(c, e) \/ CutEarly(c, e)
  <2>1. PICK e \in Breaks : Cut(c, e) \/ CutEarly(c, e)
    BY <1>4 DEF Breaks
  <2>2. QED BY <1>a, <1>2, <2>1
<1>5. CASE Abort(c)
  <2>1. /\ Ends(c)' = Ends(c) + 1 /\ WentBadly(c)'
        /\ Count(c, "call", DeadlinePassed) \/ UNCHANGED <<breaker, window>>
    BY <1>2, <1>5
  <2>2. QED BY <1>a, <2>1
<1>6. CASE \E e \in Results : Reply(c, e)
  <2>1. PICK e \in Results : Reply(c, e)
    BY <1>6
  <2>2. QED BY <1>a, <1>3, <2>1
<1>7. QED
  BY <1>a, <1>1, <1>4, <1>5, <1>6 DEF Step

(* A breaker that counted an outcome of its own call stays isolated. *)
LEMMA ObserveIsolated ==
  ASSUME TypeOK, NEW p \in Policies, Isolated(p), NEW e, Observe(p, e),
         NEW n \in Nat, NEW m \in Nat, n = Cardinality(OwnEnds(p)), m >= n + 1,
         Troubled(p) => Troubled(p)',
         e /= Success => Troubled(p)'
  PROVE  /\ window'[p].ok + window'[p].bad <= m
         /\ window'[p].bad > 0 => Troubled(p)'
         /\ breaker'[p] /= "closed" => MinCalls <= m /\ Troubled(p)'
<1> DEFINE seen == IF e = Success THEN [window[p] EXCEPT !.ok = @ + 1]
                                  ELSE [window[p] EXCEPT !.bad = @ + 1]
<1>1. /\ window[p] \in [ok : Nat, bad : Nat] /\ MinCalls \in Nat
      /\ breaker[p] \in {"closed", "open", "half_open"}
      /\ breaker \in [Policies -> {"closed", "open", "half_open"}]
      /\ window \in [Policies -> [ok : Nat, bad : Nat]]
  BY PolicyAssumption DEF TypeOK
<1>2. /\ seen \in [ok : Nat, bad : Nat]
      /\ seen.ok + seen.bad = window[p].ok + window[p].bad + 1
      /\ seen.bad > 0 => window[p].bad > 0 \/ e /= Success
  BY <1>1
<1>3. /\ window[p].ok + window[p].bad <= n
      /\ window[p].bad > 0 => Troubled(p)
      /\ breaker[p] /= "closed" => MinCalls <= n /\ Troubled(p)
  BY DEF Isolated
<1>4. \/ /\ breaker[p] = "closed" /\ ~Trips(seen)
         /\ window' = [window EXCEPT ![p] = seen] /\ breaker' = breaker
      \/ /\ breaker[p] = "closed" /\ Trips(seen)
         /\ breaker' = [breaker EXCEPT ![p] = "open"]
         /\ window' = [window EXCEPT ![p] = EmptyWindow]
      \/ breaker[p] /= "closed" /\ window' = window
  BY DEF Observe, breakerVars
<1> HIDE DEF seen
<1>5. CASE breaker[p] = "closed" /\ ~Trips(seen)
  <2>1. window'[p] = seen /\ breaker'[p] = "closed"
    BY <1>1, <1>4, <1>5
  <2>2. seen.ok + seen.bad <= m
    BY <1>1, <1>2, <1>3
  <2>3. QED BY <1>2, <1>3, <2>1, <2>2
<1>6. CASE breaker[p] = "closed" /\ Trips(seen)
  <2>1. window'[p] = EmptyWindow
    BY <1>1, <1>4, <1>6
  <2>2. window'[p].ok = 0 /\ window'[p].bad = 0
    BY <2>1 DEF EmptyWindow
  <2>3. seen.bad > 0 /\ MinCalls <= seen.ok + seen.bad
    BY <1>2, <1>6, TripsOnTrouble
  <2>4. MinCalls <= m
    BY <1>1, <1>2, <1>3, <2>3
  <2>5. QED BY <1>2, <1>3, <2>2, <2>3, <2>4
<1>7. CASE breaker[p] /= "closed"
  <2>1. window'[p] = window[p] /\ MinCalls <= m
    BY <1>1, <1>3, <1>4, <1>7
  <2>2. window[p].ok + window[p].bad <= m
    BY <1>1, <1>3
  <2>3. QED BY <1>3, <1>7, <2>1, <2>2
<1>8. QED BY <1>5, <1>6, <1>7

LEMMA StepIsolated ==
  ASSUME TypeOK, TypeOK', ErrInv, IsolationInv, NEW c \in Calls, Step(c),
         NEW p \in Policies
  PROVE  Isolated(p)'
<1>1. /\ UNCHANGED tool
      /\ \A d \in Calls : d /= c => Ends(d)' = Ends(d) /\ WentBadly(d)' = WentBadly(d)
      /\ \A d \in Calls : Policy(d)' = Policy(d)
  <2>1. UNCHANGED tool
    BY PreparingEffect, RunningEffect DEF Step, Admit, Return
  <2>2. \A d \in Calls : d /= c => results'[d] = results[d] /\ err'[d] = err[d]
    BY OthersKeep
  <2>3. QED BY <2>1, <2>2 DEF Ends, WentBadly, Policy
<1>2. /\ Ends(c)' \in Ends(c)..(Ends(c) + 2) /\ Ends(c) \in Nat
      /\ WentBadly(c) => WentBadly(c)'
  BY SelfEnds, EndsType
<1>3. Troubled(p) => Troubled(p)'
  BY <1>1, <1>2 DEF Troubled
<1> DEFINE x == <<c, Ends(c) + 1>>
           y == <<c, Ends(c) + 2>>
<1>4. OwnEnds(p) \subseteq OwnEnds(p)'
  <2> SUFFICES ASSUME NEW d \in Calls, Policy(d) = p, NEW i \in 1..Ends(d)
               PROVE  i \in 1..Ends(d)'
    BY <1>1, InOwnEnds DEF OwnEnds
  <2>1. CASE d = c
    <3>1. Ends(d) = Ends(c) /\ Ends(d)' = Ends(c)'
      BY <2>1 DEF Ends
    <3>2. QED BY <1>2, <3>1
  <2>2. CASE d /= c
    BY <1>1, <2>2
  <2>3. QED BY <2>1, <2>2
<1>5. OwnEnds(p)' \subseteq (OwnEnds(p) \cup {x}) \cup {y}
  <2> SUFFICES ASSUME NEW d \in Calls, Policy(d) = p, NEW i \in 1..Ends(d)'
               PROVE  i \in 1..Ends(d) \/ <<d, i>> \in {x, y}
    BY <1>1, InOwnEnds DEF OwnEnds
  <2>1. CASE d = c
    <3>1. Ends(d) = Ends(c) /\ Ends(d)' = Ends(c)'
      BY <2>1 DEF Ends
    <3>2. i \in 1..Ends(c) \/ i = Ends(c) + 1 \/ i = Ends(c) + 2
      BY <1>2, <3>1
    <3>3. QED BY <2>1, <3>1, <3>2
  <2>2. CASE d /= c
    BY <1>1, <2>2
  <2>3. QED BY <2>1, <2>2
<1>6. x \notin OwnEnds(p)
  BY <1>2, InOwnEnds
<1>7. ASSUME Ends(c)' > Ends(c), p = Policy(c) PROVE x \in OwnEnds(p)'
  <2>1. Ends(c) + 1 \in 1..Ends(c)'
    BY <1>2, <1>7
  <2>2. QED BY <1>1, <1>7, <2>1 DEF OwnEnds
<1> HIDE DEF x, y
<1> DEFINE n == Cardinality(OwnEnds(p))
           m == Cardinality(OwnEnds(p)')
<1>8. /\ IsFiniteSet(OwnEnds(p)') /\ n \in Nat /\ m \in Nat /\ n <= m
      /\ x \in OwnEnds(p)' => n + 1 <= m
  <2>1. IsFiniteSet(OwnEnds(p))
    BY DEF IsolationInv, Isolated
  <2>2. QED BY <1>4, <1>5, <1>6, <2>1, Growth
<1> HIDE DEF n, m
<1>9. Isolated(p)
  BY DEF IsolationInv
<1>10. /\ window'[p].ok + window'[p].bad <= m
       /\ window'[p].bad > 0 => Troubled(p)'
       /\ breaker'[p] /= "closed" => MinCalls <= m /\ Troubled(p)'
  <2>1. CASE window'[p] = window[p] /\ breaker'[p] = breaker[p]
    <3>1. /\ window[p].ok + window[p].bad <= n
          /\ window[p].bad > 0 => Troubled(p)
          /\ breaker[p] /= "closed" => MinCalls <= n /\ Troubled(p)
      BY <1>9 DEF Isolated, n
    <3>2. window[p].ok \in Nat /\ window[p].bad \in Nat /\ MinCalls \in Nat
      BY PolicyAssumption DEF TypeOK
    <3>3. QED BY <1>3, <1>8, <2>1, <3>1, <3>2
  <2>2. ASSUME NEW e, NEW unit, Count(c, unit, e), Ends(c)' > Ends(c),
               e /= Success => WentBadly(c)', 
               ~(window'[p] = window[p] /\ breaker'[p] = breaker[p])
        PROVE  /\ window'[p].ok + window'[p].bad <= m
               /\ window'[p].bad > 0 => Troubled(p)'
               /\ breaker'[p] /= "closed" => MinCalls <= m /\ Troubled(p)'
    <3>1. Policy(c) = p /\ Observe(p, e)
      <4>1. Policy(c) \in HasBreaker /\ Observe(Policy(c), e)
        BY <2>2, SMTT(30) DEF Count, breakerVars
      <4>2. p /= Policy(c) => window'[p] = window[p] /\ breaker'[p] = breaker[p]
        <5>1. DOMAIN window = Policies /\ DOMAIN breaker = Policies
          BY DEF TypeOK
        <5>2. QED BY <4>1, <5>1, SMTT(30) DEF Observe, breakerVars
      <4>3. QED BY <2>2, <4>1, <4>2
    <3>2. e /= Success => Troubled(p)'
      BY <1>1, <2>2, <3>1 DEF Troubled
    <3>3. n + 1 <= m
      BY <1>7, <1>8, <2>2, <3>1
    <3>4. QED BY <1>3, <1>8, <1>9, <3>1, <3>2, <3>3, ObserveIsolated DEF n
  <2>3. QED BY <2>1, <2>2, SelfEnds
<1>11. QED BY <1>8, <1>10 DEF Isolated, m

LEMMA IsolationInit == Init => IsolationInv
<1> SUFFICES ASSUME Init, NEW p \in Policies PROVE Isolated(p)
  BY DEF IsolationInv
<1>1. \A c \in Calls : Ends(c) = 0
  BY ErrorsDiffer DEF Init, Ends, Breaks
<1>2. OwnEnds(p) = {}
  BY <1>1, InOwnEnds
<1>3. window[p].ok = 0 /\ window[p].bad = 0 /\ breaker[p] = "closed"
  BY DEF Init, EmptyWindow
<1>4. QED BY <1>2, <1>3, FS_EmptySet DEF Isolated

LEMMA IsolationNext ==
  TypeOK /\ TypeOK' /\ ErrInv /\ IsolationInv /\ [Next]_vars => IsolationInv'
<1> SUFFICES ASSUME TypeOK, TypeOK', ErrInv, IsolationInv, [Next]_vars,
                    NEW p \in Policies
             PROVE  Isolated(p)'
  BY DEF IsolationInv
<1>1. ASSUME UNCHANGED <<tool, results, err>>
      PROVE  OwnEnds(p)' = OwnEnds(p) /\ Troubled(p)' = Troubled(p)
  BY <1>1 DEF OwnEnds, Troubled, Ends, WentBadly, Policy
<1>2. CASE Environment \/ UNCHANGED vars
  <2>1. UNCHANGED <<tool, results, err>>
    BY <1>2 DEF Environment, RefreshRoute, Refill, ResetTimeout, WindowSlides,
       Tick, GoAway, vars, callVars
  <2>2. Isolated(p)
    BY DEF IsolationInv
  <2>3. /\ window'[p].ok + window'[p].bad <= window[p].ok + window[p].bad
        /\ window'[p].bad > 0 => window[p].bad > 0
        /\ breaker'[p] /= "closed" => breaker[p] /= "closed"
    <3>1. /\ window[p].ok \in Nat /\ window[p].bad \in Nat
          /\ window \in [Policies -> [ok : Nat, bad : Nat]]
          /\ breaker \in [Policies -> {"closed", "open", "half_open"}]
      BY DEF TypeOK
    <3>2. ASSUME NEW r \in Policies, WindowSlides(r)
          PROVE  /\ breaker' = breaker
                 /\ window'[p].ok <= window[p].ok /\ window'[p].bad <= window[p].bad
                 /\ window'[p].ok \in Nat /\ window'[p].bad \in Nat
      <4>1. PICK ok \in 0..window[r].ok, bad \in 0..window[r].bad :
              window' = [window EXCEPT ![r] = [ok |-> ok, bad |-> bad]]
        BY <3>2 DEF WindowSlides
      <4> DEFINE w == [ok |-> ok, bad |-> bad]
      <4>a. window' = [window EXCEPT ![r] = w]
        BY <4>1
      <4>b. w.ok = ok /\ w.bad = bad
        OBVIOUS
      <4> HIDE DEF w
      <4>2. window'[p] = window[p] \/ (p = r /\ window'[p] = w)
        <5>1. window \in [Policies -> [ok : Nat, bad : Nat]]
          BY <3>1
        <5>2. QED BY <4>a, <5>1, Except
      <4>3. window[r].ok \in Nat /\ window[r].bad \in Nat
        BY <3>1
      <4>4. QED BY <3>1, <3>2, <4>b, <4>2, <4>3 DEF WindowSlides
    <3>3. ASSUME NEW r \in Policies, ResetTimeout(r)
          PROVE  window' = window /\ (breaker'[p] /= "closed" => breaker[p] /= "closed")
      BY <3>1, <3>3 DEF ResetTimeout
    <3>4. QED
      BY <1>2, <3>1, <3>2, <3>3
      DEF Environment, RefreshRoute, Refill, Tick, GoAway, vars, breakerVars
  <2>4. /\ window[p].ok \in Nat /\ window[p].bad \in Nat
        /\ window'[p].ok \in Nat /\ window'[p].bad \in Nat
    BY DEF TypeOK
  <2>5. Cardinality(OwnEnds(p)) \in Nat
    BY <2>2, FS_CardinalityType DEF Isolated
  <2>6. QED BY <1>1, <2>1, <2>2, <2>3, <2>4, <2>5 DEF Isolated
<1>3. QED BY <1>2, StepIsolated DEF Next

(* However many policies, calls and tools there are, only what happened to *)
(* calls of its own policy makes a breaker leave closed.                   *)
THEOREM BreakersAreIsolated == Spec => []BreakerIsolation
<1>1. IsolationInv => BreakerIsolation
  <2> SUFFICES ASSUME IsolationInv, NEW p \in Policies, breaker[p] /= "closed"
               PROVE  Cardinality(OwnEnds(p)) >= MinCalls /\ Troubled(p)
    BY DEF BreakerIsolation, OwnEnds, Troubled
  <2>1. /\ MinCalls <= Cardinality(OwnEnds(p)) /\ Troubled(p)
        /\ IsFiniteSet(OwnEnds(p))
    BY DEF IsolationInv, Isolated
  <2>2. Cardinality(OwnEnds(p)) \in Nat /\ MinCalls \in Nat
    BY <2>1, FS_CardinalityType, PolicyAssumption
  <2>3. QED BY <2>1, <2>2
<1>2. QED
  BY <1>1, TypeInit, TypeNext, ErrInit, ErrNext, IsolationInit, IsolationNext,
     PTL DEF Spec
-----------------------------------------------------------------------------
(* Metrics. *)

(* The calls counted under outcome o, and those the limiter turned away. *)
Tallied(o) == {c \in Calls : pc[c] = "done" /\ Routed(tool[c]) /\ outcome[c] = o}
TurnedAway == {c \in Calls : err[c] = RateLimited}

(* A label is there once the call is done, and only if it had a route. *)
LabelInv ==
  \A c \in Calls :
    /\ pc[c] /= "done" => outcome[c] = "none"
    /\ pc[c] = "done" => (outcome[c] \in Outcomes <=> Routed(tool[c]))

RequestsAdd == \A o \in Outcomes : requests[o] = Cardinality(Tallied(o))
RejectionsAdd == rejections = Cardinality(TurnedAway)
RetriesAdd ==
  /\ IsFiniteSet(AttemptsFrom(2))
  /\ retries - Cardinality(AttemptsFrom(2)) \in 0..Cardinality(CutShort)

LEMMA Finite ==
  /\ \A o : IsFiniteSet(Tallied(o)) /\ Cardinality(Tallied(o)) \in Nat
  /\ IsFiniteSet(TurnedAway) /\ Cardinality(TurnedAway) \in Nat
  /\ IsFiniteSet(CutShort) /\ Cardinality(CutShort) \in Nat
<1>1. \A S \in SUBSET Calls : IsFiniteSet(S) /\ Cardinality(S) \in Nat
  BY ToolsAssumption, FS_Subset, FS_CardinalityType
<1>2. /\ \A o : Tallied(o) \in SUBSET Calls
      /\ TurnedAway \in SUBSET Calls /\ CutShort \in SUBSET Calls
  BY DEF Tallied, TurnedAway, CutShort
<1>3. QED BY <1>1, <1>2

LEMMA NoLabel == "none" \notin Outcomes
BY DEF Outcomes

(* Only callTool's last step labels and tallies a call. *)
LEMMA OthersKeepBooks ==
  ASSUME TypeOK, NEW c \in Calls, Step(c), ~Return(c)
  PROVE  /\ UNCHANGED <<outcome, requests, tool>>
         /\ pc[c] /= "done"
         /\ pc'[c] = "done" => ~Routed(tool[c])
<1>1. ASSUME \/ FallThrough(c) \/ Arrive(c) \/ ResolveHit(c) \/ ResolveMiss(c)
             \/ ListReply(c) \/ ListFail(c) \/ Admit(c) \/ Send(c)
             \/ BackoffOver(c)
      PROVE  /\ UNCHANGED <<outcome, requests, tool>>
             /\ pc[c] /= "done" /\ (pc'[c] = "done" => ~Routed(tool[c]))
  BY <1>1 DEF FallThrough, Arrive, ResolveHit, ResolveMiss, ListReply, ListFail,
     Admit, Send, BackoffOver, Validate, Leave, Goto, TypeOK, metricVars
<1>2. ASSUME \/ Shed(c) \/ Refuse(c) \/ Abort(c)
             \/ \E e \in Results : Reply(c, e)
             \/ \E e \in {Canceled, DeadlinePassed} : Cut(c, e) \/ CutEarly(c, e)
      PROVE  /\ UNCHANGED <<outcome, requests, tool>>
             /\ pc[c] /= "done" /\ pc'[c] /= "done"
  BY <1>2 DEF Shed, Refuse, Abort, Reply, Cut, CutEarly, Leave, Goto, TypeOK,
     metricVars
<1>3. QED BY <1>1, <1>2 DEF Step

LEMMA ReturnBooks ==
  ASSUME TypeOK, NEW c \in Calls, Return(c)
  PROVE  \E o \in Outcomes :
           /\ outcome' = [outcome EXCEPT ![c] = o]
           /\ requests' = [requests EXCEPT ![o] = requests[o] + 1]
           /\ pc' = [pc EXCEPT ![c] = "done"] /\ pc[c] = "return"
           /\ UNCHANGED tool
<1> DEFINE a == MapResilienceError(err[c])
<1> DEFINE o == OutcomeForError(a)
<1>1. a \in Answers /\ o \in Outcomes
  BY MappingTypes DEF TypeOK
<1>2. answer'[c] = a
  BY DEF Return, TypeOK
<1>3. outcome' = [outcome EXCEPT ![c] = o] /\ outcome'[c] = o
  BY <1>2 DEF Return, TypeOK
<1>4. requests' = [requests EXCEPT ![o] = requests[o] + 1]
  BY <1>3 DEF Return
<1> HIDE DEF a, o
<1>5. QED BY <1>1, <1>3, <1>4 DEF Return, Goto

LEMMA LabelInit == Init => LabelInv
BY DEF Init, LabelInv

LEMMA LabelNext == TypeOK /\ CauseInv /\ LabelInv /\ [Next]_vars => LabelInv'
<1> SUFFICES ASSUME TypeOK, CauseInv, LabelInv, [Next]_vars, NEW d \in Calls
             PROVE  /\ pc'[d] /= "done" => outcome'[d] = "none"
                    /\ pc'[d] = "done" =>
                         (outcome'[d] \in Outcomes <=> Routed(tool'[d]))
  BY DEF LabelInv, Routed
<1>1. /\ pc[d] /= "done" => outcome[d] = "none"
      /\ pc[d] = "done" => (outcome[d] \in Outcomes <=> Routed(tool[d]))
  BY DEF LabelInv
<1>2. ASSUME NEW c \in Calls, Step(c)
      PROVE  /\ pc'[d] /= "done" => outcome'[d] = "none"
             /\ pc'[d] = "done" =>
                  (outcome'[d] \in Outcomes <=> Routed(tool'[d]))
  <2>1. CASE Return(c)
    <3>1. PICK o \in Outcomes : /\ outcome' = [outcome EXCEPT ![c] = o]
                                /\ pc' = [pc EXCEPT ![c] = "done"]
                                /\ pc[c] = "return" /\ UNCHANGED tool
      BY <2>1, ReturnBooks
    <3>2. CASE d = c
      <4>1. outcome'[d] = o /\ pc'[d] = "done"
        BY <3>1, <3>2 DEF TypeOK
      <4>2. Routed(tool[d])
        BY <3>1, <3>2 DEF CauseInv, Caused
      <4>3. QED BY <3>1, <4>1, <4>2
    <3>3. CASE d /= c
      <4>1. outcome'[d] = outcome[d] /\ pc'[d] = pc[d]
        BY <3>1, <3>3 DEF TypeOK
      <4>2. QED BY <1>1, <3>1, <4>1
    <3>4. QED BY <3>2, <3>3
  <2>2. CASE ~Return(c)
    <3>1. /\ UNCHANGED <<outcome, tool>> /\ pc[c] /= "done"
          /\ pc'[c] = "done" => ~Routed(tool[c])
      BY <1>2, <2>2, OthersKeepBooks
    <3>2. d /= c => pc'[d] = pc[d]
      BY <1>2, OthersKeep
    <3>3. QED BY <1>1, <3>1, <3>2, NoLabel
  <2>3. QED BY <2>1, <2>2
<1>3. CASE Environment \/ UNCHANGED vars
  <2>1. UNCHANGED <<pc, tool, outcome>>
    BY <1>3 DEF Environment, RefreshRoute, Refill, ResetTimeout, WindowSlides,
       Tick, GoAway, vars, callVars
  <2>2. QED BY <1>1, <2>1
<1>4. QED BY <1>2, <1>3 DEF Next

LEMMA RequestsNext ==
  TypeOK /\ CauseInv /\ LabelInv /\ RequestsAdd /\ [Next]_vars => RequestsAdd'
<1> SUFFICES ASSUME TypeOK, CauseInv, LabelInv, RequestsAdd, [Next]_vars,
                    NEW o \in Outcomes
             PROVE  requests'[o] = Cardinality(Tallied(o)')
  BY DEF RequestsAdd
<1>1. requests[o] = Cardinality(Tallied(o)) /\ IsFiniteSet(Tallied(o))
  BY Finite DEF RequestsAdd
<1>2. ASSUME NEW c \in Calls, Return(c)
      PROVE  requests'[o] = Cardinality(Tallied(o)')
  <2>1. PICK q \in Outcomes :
           /\ outcome' = [outcome EXCEPT ![c] = q]
           /\ requests' = [requests EXCEPT ![q] = requests[q] + 1]
           /\ pc' = [pc EXCEPT ![c] = "done"] /\ pc[c] = "return"
           /\ UNCHANGED tool
    BY <1>2, ReturnBooks
  <2>2. Routed(tool[c]) /\ c \notin Tallied(o)
    BY <2>1 DEF CauseInv, Caused, Tallied
  <2>3. CASE q = o
    <3>1. Tallied(o)' = Tallied(o) \cup {c}
      BY <2>1, <2>2, <2>3 DEF Tallied, TypeOK, Routed
    <3>2. requests'[o] = requests[o] + 1
      BY <2>1, <2>3 DEF TypeOK
    <3>3. QED BY <1>1, <2>2, <3>1, <3>2, FS_AddElement
  <2>4. CASE q /= o
    <3>1. Tallied(o)' = Tallied(o)
      BY <2>1, <2>2, <2>4 DEF Tallied, TypeOK, Routed
    <3>2. requests'[o] = requests[o]
      BY <2>1, <2>4 DEF TypeOK
    <3>3. QED BY <1>1, <3>1, <3>2
  <2>5. QED BY <2>3, <2>4
<1>3. ASSUME NEW c \in Calls, Step(c), ~Return(c)
      PROVE  requests'[o] = Cardinality(Tallied(o)')
  <2>1. /\ UNCHANGED <<outcome, requests, tool>> /\ pc[c] /= "done"
        /\ pc'[c] = "done" => ~Routed(tool[c])
    BY <1>3, OthersKeepBooks
  <2>2. \A d \in Calls : d /= c => pc'[d] = pc[d]
    BY <1>3, OthersKeep
  <2>3. Tallied(o)' = Tallied(o)
    BY <2>1, <2>2 DEF Tallied, Routed
  <2>4. QED BY <1>1, <2>1, <2>3
<1>4. CASE Environment \/ UNCHANGED vars
  <2>1. UNCHANGED <<pc, tool, outcome, requests>>
    BY <1>4 DEF Environment, RefreshRoute, Refill, ResetTimeout, WindowSlides,
       Tick, GoAway, vars, callVars, metricVars
  <2>2. QED BY <1>1, <2>1 DEF Tallied, Routed
<1>5. QED BY <1>2, <1>3, <1>4 DEF Next

LEMMA RejectionsNext ==
  TypeOK /\ ErrInv /\ RejectionsAdd /\ [Next]_vars => RejectionsAdd'
<1> SUFFICES ASSUME TypeOK, ErrInv, RejectionsAdd, [Next]_vars
             PROVE  rejections' = Cardinality(TurnedAway')
  BY DEF RejectionsAdd
<1>1. rejections = Cardinality(TurnedAway) /\ IsFiniteSet(TurnedAway)
  BY Finite DEF RejectionsAdd
<1>2. ASSUME NEW c \in Calls, Step(c) PROVE rejections' = Cardinality(TurnedAway')
  <2>1. \A d \in Calls : d /= c => err'[d] = err[d]
    BY <1>2, OthersKeep
  <2>2. pc[c] \notin {"return", "done"} => err[c] /= RateLimited
    BY ErrorsDiffer DEF ErrInv
  <2>3. CASE Shed(c)
    <3>1. /\ err'[c] = RateLimited /\ rejections' = rejections + 1
          /\ c \notin TurnedAway
      BY <2>2, <2>3, RefusalEffect DEF TurnedAway
    <3>2. TurnedAway' = TurnedAway \cup {c}
      BY <2>1, <3>1 DEF TurnedAway
    <3>3. QED BY <1>1, <3>1, <3>2, FS_AddElement
  <2>4. ASSUME rejections' = rejections,
               (err'[c] = RateLimited) = (err[c] = RateLimited)
        PROVE  rejections' = Cardinality(TurnedAway')
    BY <1>1, <2>1, <2>4 DEF TurnedAway
  <2>5. CASE Refuse(c)
    BY <2>2, <2>4, <2>5, RefusalEffect, ErrorsDiffer
  <2>6. CASE \E e \in Results : Reply(c, e)
    BY <2>2, <2>4, <2>6, ReplyEffect, ErrorsDiffer
  <2>7. CASE Abort(c)
    <3>1. rejections' = rejections /\ err'[c] \in Breaks /\ pc[c] \notin {"return", "done"}
      BY <2>7, CutEffect
    <3>2. QED BY <2>2, <2>4, <3>1, ErrorsDiffer
  <2>8. CASE \E e \in {Canceled, DeadlinePassed} : Cut(c, e) \/ CutEarly(c, e)
    <3>1. rejections' = rejections /\ err'[c] \in Breaks /\ pc[c] \notin {"return", "done"}
      BY <2>8, CutEffect DEF Breaks
    <3>2. QED BY <2>2, <2>4, <3>1, ErrorsDiffer
  <2>9. CASE \/ FallThrough(c) \/ Arrive(c) \/ ResolveHit(c) \/ ResolveMiss(c)
             \/ ListReply(c) \/ ListFail(c) \/ Admit(c) \/ Send(c)
             \/ BackoffOver(c) \/ Return(c)
    BY <2>2, <2>4, <2>9, QuietEffect, ErrorsDiffer
  <2>10. QED
    BY <1>2, <2>3, <2>5, <2>6, <2>7, <2>8, <2>9 DEF Step
<1>3. CASE Environment \/ UNCHANGED vars
  <2>1. UNCHANGED <<err, rejections>>
    BY <1>3 DEF Environment, RefreshRoute, Refill, ResetTimeout, WindowSlides,
       Tick, GoAway, vars, callVars, metricVars
  <2>2. QED BY <1>1, <2>1 DEF TurnedAway
<1>4. QED BY <1>2, <1>3 DEF Next

LEMMA InAttempts ==
  ASSUME NEW z
  PROVE  /\ z \in AttemptsFrom(2) <=>
              \E c \in Calls : \E i \in 2..Len(results[c]) : z = <<c, i>>
         /\ z \in AttemptsFrom(2)' <=>
              \E c \in Calls : \E i \in 2..Len(results'[c]) : z = <<c, i>>
BY DEF AttemptsFrom

(* One more attempt of a call that had one already is one more retry. *)
LEMMA ReplyRetries ==
  ASSUME TypeOK, NEW c \in Calls, NEW e,
         results' = [results EXCEPT ![c] = Append(@, e)],
         AfterAttempt(c), IsFiniteSet(AttemptsFrom(2)), e \in AttemptResults
  PROVE  /\ IsFiniteSet(AttemptsFrom(2)')
         /\ Cardinality(AttemptsFrom(2)) \in Nat
         /\ Cardinality(AttemptsFrom(2)') \in Nat
         /\ retries' - Cardinality(AttemptsFrom(2)')
              = retries - Cardinality(AttemptsFrom(2))
<1> DEFINE n == Len(results[c])
           x == <<c, n + 1>>
           S == AttemptsFrom(2)
           T == AttemptsFrom(2)'
<1>1. /\ n \in Nat /\ Len(results'[c]) = n + 1 /\ (results[c] = <<>> <=> n = 0)
      /\ \A d \in Calls : d /= c => results'[d] = results[d]
  <2>1. results[c] \in Seq(AttemptResults) /\ results'[c] = Append(results[c], e)
    BY DEF TypeOK
  <2>2. \A d \in Calls : d /= c => results'[d] = results[d]
    BY DEF TypeOK
  <2>3. QED BY <2>1, <2>2
<1>2. retries \in Nat /\ Cardinality(S) \in Nat
  BY FS_CardinalityType DEF TypeOK
<1>3. retries' = retries + IF n = 0 THEN 0 ELSE 1
  BY <1>1 DEF AfterAttempt
<1>4. x \notin S
  BY <1>1, InAttempts
<1>5. T = IF n = 0 THEN S ELSE S \cup {x}
  <2>1. \A i : i \in 2..(n + 1) <=> i \in 2..n \/ (n /= 0 /\ i = n + 1)
    BY <1>1
  <2>2. ASSUME NEW z PROVE z \in T <=> z \in S \/ (n /= 0 /\ z = x)
    <3>1. ASSUME z \in T PROVE z \in S \/ (n /= 0 /\ z = x)
      <4>a. PICK d \in Calls : \E i \in 2..Len(results'[d]) : z = <<d, i>>
        BY <3>1, InAttempts
      <4>1. PICK i \in 2..Len(results'[d]) : z = <<d, i>>
        BY <4>a
      <4>2. CASE d = c
        <5>1. i \in 2..(n + 1)
          BY <1>1, <4>2
        <5>2. i \in 2..n \/ (n /= 0 /\ i = n + 1)
          BY <2>1, <5>1
        <5>3. i \in 2..n => z \in S
          BY <4>1, <4>2, InAttempts
        <5>4. QED BY <4>1, <4>2, <5>2, <5>3
      <4>3. CASE d /= c
        BY <1>1, <4>1, <4>3, InAttempts
      <4>4. QED BY <4>2, <4>3
    <3>2. ASSUME z \in S PROVE z \in T
      <4>a. PICK d \in Calls : \E i \in 2..Len(results[d]) : z = <<d, i>>
        BY <3>2, InAttempts
      <4>1. PICK i \in 2..Len(results[d]) : z = <<d, i>>
        BY <4>a
      <4>2. i \in 2..Len(results'[d])
        BY <1>1, <4>1
      <4>3. QED BY <4>1, <4>2, InAttempts
    <3>3. ASSUME n /= 0 /\ z = x PROVE z \in T
      <4>1. n + 1 \in 2..Len(results'[c])
        BY <1>1, <3>3
      <4>2. QED BY <3>3, <4>1, InAttempts
    <3>4. QED BY <3>1, <3>2, <3>3
  <2> HIDE DEF S, T, x, n
  <2>3. QED BY <2>2
<1> HIDE DEF n, x, S, T
<1>6. CASE n = 0
  BY <1>2, <1>3, <1>5, <1>6 DEF S, T
<1>7. CASE n /= 0
  <2>1. /\ IsFiniteSet(S \cup {x}) /\ Cardinality(S \cup {x}) = Cardinality(S) + 1
    BY <1>4, FS_AddElement DEF S
  <2>2. retries' = retries + 1 /\ T = S \cup {x}
    BY <1>3, <1>5, <1>7
  <2>3. retries' - Cardinality(T) = retries - Cardinality(S)
    BY <1>2, <2>1, <2>2
  <2>4. IsFiniteSet(T) /\ Cardinality(T) \in Nat
    BY <1>2, <2>1, <2>2
  <2>5. QED BY <1>2, <2>3, <2>4 DEF S, T
<1>8. QED BY <1>6, <1>7

LEMMA RetriesNext ==
  TypeOK /\ ErrInv /\ RetriesAdd /\ [Next]_vars => RetriesAdd'
<1> SUFFICES ASSUME TypeOK, ErrInv, RetriesAdd, [Next]_vars PROVE RetriesAdd'
  OBVIOUS
<1> DEFINE Gap == retries - Cardinality(AttemptsFrom(2))
<1>1. /\ IsFiniteSet(AttemptsFrom(2)) /\ Gap \in 0..Cardinality(CutShort)
      /\ retries \in Nat /\ Cardinality(AttemptsFrom(2)) \in Nat
      /\ IsFiniteSet(CutShort) /\ Cardinality(CutShort) \in Nat
  BY Finite, FS_CardinalityType DEF RetriesAdd, TypeOK
<1>2. ASSUME UNCHANGED <<results, retries>>, CutShort' = CutShort PROVE RetriesAdd'
  <2>1. AttemptsFrom(2)' = AttemptsFrom(2)
    BY <1>2 DEF AttemptsFrom
  <2>2. QED BY <1>1, <1>2, <2>1 DEF RetriesAdd
<1>3. ASSUME NEW c \in Calls, Step(c) PROVE RetriesAdd'
  <2>1. \A d \in Calls : d /= c => err'[d] = err[d] /\ results'[d] = results[d]
    BY <1>3, OthersKeep
  <2>2. pc[c] \notin {"return", "done"} => err[c] /= CircuitOpen
    BY ErrorsDiffer DEF ErrInv
  <2>3. ASSUME UNCHANGED <<results, retries>>,
               (err'[c] = CircuitOpen) = (err[c] = CircuitOpen)
        PROVE  RetriesAdd'
    <3>1. CutShort' = CutShort
      BY <2>1, <2>3 DEF CutShort
    <3>2. QED BY <1>2, <2>3, <3>1
  <2>4. CASE Refuse(c)
    <3>1. /\ UNCHANGED results /\ err'[c] = CircuitOpen /\ c \notin CutShort
          /\ retries' = retries \/ (results[c] /= <<>> /\ retries' = retries + 1)
      BY <2>2, <2>4, RefusalEffect DEF CutShort
    <3>2. CutShort' = IF results[c] = <<>> THEN CutShort ELSE CutShort \cup {c}
      BY <2>1, <3>1 DEF CutShort
    <3>3. Cardinality(CutShort') = Cardinality(CutShort)
                                     + IF results[c] = <<>> THEN 0 ELSE 1
      <4>1. CASE results[c] = <<>>
        BY <1>1, <3>2, <4>1
      <4>2. CASE results[c] /= <<>>
        <5>1. CutShort' = CutShort \cup {c} /\ c \notin CutShort
          BY <3>1, <3>2, <4>2
        <5>2. QED BY <1>1, <4>2, <5>1, FS_AddElement
      <4>3. QED BY <4>1, <4>2
    <3>4. AttemptsFrom(2)' = AttemptsFrom(2)
      BY <3>1 DEF AttemptsFrom
    <3>5. retries' - Cardinality(AttemptsFrom(2)) \in 0..Cardinality(CutShort')
      BY <1>1, <3>1, <3>3
    <3>6. QED BY <1>1, <3>4, <3>5 DEF RetriesAdd
  <2>5. ASSUME NEW e \in Results, Reply(c, e) PROVE RetriesAdd'
    <3>1. /\ results' = [results EXCEPT ![c] = Append(@, e)]
          /\ AfterAttempt(c) /\ e \in AttemptResults
          /\ err[c] /= CircuitOpen /\ err'[c] /= CircuitOpen
      BY <2>2, <2>5, ReplyEffect, ErrorsDiffer
    <3>2. CutShort' = CutShort
      BY <2>1, <3>1 DEF CutShort
    <3>3. /\ IsFiniteSet(AttemptsFrom(2)')
          /\ retries' - Cardinality(AttemptsFrom(2)') = Gap
      BY <1>1, <3>1, ReplyRetries
    <3>4. QED BY <1>1, <3>2, <3>3 DEF RetriesAdd
  <2>6. CASE Abort(c)
    <3>1. /\ UNCHANGED <<results, retries>> /\ err'[c] \in Breaks
          /\ pc[c] \notin {"return", "done"}
      BY <2>6, CutEffect
    <3>2. QED BY <2>2, <2>3, <3>1, ErrorsDiffer
  <2>7. ASSUME NEW e \in {Canceled, DeadlinePassed}, Cut(c, e) \/ CutEarly(c, e)
        PROVE  RetriesAdd'
    <3>1. /\ UNCHANGED <<results, retries>> /\ err'[c] \in Breaks
          /\ pc[c] \notin {"return", "done"}
      BY <2>7, CutEffect DEF Breaks
    <3>2. QED BY <2>2, <2>3, <3>1, ErrorsDiffer
  <2>8. CASE Shed(c)
    BY <2>2, <2>3, <2>8, RefusalEffect, ErrorsDiffer
  <2>9. CASE \/ FallThrough(c) \/ Arrive(c) \/ ResolveHit(c) \/ ResolveMiss(c)
             \/ ListReply(c) \/ ListFail(c) \/ Admit(c) \/ Send(c)
             \/ BackoffOver(c) \/ Return(c)
    <3>1. CircuitOpen /= InvalidParams
      BY ErrorsDiffer
    <3>2. QED BY <2>2, <2>3, <2>9, <3>1, QuietEffect
  <2>10. QED
    BY <1>3, <2>4, <2>5, <2>6, <2>7, <2>8, <2>9 DEF Step
<1>4. CASE Environment \/ UNCHANGED vars
  <2>1. UNCHANGED <<results, err, retries>>
    BY <1>4 DEF Environment, RefreshRoute, Refill, ResetTimeout, WindowSlides,
       Tick, GoAway, vars, callVars, metricVars
  <2>2. QED BY <1>2, <2>1 DEF CutShort
<1>5. QED BY <1>3, <1>4 DEF Next

LEMMA BooksInit == Init => RequestsAdd /\ RejectionsAdd /\ RetriesAdd
<1> SUFFICES ASSUME Init PROVE RequestsAdd /\ RejectionsAdd /\ RetriesAdd
  OBVIOUS
<1>1. RequestsAdd
  <2>1. \A o \in Outcomes : Tallied(o) = {} /\ requests[o] = 0
    BY DEF Init, Tallied
  <2>2. QED BY <2>1, FS_EmptySet DEF RequestsAdd
<1>2. RejectionsAdd
  <2>1. TurnedAway = {} /\ rejections = 0
    BY ErrorsDiffer DEF Init, TurnedAway
  <2>2. QED BY <2>1, FS_EmptySet DEF RejectionsAdd
<1>3. RetriesAdd
  <2>1. \A c \in Calls : Len(results[c]) = 0
    BY DEF Init
  <2>2. AttemptsFrom(2) = {} /\ retries = 0
    BY <2>1, InAttempts DEF Init
  <2>3. CutShort = {}
    BY DEF Init, CutShort
  <2>4. QED BY <2>2, <2>3, FS_EmptySet DEF RetriesAdd
<1>4. QED BY <1>1, <1>2, <1>3

(* The metrics are the calls' own history: nothing is counted twice or     *)
(* forgotten, however many calls end at the same time.                     *)
THEOREM BooksBalance == Spec => []MetricsAgree
<1>1. LabelInv /\ RequestsAdd /\ RejectionsAdd /\ RetriesAdd => MetricsAgree
  BY DEF LabelInv, RequestsAdd, RejectionsAdd, RetriesAdd, MetricsAgree,
     Tallied, TurnedAway
<1>2. QED
  BY <1>1, TypeInit, TypeNext, RetryInit, RetryNext, CauseInit, CauseNext,
     ErrInit, ErrNext, LabelInit, LabelNext, BooksInit, RequestsNext,
     RejectionsNext, RetriesNext, PTL DEF Spec
=============================================================================
