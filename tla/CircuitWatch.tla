---------------------------- MODULE CircuitWatch ----------------------------
(***************************************************************************)
(* From a circuit breaker to its series on /metrics: the policies of       *)
(* internal/policy/policy.go, the loop of run that watches their breakers, *)
(* and WatchCircuitBreaker of internal/metrics/metrics.go.                 *)
(*                                                                         *)
(* Calls move the breaker of the policy they resolve to.  A breaker sends  *)
(* each state it enters down its Health() channel, if that was ever asked  *)
(* for; a goroutine per breaker takes the events off it and updates the    *)
(* series of the policy's tool_pattern.  Two policies may have the same    *)
(* tool_pattern, and then share a series.                                  *)
(*                                                                         *)
(* The breaker and its channel are resile's.  What it does when the        *)
(* channel is full the repository does not tell: here the event is lost.   *)
(* Events are assumed to be sent in the order of the changes.  Left out:   *)
(* why a breaker changes state (Dispatch); scrapes, which may see the      *)
(* counter of an event before its gauge.                                   *)
(***************************************************************************)
EXTENDS Integers, Sequences

CONSTANTS
  PolicyCount,  \* length of the policies: list
  Pattern,      \* [Policies -> STRING]: tool_pattern
  HasBreaker,   \* policies with a circuit_breaker block
  Tools,        \* names calls may have
  Matches,      \* pairs <<pattern, tool>> for which path.Match holds
  Room,         \* resile: events a Health() channel holds
  MaxEvents     \* bound on the states each breaker enters

Policies == 1..PolicyCount
Patterns == {Pattern[p] : p \in Policies}

States == {"closed", "half_open", "open"}
Healths == {"healthy", "degraded", "unhealthy"}

ASSUME WatchAssumption ==
  /\ PolicyCount \in Nat /\ Room \in Nat /\ MaxEvents \in Nat
  /\ Pattern \in [Policies -> STRING]
  /\ HasBreaker \subseteq Policies

VARIABLES
  walked,       \* policies run's loop has passed
  serving,      \* calls are accepted
  past,         \* past[p]: every state the breaker has been in, oldest first
  channels,     \* breakers whose channel exists
  events,       \* events[p]: what is in the channel
  lost,         \* lost[p]: events a full channel had no room for
  transitions,  \* transitions[l][s]: ..._circuit_breaker_transitions_total
  gauge         \* gauge[l]: ..._circuit_breaker_state, or Unset

vars == <<walked, serving, past, channels, events, lost, transitions, gauge>>

Unset == -1   \* no series for this label yet

Init ==
  /\ walked = 0
  /\ serving = FALSE
  /\ past = [p \in HasBreaker |-> <<"closed">>]
  /\ channels = {}
  /\ events = [p \in HasBreaker |-> <<>>]
  /\ lost = [p \in HasBreaker |-> 0]
  /\ transitions = [l \in Patterns |-> [s \in States |-> 0]]
  /\ gauge = [l \in Patterns |-> Unset]

State(p) == past[p][Len(past[p])]

-----------------------------------------------------------------------------
(* Resolver.Resolve: the first policy in file order whose pattern matches. *)

Governs_Any(p, t) == <<Pattern[p], t>> \in Matches

Governs(p, t) ==
  /\ <<Pattern[p], t>> \in Matches
  /\ \A q \in 1..(p - 1) : <<Pattern[q], t>> \notin Matches

Reached == {p \in HasBreaker : \E t \in Tools : Governs(p, t)}

-----------------------------------------------------------------------------
(* run: every policy's breaker is watched before the first call.           *)

Watch_InGoroutine(p) ==
  /\ walked = p - 1
  /\ walked' = p
  /\ gauge' = IF p \in HasBreaker THEN [gauge EXCEPT ![Pattern[p]] = 0] ELSE gauge
  /\ UNCHANGED <<serving, past, channels, events, lost, transitions>>

(* WatchCircuitBreaker, up to the goroutine it starts. *)
Watch(p) ==
  /\ walked = p - 1
  /\ walked' = p
  /\ IF p \in HasBreaker
     THEN /\ gauge' = [gauge EXCEPT ![Pattern[p]] = 0]
          /\ channels' = channels \cup {p}
     ELSE UNCHANGED <<gauge, channels>>
  /\ UNCHANGED <<serving, past, events, lost, transitions>>

Serve ==
  /\ ~serving /\ walked = PolicyCount
  /\ serving' = TRUE
  /\ UNCHANGED <<walked, past, channels, events, lost, transitions, gauge>>

-----------------------------------------------------------------------------
(* The breaker.  It opens when calls fail, lets probes through after its   *)
(* reset timeout, and closes or opens again on what they return.           *)

Edges == {<<"closed", "open">>, <<"open", "half_open">>,
          <<"half_open", "closed">>, <<"half_open", "open">>}

HealthOf(s) ==
  CASE s = "closed" -> "healthy"
    [] s = "half_open" -> "degraded"
    [] s = "open" -> "unhealthy"

Emit(p, s) ==
  IF p \notin channels THEN UNCHANGED <<events, lost>>
  ELSE IF Len(events[p]) < Room
  THEN events' = [events EXCEPT ![p] = Append(@, HealthOf(s))] /\ UNCHANGED lost
  ELSE lost' = [lost EXCEPT ![p] = @ + 1] /\ UNCHANGED events

(* A call of tool t drives the breaker of the policy that governs it. *)
Drive(p, t, s) ==
  /\ serving /\ p \in HasBreaker /\ Governs(p, t)
  /\ <<State(p), s>> \in Edges
  /\ Len(past[p]) <= MaxEvents
  /\ past' = [past EXCEPT ![p] = Append(@, s)]
  /\ Emit(p, s)
  /\ UNCHANGED <<walked, serving, channels, transitions, gauge>>

-----------------------------------------------------------------------------
(* The goroutine of WatchCircuitBreaker. *)

HealthStateLabel_Swapped(h) ==
  CASE h = "healthy" -> "closed"
    [] h = "degraded" -> "open"
    [] h = "unhealthy" -> "half_open"

HealthStateLabel(h) ==
  CASE h = "healthy" -> "closed"
    [] h = "degraded" -> "half_open"
    [] h = "unhealthy" -> "open"

CircuitStateValue_FromOne(state) ==
  CASE state = "half_open" -> 2
    [] state = "open" -> 3
    [] OTHER -> 1

CircuitStateValue(state) ==
  CASE state = "half_open" -> 1
    [] state = "open" -> 2
    [] OTHER -> 0

(* One iteration of its loop. *)
Consume(p) ==
  /\ p \in channels /\ events[p] /= <<>>
  /\ LET state == HealthStateLabel(Head(events[p]))
     IN  /\ transitions' = [transitions EXCEPT ![Pattern[p]][state] = @ + 1]
         /\ gauge' = [gauge EXCEPT ![Pattern[p]] = CircuitStateValue(state)]
  /\ events' = [events EXCEPT ![p] = Tail(@)]
  /\ UNCHANGED <<walked, serving, past, channels, lost>>

-----------------------------------------------------------------------------
Next ==
  \/ \E p \in Policies : Watch(p)
  \/ Serve
  \/ \E p \in Policies, t \in Tools, s \in States : Drive(p, t, s)
  \/ \E p \in Policies : Consume(p)

Spec == Init /\ [][Next]_vars

(* A watcher with an event to read runs; calls are not assumed to come.    *)
FairSpec == Spec /\ \A p \in Policies : WF_vars(Consume(p))

-----------------------------------------------------------------------------
(* What is asked of it. *)

(* Type correctness. *)
TypeOK ==
  /\ walked \in 0..PolicyCount
  /\ serving \in BOOLEAN
  /\ past \in [HasBreaker -> Seq(States)]
  /\ \A p \in HasBreaker : past[p] /= <<>>
  /\ channels \in SUBSET HasBreaker
  /\ events \in [HasBreaker -> Seq(Healths)]
  /\ lost \in [HasBreaker -> Nat]
  /\ transitions \in [Patterns -> [States -> Nat]]
  /\ gauge \in [Patterns -> {Unset, 0, 1, 2}]

(* What the gauge's help text says it shows (metrics.go:89-90). *)
Shown == [closed |-> 0, half_open |-> 1, open |-> 2]

(* p's breaker was in state s, with w states after it; or with more, but   *)
(* no more than p's channel lost.                                          *)
Behind(p, s, w) ==
  \E k \in 1..Len(past[p]) :
    /\ past[p][k] = s
    /\ k + w <= Len(past[p]) /\ Len(past[p]) <= k + w + lost[p]

(* The gauge may lag but never lies: it shows a state the breaker was      *)
(* really in, behind by the events that wait to be read and by no more     *)
(* than those a full channel lost - also when a policy with the same       *)
(* tool_pattern is shadowed behind this one.  (WatchCircuitBreaker creates *)
(* the channel before any call can move the breaker.)                      *)
GaugeNeverLies ==
  \A p \in Reached : serving =>
    \E s \in States : gauge[Pattern[p]] = Shown[s] /\ Behind(p, s, Len(events[p]))

(* The transitions counter: what has been counted, what is under way and   *)
(* what a full channel refused are all the states the breaker entered, so  *)
(* nothing else is lost or counted twice.                                  *)
TransitionsAddUp ==
  \A p \in Reached :
    LET counted == transitions[Pattern[p]]
    IN  counted["closed"] + counted["half_open"] + counted["open"]
          + Len(events[p]) + lost[p] = Len(past[p]) - 1

(* The gauge catches up: when a breaker has come to rest, its gauge ends   *)
(* on that state for good, or short of it by no more than the events its   *)
(* channel lost.  (the goroutine of WatchCircuitBreaker)                   *)
GaugeCatchesUp ==
  \A p \in Reached :
    <>[]serving /\ <>[][past'[p] = past[p]]_vars
      => <>[](\E s \in States : gauge[Pattern[p]] = Shown[s] /\ Behind(p, s, 0))
=============================================================================
