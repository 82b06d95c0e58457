---------------------- MODULE NotificationRouterProofs ----------------------
(***************************************************************************)
(* Theorems about NotificationRouter, for every number of clients, calls   *)
(* and notifications, and every delay and gap that satisfy                 *)
(* DelayAssumption.                                                        *)
(***************************************************************************)
EXTENDS NotificationRouter, TLAPS

USE DEF Target, Targets

(* The steps of the handlers of backend logs. *)
Logging == \/ \E l \in Logs : HandleLog(l)
           \/ \E l \in Logs, s \in Sessions : Tell(l, s)

(* What one mapping's operators do to the partial functions. *)
LEMMA PutFacts ==
  ASSUME NEW f, NEW t, NEW v
  PROVE  /\ DOMAIN Put(f, t, v) = DOMAIN f \cup {t}
         /\ Put(f, t, v)[t] = v
         /\ \A u \in DOMAIN f : u /= t => Put(f, t, v)[u] = f[u]
BY DEF Put

LEMMA RestrictFacts ==
  ASSUME NEW f, NEW S \in SUBSET DOMAIN f
  PROVE  /\ DOMAIN Restrict(f, S) = S
         /\ \A u \in S : Restrict(f, S)[u] = f[u]
BY DEF Restrict

LEMMA TypeInit == Init => TypeOK
<1> SUFFICES ASSUME Init PROVE TypeOK
  OBVIOUS
<1>1. /\ DOMAIN inFlight = {} /\ inFlight \in [DOMAIN inFlight -> Targets]
      /\ DOMAIN timers = {} /\ timers \in [DOMAIN timers -> 0..CleanupDelay]
  BY DEF Init
<1>2. sent \in [Calls -> 0..MaxProgress]
  BY DelayAssumption DEF Init
<1>3. log \in [Logs -> LogStates]
  BY DEF Init, LogStates
<1>4. QED
  BY <1>1, <1>2, <1>3 DEF Init, TypeOK

(* The mapping of a running call is there, and no timer threatens it.      *)
RunningInv ==
  \A c \in Calls :
    /\ pc[c] = "idle" => synthetic[c] = 0
    /\ synthetic[c] <= next
    /\ pc[c] = "running" /\ synthetic[c] /= 0 =>
         /\ synthetic[c] \in DOMAIN inFlight
         /\ synthetic[c] \notin DOMAIN timers

LEMMA TypeNext == TypeOK /\ RunningInv /\ [Next]_vars => TypeOK'
<1> SUFFICES ASSUME TypeOK, RunningInv, [Next]_vars PROVE TypeOK'
  OBVIOUS
<1> USE DEF TypeOK, callVars, wireVars, mainVars
<1>1. ASSUME Attach \/ ListenAndServe PROVE TypeOK'
  BY <1>1 DEF Attach, ListenAndServe
<1>2. ASSUME NEW s \in Sessions, Connect(s) \/ Disconnect(s) PROVE TypeOK'
  BY <1>2 DEF Connect, Disconnect
<1>3. ASSUME NEW c \in Calls, TrackProgress(c) PROVE TypeOK'
  <2>1. CASE TokenOf[c] = NoToken
    BY <1>3, <2>1 DEF TrackProgress
  <2>2. CASE TokenOf[c] /= NoToken
    <3>1. /\ Target(c) \in Targets /\ FreshToken \in Nat \ {0}
      BY <2>2, CallsAssumption DEF FreshToken
    <3>2. /\ inFlight' = Put(inFlight, FreshToken, Target(c))
          /\ next' = FreshToken
          /\ synthetic' = [synthetic EXCEPT ![c] = FreshToken]
          /\ pc' = [pc EXCEPT ![c] = "running"]
          /\ UNCHANGED <<timers, wireVars, mainVars>>
      BY <1>3, <2>2 DEF TrackProgress
    <3>3. /\ DOMAIN inFlight' = DOMAIN inFlight \cup {FreshToken}
          /\ inFlight' \in [DOMAIN inFlight' -> Targets]
      BY <3>1, <3>2 DEF Put
    <3>4. QED BY <3>1, <3>2, <3>3
  <2>3. QED BY <2>1, <2>2
<1>4. ASSUME NEW c \in Calls, NEW how \in {"answered", "abandoned"}, Done(c, how)
      PROVE  TypeOK'
  <2>1. CASE synthetic[c] = 0
    BY <1>4, <2>1 DEF Done
  <2>2. CASE synthetic[c] /= 0
    <3>1. timers' = Put(timers, synthetic[c], CleanupDelay)
      BY <1>4, <2>2 DEF Done, CleanupAfter
    <3>2. /\ DOMAIN timers' = DOMAIN timers \cup {synthetic[c]}
          /\ timers' \in [DOMAIN timers' -> 0..CleanupDelay]
      BY <3>1, DelayAssumption DEF Put
    <3>3. synthetic[c] \in DOMAIN inFlight
      BY <1>4, <2>2 DEF RunningInv, Done
    <3>4. QED
      BY <1>4, <3>2, <3>3 DEF Done
  <2>3. QED BY <2>1, <2>2
<1>5. ASSUME NEW t \in DOMAIN timers, Cleanup(t) PROVE TypeOK'
  <2>1. /\ inFlight' = Restrict(inFlight, DOMAIN inFlight \ {t})
        /\ timers' = Restrict(timers, DOMAIN timers \ {t})
        /\ UNCHANGED <<pc, next, synthetic, wireVars, mainVars>>
    BY <1>5 DEF Cleanup
  <2>2. /\ DOMAIN inFlight' = DOMAIN inFlight \ {t}
        /\ inFlight' \in [DOMAIN inFlight' -> Targets]
    BY <2>1 DEF Restrict
  <2>3. /\ DOMAIN timers' = DOMAIN timers \ {t}
        /\ timers' \in [DOMAIN timers' -> 0..CleanupDelay]
    BY <2>1 DEF Restrict
  <2>4. QED BY <2>1, <2>2, <2>3
<1>6. ASSUME NEW c \in Calls, Report(c) PROVE TypeOK'
  <2> DEFINE m == [call |-> c, n |-> sent[c] + 1, token |-> synthetic[c],
                   age |-> 0, late |-> pc[c] = "abandoned"]
  <2>1. sent[c] \in 0..MaxProgress /\ sent[c] < MaxProgress /\ MaxProgress \in Nat
    BY <1>6, DelayAssumption DEF Report
  <2>2. /\ sent' = [sent EXCEPT ![c] = sent[c] + 1] /\ sent'[c] = sent[c] + 1
        /\ network' = network \cup {m}
    BY <1>6 DEF Report
  <2>3. m \in [call : Calls, n : 1..MaxProgress, token : Nat \ {0},
               age : 0..MaxGap, late : BOOLEAN]
    <3>1. sent[c] + 1 \in 1..MaxProgress /\ 0 \in 0..MaxGap
      BY <2>1, DelayAssumption
    <3>2. synthetic[c] \in Nat \ {0} /\ (pc[c] = "abandoned") \in BOOLEAN
      BY <1>6 DEF Report
    <3>3. QED BY <3>1, <3>2
  <2> HIDE DEF m
  <2>4. sent' \in [Calls -> 0..MaxProgress]
    BY <2>1, <2>2
  <2>5. QED
    BY <1>6, <2>2, <2>3, <2>4 DEF Report
<1>7. ASSUME NEW m \in network, Lookup(m) PROVE TypeOK'
  BY <1>7 DEF Lookup
<1>8. ASSUME NEW h \in handlers, Forward(h) PROVE TypeOK'
  BY <1>8 DEF Forward
<1>9. CASE Tick
  BY <1>9, DelayAssumption DEF Tick
<1>10. CASE UNCHANGED vars
  BY <1>10 DEF vars
<1>11. ASSUME NEW l \in Logs, HandleLog(l) PROVE TypeOK'
  <2>1. Listeners \in SUBSET Sessions
    BY DEF Listeners
  <2>2. PICK g \in LogStates : log' = [log EXCEPT ![l] = g]
    BY <1>11, <2>1 DEF HandleLog, LogStates
  <2>3. log' \in [Logs -> LogStates]
    BY <2>2 DEF TypeOK
  <2>4. QED BY <1>11, <2>3 DEF HandleLog, TypeOK, callVars, wireVars
<1>12. ASSUME NEW l \in Logs, NEW s \in Sessions, Tell(l, s) PROVE TypeOK'
  <2>1. log[l] \in LogStates
    BY DEF TypeOK
  <2>2. [log[l] EXCEPT !.owed = @ \ {s}, !.pending = @ \ {s}] \in LogStates
    BY <2>1 DEF LogStates
  <2>3. log' \in [Logs -> LogStates]
    BY <1>12, <2>2 DEF Tell, TypeOK
  <2>4. QED BY <1>12, <2>3 DEF Tell, TypeOK, callVars, wireVars
<1>13. QED
  BY <1>1, <1>2, <1>3, <1>4, <1>5, <1>6, <1>7, <1>8, <1>9, <1>10, <1>11, <1>12
  DEF Next, End

-----------------------------------------------------------------------------
(* The inductive invariant. *)

(* Tokens are never shared, nor handed out again. *)
UniqueInv ==
  /\ \A t \in DOMAIN inFlight : t <= next
  /\ \A c, d \in Calls :
       synthetic[c] /= 0 /\ synthetic[c] = synthetic[d] => c = d

(* A mapping leads to the client it was made for. *)
TargetInv ==
  \A c \in Calls :
    synthetic[c] \in DOMAIN inFlight => inFlight[synthetic[c]] = Target(c)

(* A notification carries the token of its own call, which started; one    *)
(* sent before the answer is younger than the cleanup's timer is old.      *)
WireInv ==
  \A m \in network :
    /\ m.token = synthetic[m.call] /\ pc[m.call] /= "idle"
    /\ ~m.late =>
         /\ m.token \in DOMAIN inFlight
         /\ m.token \in DOMAIN timers =>
              timers[m.token] + m.age >= CleanupDelay

IInv == /\ TypeOK /\ RunningInv /\ UniqueInv /\ TargetInv /\ WireInv
        /\ RightClient /\ NothingLost

LEMMA InvInit == Init => IInv
BY TypeInit DEF Init, IInv, RunningInv, UniqueInv, TargetInv, WireInv,
                RightClient, NothingLost

(* Starting a call: its token is new, so no other call's anything moves.   *)
LEMMA TrackKeeps ==
  ASSUME IInv, NEW c \in Calls, TrackProgress(c) PROVE IInv'
<1> USE DEF IInv, callVars, wireVars, mainVars
<1>1. TypeOK'
  BY TypeNext DEF Next
<1>2. CASE TokenOf[c] = NoToken
  <2>1. UNCHANGED <<next, inFlight, synthetic, timers, network, handlers,
                    delivered, dropped, lost>>
        /\ pc' = [pc EXCEPT ![c] = "running"] /\ pc[c] = "idle"
    BY <1>2 DEF TrackProgress
  <2>2. QED
    BY <1>1, <2>1 DEF RunningInv, UniqueInv, TargetInv, WireInv, RightClient,
       NothingLost, TypeOK
<1>3. CASE TokenOf[c] /= NoToken
  <2> DEFINE t == next + 1
  <2>1. /\ next' = t /\ pc[c] = "idle" /\ pc' = [pc EXCEPT ![c] = "running"]
        /\ synthetic' = [synthetic EXCEPT ![c] = t]
        /\ inFlight' = Put(inFlight, t, Target(c))
        /\ UNCHANGED <<timers, network, handlers, delivered,
                    dropped, lost>>
    BY <1>3 DEF TrackProgress, FreshToken
  <2>2. /\ DOMAIN inFlight' = DOMAIN inFlight \cup {t}
        /\ inFlight'[t] = Target(c)
        /\ \A u \in DOMAIN inFlight : u /= t => inFlight'[u] = inFlight[u]
    BY <2>1 DEF Put
  <2>3. /\ t \notin DOMAIN inFlight /\ t \notin DOMAIN timers
        /\ \A d \in Calls : synthetic[d] < t /\ synthetic[d] \in Nat
        /\ t \in Nat /\ t /= 0 /\ next \in Nat /\ synthetic[c] = 0
    BY <2>1 DEF TypeOK, UniqueInv, RunningInv
  <2>4. /\ synthetic'[c] = t /\ pc'[c] = "running"
        /\ \A d \in Calls : d /= c => synthetic'[d] = synthetic[d] /\ pc'[d] = pc[d]
    BY <2>1 DEF TypeOK
  <2> HIDE DEF t
  <2>5. RunningInv'
    BY <2>1, <2>2, <2>3, <2>4 DEF RunningInv
  <2>6. UniqueInv'
    <3>1. \A u \in DOMAIN inFlight' : u <= next'
      BY <2>1, <2>2, <2>3 DEF UniqueInv, TypeOK, t
    <3>2. ASSUME NEW d \in Calls, NEW e \in Calls, synthetic'[d] /= 0,
                 synthetic'[d] = synthetic'[e]
          PROVE  d = e
      BY <2>3, <2>4, <3>2 DEF UniqueInv
    <3>3. QED BY <3>1, <3>2 DEF UniqueInv
  <2>7. TargetInv'
    BY <2>2, <2>3, <2>4 DEF TargetInv
  <2>8. WireInv'
    <3>1. \A m \in network : m.call \in Calls /\ m.call /= c
      BY <2>1 DEF WireInv, TypeOK
    <3>2. QED BY <2>1, <2>2, <2>4, <3>1 DEF WireInv
  <2>9. RightClient' /\ NothingLost'
    BY <2>1 DEF RightClient, NothingLost
  <2>10. QED BY <1>1, <2>5, <2>6, <2>7, <2>8, <2>9
<1>4. QED BY <1>2, <1>3

(* Ending a call: the timer starts with the whole delay to go.             *)
LEMMA DoneKeeps ==
  ASSUME IInv, NEW c \in Calls, NEW how \in {"answered", "abandoned"},
         Done(c, how)
  PROVE  IInv'
<1> USE DEF IInv, callVars, wireVars, mainVars
<1>1. TypeOK'
  BY TypeNext DEF Next, End
<1>2. /\ pc[c] = "running" /\ pc'[c] = how
      /\ \A d \in Calls : d /= c => pc'[d] = pc[d]
      /\ UNCHANGED <<next, inFlight, synthetic, network, handlers, delivered,
                    dropped, lost>>
  BY DEF Done, TypeOK
<1>3. UniqueInv' /\ TargetInv' /\ RightClient' /\ NothingLost'
  BY <1>2 DEF UniqueInv, TargetInv, RightClient, NothingLost
<1>4. \/ timers' = timers
      \/ /\ synthetic[c] /= 0
         /\ timers' = Put(timers, synthetic[c], CleanupDelay)
  BY DEF Done, CleanupAfter
<1>5. /\ DOMAIN timers' \subseteq DOMAIN timers \cup {synthetic[c]}
      /\ \A u \in DOMAIN timers' :
           \/ u \in DOMAIN timers /\ timers'[u] = timers[u]
           \/ timers'[u] = CleanupDelay
      /\ synthetic[c] = 0 => timers' = timers
  BY <1>4, PutFacts DEF Put
<1>6. RunningInv'
  <2>1. ASSUME NEW d \in Calls, pc'[d] = "running", synthetic[d] /= 0
        PROVE  synthetic[d] \notin DOMAIN timers'
    BY <1>2, <1>5, <2>1 DEF RunningInv, UniqueInv
  <2>2. QED BY <1>2, <2>1 DEF RunningInv, TypeOK
<1>7. WireInv'
  <2>1. ASSUME NEW m \in network, ~m.late, m.token \in DOMAIN timers'
        PROVE  timers'[m.token] + m.age >= CleanupDelay
    <3>1. m.age \in Nat /\ CleanupDelay \in Nat
      BY DelayAssumption DEF TypeOK
    <3>2. CASE timers'[m.token] = CleanupDelay
      BY <3>1, <3>2
    <3>3. CASE m.token \in DOMAIN timers /\ timers'[m.token] = timers[m.token]
      BY <2>1, <3>3 DEF WireInv
    <3>4. \/ m.token \in DOMAIN timers /\ timers'[m.token] = timers[m.token]
          \/ timers'[m.token] = CleanupDelay
      BY <1>5, <2>1
    <3>5. QED BY <3>2, <3>3, <3>4
  <2>2. \A m \in network : m.call \in Calls
    BY DEF TypeOK
  <2>3. QED BY <1>2, <2>1, <2>2 DEF WireInv, TypeOK
<1>8. QED BY <1>1, <1>3, <1>6, <1>7

(* Forgetting a token: its timer ran out, so nothing sent in time is left. *)
LEMMA CleanupKeeps ==
  ASSUME IInv, NEW t \in DOMAIN timers, Cleanup(t) PROVE IInv'
<1> USE DEF IInv, callVars, wireVars, mainVars
<1>1. TypeOK'
  BY TypeNext DEF Next
<1>2. /\ timers[t] = 0
      /\ DOMAIN inFlight' = DOMAIN inFlight \ {t}
      /\ DOMAIN timers' = DOMAIN timers \ {t}
      /\ \A u \in DOMAIN inFlight' : inFlight'[u] = inFlight[u]
      /\ \A u \in DOMAIN timers' : timers'[u] = timers[u]
      /\ UNCHANGED <<pc, next, synthetic, network, handlers, delivered,
                    dropped, lost>>
  BY RestrictFacts DEF Cleanup
<1>3. RunningInv' /\ UniqueInv' /\ TargetInv'
  BY <1>2 DEF RunningInv, UniqueInv, TargetInv
<1>4. RightClient' /\ NothingLost'
  BY <1>2 DEF RightClient, NothingLost
<1>5. WireInv'
  <2>1. ASSUME NEW m \in network, ~m.late PROVE m.token /= t
    <3>1. m.age \in 0..MaxGap
      BY DEF TypeOK
    <3>2. SUFFICES ASSUME m.token = t PROVE FALSE
      OBVIOUS
    <3>3. m.age >= CleanupDelay
      BY <1>2, <2>1, <3>1, <3>2, DelayAssumption DEF WireInv
    <3>4. QED BY <3>1, <3>3, DelayAssumption
  <2>2. QED BY <1>2, <2>1 DEF WireInv
<1>6. QED BY <1>1, <1>3, <1>4, <1>5

(* A notification is sent under its call's token, before or after the end. *)
LEMMA ReportKeeps ==
  ASSUME IInv, NEW c \in Calls, Report(c) PROVE IInv'
<1> USE DEF IInv, callVars, wireVars, mainVars
<1>1. TypeOK'
  BY TypeNext DEF Next
<1>2. /\ pc[c] \in {"running", "abandoned"} /\ synthetic[c] /= 0
      /\ \A m \in network' :
           \/ m \in network
           \/ /\ m.call = c /\ m.token = synthetic[c]
              /\ ~m.late => pc[c] = "running"
      /\ UNCHANGED <<pc, next, inFlight, timers, synthetic, handlers,
                     delivered, dropped, lost>>
  <2> DEFINE new == [call |-> c, n |-> sent'[c], token |-> synthetic[c],
                     age |-> 0, late |-> pc[c] = "abandoned"]
  <2>1. /\ new.call = c /\ new.token = synthetic[c]
        /\ new.late = (pc[c] = "abandoned")
    OBVIOUS
  <2>2. network' = network \cup {new}
    BY DEF Report
  <2>3. /\ pc[c] \in {"running", "abandoned"} /\ synthetic[c] /= 0
        /\ UNCHANGED <<pc, next, inFlight, timers, synthetic, handlers,
                       delivered, dropped, lost>>
    BY DEF Report
  <2> HIDE DEF new
  <2>4. ~new.late => pc[c] = "running"
    BY <2>1, <2>3
  <2>5. QED BY <2>1, <2>2, <2>3, <2>4
<1>3. RunningInv' /\ UniqueInv' /\ TargetInv' /\ RightClient' /\ NothingLost'
  BY <1>2 DEF RunningInv, UniqueInv, TargetInv, RightClient, NothingLost
<1>4. WireInv'
  BY <1>2 DEF WireInv, RunningInv
<1>5. QED BY <1>1, <1>3, <1>4

(* The lookup finds the call's own target, and finds it if sent in time.   *)
LEMMA LookupKeeps ==
  ASSUME IInv, NEW m \in network, Lookup(m) PROVE IInv'
<1> USE DEF IInv, callVars, wireVars, mainVars
<1>1. TypeOK'
  BY TypeNext DEF Next
<1>2. /\ network' \subseteq network /\ m.call \in Calls
      /\ UNCHANGED <<pc, next, inFlight, timers, synthetic, delivered, dropped>>
  BY DEF Lookup, TypeOK
<1>3. RunningInv' /\ UniqueInv' /\ TargetInv' /\ WireInv'
  BY <1>2 DEF RunningInv, UniqueInv, TargetInv, WireInv
<1>4. CASE m.token \in DOMAIN inFlight
  <2>1. inFlight[m.token] = Target(m.call)
    BY <1>2, <1>4 DEF WireInv, TargetInv
  <2>2. lost' = lost
        /\ handlers' = handlers \cup
             {[call |-> m.call, n |-> m.n, target |-> inFlight[m.token]]}
    BY <1>4 DEF Lookup
  <2>3. RightClient' /\ NothingLost'
    BY <1>2, <2>1, <2>2 DEF RightClient, NothingLost
  <2>4. QED BY <1>1, <1>3, <2>3
<1>5. CASE m.token \notin DOMAIN inFlight
  BY <1>1, <1>2, <1>3, <1>5 DEF Lookup, WireInv, RightClient, NothingLost
<1>6. QED BY <1>4, <1>5

(* Timers and notifications age together.                                  *)
LEMMA TickKeeps == ASSUME IInv, Tick PROVE IInv'
<1> USE DEF IInv, callVars, wireVars, mainVars
<1>1. TypeOK'
  BY TypeNext DEF Next
<1>2. /\ DOMAIN timers' = DOMAIN timers
      /\ UNCHANGED <<pc, next, inFlight, synthetic, handlers, delivered,
                    dropped, lost>>
  BY DEF Tick
<1>3. RunningInv' /\ UniqueInv' /\ TargetInv' /\ RightClient' /\ NothingLost'
  BY <1>2 DEF RunningInv, UniqueInv, TargetInv, RightClient, NothingLost
<1>4. ASSUME NEW u \in DOMAIN timers
      PROVE  timers[u] \in Nat /\ timers'[u] \in Nat
             /\ timers'[u] + 1 >= timers[u]
  BY DEF Tick, TypeOK
<1>5. WireInv'
  <2>1. ASSUME NEW m \in network'
        PROVE  \E old \in network :
                 /\ m.token = old.token /\ m.call = old.call
                 /\ m.late = old.late /\ m.age = old.age + 1
                 /\ old.age \in Nat
    BY DEF Tick, TypeOK
  <2>2. QED
    BY <1>2, <1>4, <2>1, DelayAssumption DEF WireInv
<1>6. QED BY <1>1, <1>3, <1>5

LEMMA InvNext == IInv /\ [Next]_vars => IInv'
<1> SUFFICES ASSUME IInv, [Next]_vars PROVE IInv'
  OBVIOUS
<1>1. ASSUME UNCHANGED <<pc, next, inFlight, timers, synthetic, network, lost>>,
             handlers' \subseteq handlers,
             delivered' \subseteq delivered \cup handlers,
             dropped' \subseteq dropped \cup handlers
      PROVE  IInv'
  <2>1. TypeOK'
    BY TypeNext DEF IInv
  <2>2. QED
    BY <1>1, <2>1 DEF IInv, RunningInv, UniqueInv, TargetInv, WireInv,
       RightClient, NothingLost
<1>2. CASE Attach \/ ListenAndServe
  BY <1>1, <1>2 DEF Attach, ListenAndServe, callVars, wireVars
<1>3. ASSUME NEW s \in Sessions, Connect(s) \/ Disconnect(s) PROVE IInv'
  BY <1>1, <1>3 DEF Connect, Disconnect, callVars, wireVars
<1>4. ASSUME NEW h \in handlers, Forward(h) PROVE IInv'
  BY <1>1, <1>4 DEF Forward, callVars
<1>5. CASE UNCHANGED vars
  BY <1>1, <1>5 DEF vars
<1>6. CASE Logging
  BY <1>1, <1>6 DEF Logging, HandleLog, Tell, callVars, wireVars
<1>7. QED
  BY <1>2, <1>3, <1>4, <1>5, <1>6, TrackKeeps, DoneKeeps, CleanupKeeps,
     ReportKeeps, LookupKeeps, TickKeeps DEF Next, End, Logging

(* Progress reaches the client that made the call, under its own token,    *)
(* for any number of clients, calls and equal client tokens.               *)
THEOREM ProgressReachesRightClient == Spec => []RightClient
<1>1. IInv => RightClient
  BY DEF IInv
<1>2. QED BY <1>1, InvInit, InvNext, PTL DEF Spec

(* With any cleanup delay longer than the longest gap, no notification     *)
(* sent before its call was answered finds its mapping gone.               *)
THEOREM GraceSuffices == Spec => []NothingLost
<1>1. IInv => NothingLost
  BY DEF IInv
<1>2. QED BY <1>1, InvInit, InvNext, PTL DEF Spec

(* Types hold in every reachable state; a timer runs only for a mapping    *)
(* that is still there.                                                    *)
THEOREM TypeCorrect == Spec => []TypeOK
<1>1. IInv => TypeOK
  BY DEF IInv
<1>2. QED BY InvInit, InvNext, <1>1, PTL DEF Spec

-----------------------------------------------------------------------------
(* Logs. *)

(* Before serving there is nobody to hear, and serving waits for Attach;   *)
(* whom a log is owed to is still ahead in the loop.                       *)
LogInv ==
  /\ serving => attached
  /\ ~serving => \A s \in Sessions : session[s] = "new"
  /\ \A l \in Logs : log[l].owed \subseteq log[l].pending

LEMMA LogInit == Init => LogInv
BY DEF Init, LogInv

LEMMA LogNext == TypeOK /\ LogInv /\ [Next]_vars => LogInv'
<1> SUFFICES ASSUME TypeOK, LogInv, [Next]_vars PROVE LogInv'
  OBVIOUS
<1> USE DEF LogInv
<1>1. CASE Attach
  BY <1>1 DEF Attach
<1>2. CASE ListenAndServe
  BY <1>2 DEF ListenAndServe
<1>3. ASSUME NEW s \in Sessions, Connect(s) \/ Disconnect(s) PROVE LogInv'
  BY <1>3 DEF Connect, Disconnect, TypeOK
<1>4. ASSUME NEW l \in Logs, HandleLog(l) PROVE LogInv'
  <2>1. ~attached => Listeners = {}
    BY DEF Listeners
  <2>2. /\ UNCHANGED <<attached, serving, session>>
        /\ \A k \in Logs \ {l} : log'[k] = log[k]
        /\ log'[l].owed = Listeners
        /\ log'[l].pending = IF attached THEN Listeners ELSE {}
    BY <1>4 DEF HandleLog, TypeOK
  <2>3. QED BY <2>1, <2>2
<1>5. ASSUME NEW l \in Logs, NEW s \in Sessions, Tell(l, s) PROVE LogInv'
  <2>1. log[l] \in LogStates
    BY DEF TypeOK
  <2>2. /\ UNCHANGED <<attached, serving, session>>
        /\ \A k \in Logs \ {l} : log'[k] = log[k]
        /\ log'[l].owed = log[l].owed \ {s}
        /\ log'[l].pending = log[l].pending \ {s}
    BY <1>5, <2>1 DEF Tell, TypeOK, LogStates
  <2>3. QED BY <2>2
<1>8. CASE UNCHANGED mainVars
  BY <1>8 DEF mainVars
<1>9. ASSUME \/ Tick \/ \E t \in DOMAIN timers : Cleanup(t)
             \/ \E c \in Calls : TrackProgress(c) \/ End(c) \/ Report(c)
             \/ \E m \in network : Lookup(m)
             \/ \E h \in handlers : Forward(h)
             \/ UNCHANGED vars
      PROVE  UNCHANGED mainVars
  BY <1>9 DEF Tick, Cleanup, TrackProgress, End, Done, Report, Lookup, Forward,
     vars, mainVars
<1>10. QED BY <1>1, <1>2, <1>3, <1>4, <1>5, <1>8, <1>9 DEF Next

(* For any number of clients and logs, and however they interleave with    *)
(* the gateway's start: when HandleLog is through with a log, it has tried *)
(* to send it to every client that was there when it came.                 *)
THEOREM LogsAreHeard == Spec => []LogsHeard
<1>1. LogInv => LogsHeard
  BY DEF LogInv, LogsHeard, Handled
<1>2. Spec => []TypeOK
  BY TypeCorrect
<1>3. QED BY <1>1, <1>2, LogInit, LogNext, PTL DEF Spec

-----------------------------------------------------------------------------
(* Mappings and their owners. *)

LEMMA OrphansNext == IInv /\ NoOrphans /\ [Next]_vars => NoOrphans'
<1> SUFFICES ASSUME IInv, NoOrphans, [Next]_vars PROVE NoOrphans'
  OBVIOUS
<1> USE DEF callVars, wireVars, mainVars
<1>a. /\ TypeOK /\ RunningInv /\ UniqueInv
  BY DEF IInv
<1>1. ASSUME NEW c \in Calls, TrackProgress(c) PROVE NoOrphans'
  <2>1. CASE TokenOf[c] = NoToken
    BY <1>1, <2>1, <1>a DEF TrackProgress, NoOrphans, TypeOK
  <2>2. CASE TokenOf[c] /= NoToken
    <3>1. /\ DOMAIN inFlight' = DOMAIN inFlight \cup {FreshToken}
          /\ pc[c] = "idle" /\ pc'[c] = "running" /\ synthetic'[c] = FreshToken
          /\ \A d \in Calls : d /= c => pc'[d] = pc[d] /\ synthetic'[d] = synthetic[d]
          /\ timers' = timers
      BY <1>1, <2>2, <1>a DEF TrackProgress, TypeOK, Put
    <3>2. QED BY <3>1 DEF NoOrphans
  <2>3. QED BY <2>1, <2>2
<1>2. ASSUME NEW c \in Calls, NEW how \in {"answered", "abandoned"}, Done(c, how)
      PROVE  NoOrphans'
  <2>1. /\ UNCHANGED <<inFlight, synthetic>>
        /\ \A d \in Calls : d /= c => pc'[d] = pc[d]
    BY <1>2, <1>a DEF Done, TypeOK
  <2>2. /\ DOMAIN timers \subseteq DOMAIN timers'
        /\ synthetic[c] /= 0 => synthetic[c] \in DOMAIN timers'
    <3>1. CASE synthetic[c] = 0
      BY <1>2, <3>1 DEF Done
    <3>2. CASE synthetic[c] /= 0
      BY <1>2, <3>2 DEF Done, Put
    <3>3. QED BY <3>1, <3>2
  <2>3. 0 \notin DOMAIN inFlight
    BY <1>a DEF TypeOK
  <2>4. QED BY <2>1, <2>2, <2>3 DEF NoOrphans
<1>3. ASSUME NEW t \in DOMAIN timers, Cleanup(t) PROVE NoOrphans'
  <2>1. /\ DOMAIN inFlight' = DOMAIN inFlight \ {t}
        /\ DOMAIN timers' = DOMAIN timers \ {t}
        /\ UNCHANGED <<pc, synthetic>>
    BY <1>3, RestrictFacts, <1>a DEF Cleanup, TypeOK
  <2>2. QED BY <2>1 DEF NoOrphans
<1>4. CASE Tick
  BY <1>4 DEF Tick, NoOrphans
<1>5. ASSUME UNCHANGED callVars PROVE NoOrphans'
  BY <1>5 DEF NoOrphans
<1>6. ASSUME \/ Attach \/ ListenAndServe \/ Logging \/ UNCHANGED vars
             \/ \E s \in Sessions : Connect(s) \/ Disconnect(s)
             \/ \E c \in Calls : Report(c)
             \/ \E m \in network : Lookup(m)
             \/ \E h \in handlers : Forward(h)
      PROVE  UNCHANGED callVars
  BY <1>6 DEF Attach, ListenAndServe, Logging, HandleLog, Tell, Connect, Disconnect, Report,
     Lookup, Forward, vars
<1>7. QED BY <1>1, <1>2, <1>3, <1>4, <1>5, <1>6 DEF Next, Logging, End

(* However calls end, none leaves a mapping behind that nothing will ever  *)
(* remove.                                                                 *)
THEOREM NothingIsOrphaned == Spec => []NoOrphans
<1>1. Init => NoOrphans
  BY DEF Init, NoOrphans
<1>2. QED BY <1>1, InvInit, InvNext, OrphansNext, PTL DEF Spec

-----------------------------------------------------------------------------
(* The refinement: the router implements ProgressContract. *)

(* Two records of the same report. *)
Same(a, b) == a.call = b.call /\ a.n = b.n

(* The reports the gateway tried to send. *)
Tried == delivered \cup dropped

(* A report is in one place at a time: under way, at a handler, or sent.   *)
OnceInv ==
  /\ \A m \in network \cup handlers \cup Tried : m.n <= sent[m.call]
  /\ \A m, l \in network : Same(m, l) => m = l
  /\ \A m \in network, h \in handlers \cup Tried : ~Same(m, h)
  /\ \A h \in handlers, g \in Tried : ~Same(h, g)

(* Only calls that asked for progress have a token, and only connected     *)
(* sessions make calls.                                                    *)
AskedInv ==
  /\ \A c \in Calls : synthetic[c] /= 0 => TokenOf[c] /= NoToken
  /\ \A c \in Calls : pc[c] /= "idle" => session[SessionOf[c]] /= "new"
  /\ \A h \in handlers : pc[h.call] /= "idle"

(* By RightClient, what a handler holds is told by its report. *)
LEMMA HandlerIsOne ==
  ASSUME TypeOK, RightClient, NEW g \in handlers, NEW h \in handlers, Same(g, h)
  PROVE  g = h
<1>1. /\ g \in [call : Calls, n : 1..MaxProgress, target : Targets]
      /\ h \in [call : Calls, n : 1..MaxProgress, target : Targets]
  BY DEF TypeOK
<1>2. /\ g = [call |-> g.call, n |-> g.n, target |-> g.target]
      /\ h = [call |-> h.call, n |-> h.n, target |-> h.target]
  BY <1>1
<1>3. g.target = Target(g.call) /\ h.target = Target(h.call)
  BY DEF RightClient
<1>4. QED BY <1>2, <1>3 DEF Same

LEMMA AskedInit == Init => AskedInv /\ OnceInv
BY DEF Init, AskedInv, OnceInv, Tried

LEMMA AskedNext == IInv /\ AskedInv /\ [Next]_vars => AskedInv'
<1> SUFFICES ASSUME IInv, AskedInv, [Next]_vars PROVE AskedInv'
  OBVIOUS
<1> USE DEF callVars, wireVars, mainVars
<1>a. TypeOK /\ WireInv
  BY DEF IInv
<1>1. ASSUME NEW c \in Calls, TrackProgress(c) PROVE AskedInv'
  <2>1. /\ pc[c] = "idle" /\ session[SessionOf[c]] = "connected"
        /\ pc' = [pc EXCEPT ![c] = "running"]
        /\ UNCHANGED <<session, handlers>>
    BY <1>1 DEF TrackProgress, Listeners
  <2>2. \/ UNCHANGED synthetic
        \/ TokenOf[c] /= NoToken /\ \E t : synthetic' = [synthetic EXCEPT ![c] = t]
    BY <1>1 DEF TrackProgress
  <2>3. QED BY <2>1, <2>2, <1>a DEF AskedInv, TypeOK
<1>2. ASSUME NEW c \in Calls, NEW how \in {"answered", "abandoned"}, Done(c, how)
      PROVE  AskedInv'
  BY <1>2, <1>a DEF Done, AskedInv, TypeOK
<1>3. ASSUME NEW m \in network, Lookup(m) PROVE AskedInv'
  <2>1. UNCHANGED <<pc, synthetic, session>>
    BY <1>3 DEF Lookup
  <2>2. \A h \in handlers' : h \in handlers \/ h.call = m.call
    BY <1>3 DEF Lookup
  <2>3. pc[m.call] /= "idle"
    BY <1>a DEF WireInv
  <2>4. QED BY <2>1, <2>2, <2>3 DEF AskedInv
<1>4. ASSUME NEW s \in Sessions, Connect(s) \/ Disconnect(s) PROVE AskedInv'
  <2>1. UNCHANGED <<pc, synthetic, handlers>>
    BY <1>4 DEF Connect, Disconnect
  <2>2. ASSUME NEW r \in Sessions, session[r] /= "new" PROVE session'[r] /= "new"
    BY <1>4, <1>a, <2>2 DEF Connect, Disconnect, TypeOK
  <2>3. ASSUME NEW c \in Calls, pc[c] /= "idle" PROVE session'[SessionOf[c]] /= "new"
    <3>1. SessionOf[c] \in Sessions /\ session[SessionOf[c]] /= "new"
      BY <2>3, CallsAssumption DEF AskedInv
    <3>2. QED BY <3>1, <2>2
  <2>4. QED BY <2>1, <2>3 DEF AskedInv
<1>5. ASSUME UNCHANGED <<pc, synthetic, session>>, handlers' \subseteq handlers
      PROVE  AskedInv'
  BY <1>5 DEF AskedInv
<1>6. ASSUME \/ Attach \/ ListenAndServe \/ Logging \/ Tick \/ UNCHANGED vars
             \/ \E c \in Calls : Report(c)
             \/ \E t \in DOMAIN timers : Cleanup(t)
             \/ \E h \in handlers : Forward(h)
      PROVE  UNCHANGED <<pc, synthetic, session>> /\ handlers' \subseteq handlers
  BY <1>6 DEF Attach, ListenAndServe, Logging, HandleLog, Tell, Tick, Report, Cleanup,
     Forward, vars
<1>7. QED BY <1>1, <1>2, <1>3, <1>4, <1>5, <1>6 DEF Next, Logging, End

LEMMA OnceNext == IInv /\ OnceInv /\ [Next]_vars => OnceInv'
<1> SUFFICES ASSUME IInv, OnceInv, [Next]_vars PROVE OnceInv'
  OBVIOUS
<1> USE DEF callVars, wireVars, mainVars
<1>a. TypeOK
  BY DEF IInv
<1>1. ASSUME NEW c \in Calls, Report(c) PROVE OnceInv'
  <2> DEFINE m == [call |-> c, n |-> sent[c] + 1, token |-> synthetic[c],
                   age |-> 0, late |-> pc[c] = "abandoned"]
  <2>1. /\ network' = network \cup {m} /\ m.call = c /\ m.n = sent[c] + 1
        /\ sent'[c] = sent[c] + 1 /\ sent[c] \in Nat
        /\ \A d \in Calls : d /= c => sent'[d] = sent[d]
        /\ UNCHANGED <<handlers, Tried>>
    BY <1>1, <1>a, DelayAssumption DEF Report, Tried, TypeOK
  <2> HIDE DEF m
  <2>2. \A l \in network \cup handlers \cup Tried :
          l.call \in Calls /\ l.n \in Nat /\ l.n <= sent[l.call]
    BY <1>a DEF OnceInv, Tried, TypeOK
  <2>3. \A l \in network \cup handlers \cup Tried : ~Same(l, m) /\ ~Same(m, l)
    BY <2>1, <2>2 DEF Same
  <2>4. \A l \in network' \cup handlers' \cup Tried' : l.n <= sent'[l.call]
    <3>1. \A d \in Calls : sent[d] \in Nat /\ sent[d] <= sent'[d]
      BY <2>1, <1>a DEF TypeOK
    <3>2. ASSUME NEW l \in network \cup handlers \cup Tried
          PROVE  l.n <= sent'[l.call]
      <4>1. l.call \in Calls /\ l.n \in Nat /\ l.n <= sent[l.call]
        BY <2>2
      <4>2. sent[l.call] \in Nat /\ sent[l.call] <= sent'[l.call] /\ sent'[l.call] \in Int
        BY <3>1, <4>1, <2>1
      <4>3. QED BY <4>1, <4>2
    <3>3. QED BY <2>1, <3>2
  <2>5. QED BY <2>1, <2>3, <2>4 DEF OnceInv
<1>2. ASSUME NEW m \in network, Lookup(m) PROVE OnceInv'
  <2>1. /\ network' = network \ {m} /\ UNCHANGED <<sent, Tried>>
        /\ \A h \in handlers' : h \in handlers \/ Same(h, m)
    BY <1>2 DEF Lookup, Tried, Same
  <2>2. QED BY <2>1 DEF OnceInv, Same
<1>3. ASSUME NEW h \in handlers, Forward(h) PROVE OnceInv'
  <2>1. /\ handlers' = handlers \ {h} /\ Tried' \subseteq Tried \cup {h}
        /\ UNCHANGED <<network, sent>>
    BY <1>3 DEF Forward, Tried
  <2>2. \A g \in handlers : Same(g, h) => g = h
    BY <1>a, HandlerIsOne DEF IInv
  <2>3. QED BY <2>1, <2>2 DEF OnceInv
<1>4. CASE Tick
  <2>1. /\ UNCHANGED <<sent, handlers, Tried>>
        /\ network' = {[m EXCEPT !.age = @ + 1] : m \in network}
    BY <1>4 DEF Tick, Tried
  <2>2. \A m \in network' : \E l \in network :
          m = [l EXCEPT !.age = @ + 1] /\ Same(m, l) /\ Same(l, m)
    BY <2>1, <1>a DEF Same, TypeOK
  <2>3. QED BY <2>1, <2>2 DEF OnceInv, Same
<1>5. ASSUME UNCHANGED wireVars PROVE OnceInv'
  BY <1>5 DEF OnceInv, Tried
<1>6. ASSUME \/ Attach \/ ListenAndServe \/ Logging \/ UNCHANGED vars
             \/ \E s \in Sessions : Connect(s) \/ Disconnect(s)
             \/ \E c \in Calls : TrackProgress(c) \/ End(c)
             \/ \E t \in DOMAIN timers : Cleanup(t)
      PROVE  UNCHANGED wireVars
  BY <1>6 DEF Attach, ListenAndServe, Logging, HandleLog, Tell, Connect, Disconnect,
     TrackProgress, End, Done, Cleanup, vars
<1>7. QED BY <1>1, <1>2, <1>3, <1>4, <1>5, <1>6 DEF Next, Logging

(* Every variable of the contract stays as it is. *)
Stutter == UNCHANGED <<session, Phase, sent, Owed, Stray, delivered, dropped>>

LEMMA PromiseInit == Init => Contract!Init
<1> SUFFICES ASSUME Init PROVE Contract!Init
  OBVIOUS
<1>1. Phase = [c \in Calls |-> "new"]
  BY DEF Init, Phase
<1>2. Owed = {} /\ Stray = {}
  BY DEF Init, Owed, Stray
<1>3. QED BY <1>1, <1>2 DEF Init, Contract!Init

LEMMA StartPromised ==
  ASSUME TypeOK, NEW c \in Calls, TrackProgress(c)
  PROVE  Contract!Start(c)
<1> USE DEF wireVars, mainVars
<1>1. /\ pc[c] = "idle" /\ session[SessionOf[c]] = "connected"
      /\ pc' = [pc EXCEPT ![c] = "running"]
      /\ UNCHANGED <<session, sent, network, handlers, delivered, dropped>>
  BY DEF TrackProgress, Listeners
<1>2. Phase[c] = "new" /\ Phase' = [Phase EXCEPT ![c] = "running"]
  BY <1>1 DEF Phase, TypeOK
<1>3. UNCHANGED <<Owed, Stray>>
  BY <1>1 DEF Owed, Stray
<1>4. QED BY <1>1, <1>2, <1>3 DEF Contract!Start

LEMMA FinishPromised ==
  ASSUME TypeOK, NEW c \in Calls, NEW how \in {"answered", "abandoned"},
         Done(c, how)
  PROVE  Contract!Finish(c)
<1> USE DEF wireVars, mainVars
<1>1. /\ pc[c] = "running" /\ pc' = [pc EXCEPT ![c] = how]
      /\ UNCHANGED <<session, sent, network, handlers, delivered, dropped>>
  BY DEF Done
<1>2. Phase[c] = "running" /\ Phase' = [Phase EXCEPT ![c] = "over"]
  BY <1>1 DEF Phase, TypeOK
<1>3. UNCHANGED <<Owed, Stray>>
  BY <1>1 DEF Owed, Stray
<1>4. QED BY <1>1, <1>2, <1>3 DEF Contract!Finish

(* A report sent while its call runs is owed, a later one is stray. *)
LEMMA ReportPromised ==
  ASSUME TypeOK, AskedInv, NEW c \in Calls, Report(c)
  PROVE  Contract!Report(c)
<1> DEFINE m == [call |-> c, n |-> sent[c] + 1, token |-> synthetic[c],
                 age |-> 0, late |-> pc[c] = "abandoned"]
<1>1. /\ pc[c] \in {"running", "abandoned"} /\ synthetic[c] /= 0
      /\ sent[c] < MaxProgress /\ sent' = [sent EXCEPT ![c] = @ + 1]
      /\ network' = network \cup {m}
      /\ m.call = c /\ m.n = sent[c] + 1 /\ m.late = (pc[c] = "abandoned")
      /\ UNCHANGED <<session, pc, handlers, delivered, dropped>>
  BY DEF Report, callVars, mainVars, TypeOK
<1> HIDE DEF m
<1>2. TokenOf[c] /= NoToken
  BY <1>1 DEF AskedInv
<1>3. /\ Phase[c] = IF pc[c] = "running" THEN "running" ELSE "over"
      /\ UNCHANGED Phase
  BY <1>1 DEF Phase
<1>4. CASE pc[c] = "running"
  <2>1. ~m.late
    BY <1>1, <1>4
  <2>2. Owed' = Owed \cup {<<c, sent[c] + 1>>}
    BY <1>1, <2>1 DEF Owed
  <2>3. Stray' = Stray
    BY <1>1, <2>1 DEF Stray
  <2>4. QED BY <1>1, <1>2, <1>3, <1>4, <2>2, <2>3 DEF Contract!Report
<1>5. CASE pc[c] = "abandoned"
  <2>1. m.late
    BY <1>1, <1>5
  <2>2. Stray' = Stray \cup {<<c, sent[c] + 1>>}
    BY <1>1, <2>1 DEF Stray
  <2>3. Owed' = Owed
    BY <1>1, <2>1 DEF Owed
  <2>4. QED BY <1>1, <1>2, <1>3, <1>5, <2>2, <2>3 DEF Contract!Report
<1>6. QED BY <1>1, <1>4, <1>5

(* The lookup moves a report that is owed from the wire to a handler, and  *)
(* decides about a stray one.                                              *)
LEMMA LookupPromised ==
  ASSUME IInv, OnceInv, NEW m \in network, Lookup(m)
  PROVE  \/ Stutter
         \/ <<m.call, m.n>> \in Stray /\ Contract!Adopt(<<m.call, m.n>>)
         \/ <<m.call, m.n>> \in Stray /\ Contract!Forget(<<m.call, m.n>>)
<1> DEFINE r == <<m.call, m.n>>
<1>1. /\ network' = network \ {m}
      /\ UNCHANGED <<session, pc, sent, delivered, dropped>>
  BY DEF Lookup, callVars, mainVars
<1>2. UNCHANGED Phase
  BY <1>1 DEF Phase
<1>3. \A l \in network : <<l.call, l.n>> = r => l = m
  BY DEF OnceInv, Same
<1>4. m.late \in BOOLEAN
  BY DEF IInv, TypeOK
<1>5. CASE m.token \in DOMAIN inFlight
  <2> DEFINE h == [call |-> m.call, n |-> m.n, target |-> inFlight[m.token]]
  <2>1. handlers' = handlers \cup {h} /\ <<h.call, h.n>> = r
    BY <1>5 DEF Lookup
  <2> HIDE DEF h
  <2>2. CASE m.late
    <3>1. Owed' = Owed \cup {r}
      BY <1>1, <2>1, <2>2 DEF Owed
    <3>2. r \in Stray /\ Stray' = Stray \ {r}
      BY <1>1, <1>3, <2>2 DEF Stray
    <3>3. QED BY <1>1, <1>2, <3>1, <3>2 DEF Contract!Adopt
  <2>3. CASE ~m.late
    <3>1. Owed' = Owed
      BY <1>1, <2>1, <2>3 DEF Owed
    <3>2. Stray' = Stray
      BY <1>1, <2>3 DEF Stray
    <3>3. QED BY <1>1, <1>2, <3>1, <3>2 DEF Stutter
  <2>4. QED BY <2>2, <2>3
<1>6. CASE m.token \notin DOMAIN inFlight
  <2>1. m.late
    BY <1>6 DEF IInv, WireInv
  <2>2. UNCHANGED handlers
    BY <1>6 DEF Lookup
  <2>3. Owed' = Owed
    BY <1>1, <2>1, <2>2 DEF Owed
  <2>4. r \in Stray /\ Stray' = Stray \ {r}
    BY <1>1, <1>3, <2>1 DEF Stray
  <2>5. QED BY <1>1, <1>2, <2>3, <2>4 DEF Contract!Forget
<1>7. QED BY <1>5, <1>6

(* The forward makes the one attempt to send the report, to the session    *)
(* that called; it succeeds or fails.                                      *)
LEMMA ForwardPromised ==
  ASSUME IInv, OnceInv, NEW h \in handlers, Forward(h)
  PROVE  /\ <<h.call, h.n>> \in Owed
         /\ \/ Contract!Deliver(<<h.call, h.n>>)
            \/ Contract!Fail(<<h.call, h.n>>)
<1> DEFINE r == <<h.call, h.n>>
<1>1. /\ handlers' = handlers \ {h}
      /\ \/ /\ h.target.session \in Listeners
            /\ delivered' = delivered \cup {h} /\ dropped' = dropped
         \/ dropped' = dropped \cup {h} /\ delivered' = delivered
      /\ UNCHANGED <<session, pc, sent, network>>
  BY DEF Forward, callVars, mainVars
<1>2. TypeOK /\ RightClient
  BY DEF IInv
<1>3. UNCHANGED <<Phase, Stray>>
  BY <1>1 DEF Phase, Stray
<1>4. h.target = Target(h.call) /\ h = Contract!Heard(r)
  <2>1. h \in [call : Calls, n : 1..MaxProgress, target : Targets]
    BY <1>2 DEF TypeOK
  <2>2. h.target = Target(h.call)
    BY <1>2 DEF RightClient
  <2>3. h = [call |-> h.call, n |-> h.n, target |-> h.target]
    BY <2>1
  <2>4. QED BY <2>2, <2>3 DEF Contract!Heard
<1>5. r \in Owed /\ Owed' = Owed \ {r}
  <2>1. \A l \in network : <<l.call, l.n>> /= r
    BY DEF OnceInv, Same
  <2>2. \A g \in handlers : <<g.call, g.n>> = r => g = h
    BY <1>2, HandlerIsOne DEF Same
  <2>3. QED BY <1>1, <2>1, <2>2 DEF Owed
<1>6. Contract!Unsent(r)
  BY <1>4 DEF OnceInv, Same, Tried, Contract!Unsent
<1>7. CASE /\ h.target.session \in Listeners
           /\ delivered' = delivered \cup {h} /\ dropped' = dropped
  <2>1. session[SessionOf[r[1]]] = "connected"
    BY <1>4, <1>7 DEF Listeners
  <2>2. QED
    BY <1>1, <1>3, <1>4, <1>5, <1>6, <1>7, <2>1 DEF Contract!Deliver
<1>8. CASE dropped' = dropped \cup {h} /\ delivered' = delivered
  BY <1>1, <1>3, <1>4, <1>5, <1>6, <1>8 DEF Contract!Fail
<1>9. QED BY <1>1, <1>5, <1>7, <1>8

(* Time is nothing to the contract. *)
LEMMA TickPromised == ASSUME TypeOK, Tick PROVE Stutter
<1>1. /\ network' = {[m EXCEPT !.age = @ + 1] : m \in network}
      /\ UNCHANGED <<session, pc, sent, handlers, delivered, dropped>>
  BY DEF Tick, mainVars
<1>2. ASSUME NEW m \in network
      PROVE  \E l \in network' : l.call = m.call /\ l.n = m.n /\ l.late = m.late
  <2> DEFINE l == [m EXCEPT !.age = @ + 1]
  <2>1. l.call = m.call /\ l.n = m.n /\ l.late = m.late
    BY DEF TypeOK
  <2>2. l \in network'
    BY <1>1
  <2>3. QED BY <2>1, <2>2
<1>3. ASSUME NEW l \in network'
      PROVE  \E m \in network : l.call = m.call /\ l.n = m.n /\ l.late = m.late
  BY <1>1 DEF TypeOK
<1>4. {<<m.call, m.n>> : m \in {l \in network' : ~l.late}}
        = {<<m.call, m.n>> : m \in {l \in network : ~l.late}}
  <2> DEFINE S == {<<m.call, m.n>> : m \in {l \in network : ~l.late}}
             T == {<<m.call, m.n>> : m \in {l \in network' : ~l.late}}
  <2>1. ASSUME NEW r \in S PROVE r \in T
    <3>1. PICK m \in network : ~m.late /\ r = <<m.call, m.n>>
      OBVIOUS
    <3>2. QED BY <1>2, <3>1
  <2>2. ASSUME NEW r \in T PROVE r \in S
    <3>1. PICK l \in network' : ~l.late /\ r = <<l.call, l.n>>
      OBVIOUS
    <3>2. QED BY <1>3, <3>1
  <2>3. QED BY <2>1, <2>2
<1>5. Stray' = Stray
  <2>1. ASSUME NEW r \in Stray PROVE r \in Stray'
    <3>1. PICK m \in network : m.late /\ r = <<m.call, m.n>>
      BY DEF Stray
    <3>2. QED BY <1>2, <3>1 DEF Stray
  <2>2. ASSUME NEW r \in Stray' PROVE r \in Stray
    <3>1. PICK l \in network' : l.late /\ r = <<l.call, l.n>>
      BY DEF Stray
    <3>2. QED BY <1>3, <3>1 DEF Stray
  <2>3. QED BY <2>1, <2>2 DEF Stray
<1>6. Owed' = Owed
  BY <1>1, <1>4 DEF Owed
<1>7. QED BY <1>1, <1>5, <1>6 DEF Stutter, Phase

LEMMA PromiseNext ==
  IInv /\ AskedInv /\ OnceInv /\ [Next]_vars => [Contract!Next]_(Contract!vars)
<1> SUFFICES ASSUME IInv, AskedInv, OnceInv, [Next]_vars
             PROVE  [Contract!Next]_(Contract!vars)
  OBVIOUS
<1> USE DEF callVars, wireVars, mainVars
<1>a. TypeOK
  BY DEF IInv
<1>b. ASSUME Stutter PROVE UNCHANGED Contract!vars
  BY <1>b DEF Stutter, Contract!vars
<1>1. ASSUME NEW c \in Calls, TrackProgress(c) PROVE Contract!Next
  BY <1>1, <1>a, StartPromised DEF Contract!Next
<1>2. ASSUME NEW c \in Calls, NEW how \in {"answered", "abandoned"}, Done(c, how)
      PROVE  Contract!Next
  BY <1>2, <1>a, FinishPromised DEF Contract!Next
<1>3. ASSUME NEW c \in Calls, Report(c) PROVE Contract!Next
  BY <1>3, <1>a, ReportPromised DEF Contract!Next
<1>4. ASSUME NEW m \in network, Lookup(m) PROVE Contract!Next \/ Stutter
  BY <1>4, LookupPromised DEF Contract!Next
<1>5. ASSUME NEW h \in handlers, Forward(h) PROVE Contract!Next
  BY <1>5, ForwardPromised DEF Contract!Next
<1>6. CASE Tick
  BY <1>6, <1>a, <1>b, TickPromised
<1>7. ASSUME NEW s \in Sessions, Connect(s) \/ Disconnect(s) PROVE Contract!Next
  <2>1. UNCHANGED <<Phase, sent, Owed, Stray, delivered, dropped>>
    BY <1>7 DEF Connect, Disconnect, Phase, Owed, Stray
  <2>2. Contract!Connect(s) \/ Contract!Disconnect(s)
    BY <1>7, <2>1 DEF Connect, Disconnect, Contract!Connect, Contract!Disconnect
  <2>3. QED BY <2>2 DEF Contract!Next
<1>8. ASSUME \/ Attach \/ ListenAndServe \/ Logging \/ UNCHANGED vars
             \/ \E t \in DOMAIN timers : Cleanup(t)
      PROVE  Stutter
  <2>1. UNCHANGED <<session, pc, wireVars>>
    BY <1>8 DEF Attach, ListenAndServe, Logging, HandleLog, Tell, Cleanup, vars
  <2>2. QED BY <2>1 DEF Stutter, Phase, Owed, Stray
<1>9. QED
  BY <1>b, <1>1, <1>2, <1>3, <1>4, <1>5, <1>6, <1>7, <1>8 DEF Next, End, Logging

(* Whatever the tokens, the delays and the number of clients: the router   *)
(* does nothing ProgressContract does not allow.                           *)
THEOREM PromiseIsKept == Spec => KeepsPromise
<1>1. Spec => [](IInv /\ AskedInv /\ OnceInv)
  BY InvInit, InvNext, AskedInit, AskedNext, OnceNext, PTL DEF Spec
<1>2. QED
  BY <1>1, PromiseInit, PromiseNext, PTL DEF Spec, KeepsPromise, Contract!Spec
=============================================================================
