------------------------ MODULE CircuitWatchProofs ------------------------
(***************************************************************************)
(* Theorems about CircuitWatch, for any list of policies, any matching of  *)
(* patterns, and any room in the channels.                                 *)
(***************************************************************************)
EXTENDS CircuitWatch, TLAPS

(* A breaker's states survive the way to the label and to the gauge. *)
LEMMA Labels ==
  /\ \A s \in States : HealthOf(s) \in Healths /\ HealthStateLabel(HealthOf(s)) = s
  /\ \A h \in Healths : HealthStateLabel(h) \in States
  /\ \A s \in States : /\ CircuitStateValue(s) = Shown[s]
                       /\ CircuitStateValue(s) \in {0, 1, 2}
BY DEF States, Healths, HealthOf, HealthStateLabel, CircuitStateValue, Shown

(* The first match wins, so equal patterns never both govern calls. *)
LEMMA ReachedPatterns ==
  ASSUME NEW p \in Reached, NEW q \in Reached, Pattern[p] = Pattern[q]
  PROVE  p = q
<1>1. p \in Nat /\ q \in Nat /\ p >= 1 /\ q >= 1
  BY WatchAssumption DEF Reached, Policies
<1>2. PICK t \in Tools : Governs(p, t)
  BY DEF Reached
<1>3. PICK u \in Tools : Governs(q, u)
  BY DEF Reached
<1>4. ~(p < q)
  BY <1>1, <1>2, <1>3 DEF Governs
<1>5. ~(q < p)
  BY <1>1, <1>2, <1>3 DEF Governs
<1>6. QED BY <1>1, <1>4, <1>5

-----------------------------------------------------------------------------
(* Types. *)

LEMMA TypeInit == Init => TypeOK
<1> SUFFICES ASSUME Init PROVE TypeOK
  OBVIOUS
<1>1. past \in [HasBreaker -> Seq(States)] /\ \A p \in HasBreaker : past[p] /= <<>>
  <2>1. "closed" \in States
    BY DEF States
  <2>2. <<"closed">> \in Seq(States) /\ <<"closed">> /= <<>>
    BY <2>1
  <2>3. QED BY <2>2 DEF Init
<1>2. events \in [HasBreaker -> Seq(Healths)] /\ lost \in [HasBreaker -> Nat]
  BY DEF Init
<1>3. /\ transitions \in [Patterns -> [States -> Nat]]
      /\ gauge \in [Patterns -> {Unset, 0, 1, 2}]
  BY DEF Init
<1>4. walked \in 0..PolicyCount
  BY WatchAssumption DEF Init
<1>5. serving \in BOOLEAN /\ channels \in SUBSET HasBreaker
  BY DEF Init
<1>6. QED BY <1>1, <1>2, <1>3, <1>4, <1>5 DEF TypeOK

LEMMA WatchType == ASSUME TypeOK, NEW p \in Policies, Watch(p) PROVE TypeOK'
<1>1. Pattern[p] \in Patterns /\ p \in 0..PolicyCount
  BY WatchAssumption DEF Patterns, Policies
<1>2. gauge' \in [Patterns -> {Unset, 0, 1, 2}] /\ channels' \in SUBSET HasBreaker
  BY <1>1 DEF Watch, TypeOK
<1>3. QED BY <1>1, <1>2 DEF Watch, TypeOK

LEMMA ServeType == ASSUME TypeOK, Serve PROVE TypeOK'
BY DEF Serve, TypeOK

LEMMA EmitType ==
  ASSUME TypeOK, NEW p \in HasBreaker, NEW s \in States, Emit(p, s)
  PROVE  /\ events' \in [HasBreaker -> Seq(Healths)]
         /\ lost' \in [HasBreaker -> Nat]
<1>1. events[p] \in Seq(Healths) /\ HealthOf(s) \in Healths /\ lost[p] \in Nat
  BY Labels DEF TypeOK
<1>2. Append(events[p], HealthOf(s)) \in Seq(Healths)
  BY <1>1
<1>3. CASE p \in channels /\ Len(events[p]) < Room
  <2> DEFINE more == Append(events[p], HealthOf(s))
  <2>1. events' = [events EXCEPT ![p] = more] /\ lost' = lost
    BY <1>3 DEF Emit
  <2> HIDE DEF more
  <2>2. more \in Seq(Healths)
    BY <1>2 DEF more
  <2>3. QED BY <2>1, <2>2 DEF TypeOK
<1>4. CASE p \in channels /\ ~(Len(events[p]) < Room)
  <2>1. lost' = [lost EXCEPT ![p] = lost[p] + 1] /\ events' = events
    BY <1>4 DEF Emit
  <2>2. lost[p] + 1 \in Nat
    BY <1>1
  <2>3. QED BY <2>1, <2>2 DEF TypeOK
<1>5. CASE p \notin channels
  BY <1>5 DEF Emit, TypeOK
<1>6. QED BY <1>3, <1>4, <1>5

LEMMA DriveType ==
  ASSUME TypeOK, NEW p \in Policies, NEW t \in Tools, NEW s \in States,
         Drive(p, t, s)
  PROVE  TypeOK'
<1>1. p \in HasBreaker /\ past[p] \in Seq(States)
  BY DEF Drive, TypeOK
<1>2. Append(past[p], s) \in Seq(States) /\ Append(past[p], s) /= <<>>
  BY <1>1
<1>3. /\ past' \in [HasBreaker -> Seq(States)]
      /\ \A q \in HasBreaker : past'[q] /= <<>>
  BY <1>1, <1>2 DEF Drive, TypeOK
<1>4. QED
  BY <1>1, <1>3, EmitType DEF Drive, TypeOK

LEMMA ConsumeType ==
  ASSUME TypeOK, NEW p \in Policies, Consume(p) PROVE TypeOK'
<1>1. /\ p \in HasBreaker /\ events[p] \in Seq(Healths) /\ events[p] /= <<>>
      /\ Pattern[p] \in Patterns
  BY DEF Consume, TypeOK, Patterns
<1>2. Head(events[p]) \in Healths /\ Tail(events[p]) \in Seq(Healths)
  BY <1>1
<1> DEFINE state == HealthStateLabel(Head(events[p]))
<1>3. state \in States /\ CircuitStateValue(state) \in {0, 1, 2}
  BY <1>2, Labels
<1>4. /\ transitions' = [transitions EXCEPT ![Pattern[p]][state] = @ + 1]
      /\ gauge' = [gauge EXCEPT ![Pattern[p]] = CircuitStateValue(state)]
      /\ events' = [events EXCEPT ![p] = Tail(@)]
      /\ UNCHANGED <<walked, serving, past, channels, lost>>
  BY DEF Consume
<1> HIDE DEF state
<1>5. events' \in [HasBreaker -> Seq(Healths)]
  BY <1>1, <1>2, <1>4 DEF TypeOK
<1>6. transitions' \in [Patterns -> [States -> Nat]]
  BY <1>1, <1>3, <1>4 DEF TypeOK
<1>7. gauge' \in [Patterns -> {Unset, 0, 1, 2}]
  BY <1>1, <1>3, <1>4 DEF TypeOK
<1>8. QED BY <1>4, <1>5, <1>6, <1>7 DEF TypeOK

LEMMA TypeNext == TypeOK /\ [Next]_vars => TypeOK'
<1>1. TypeOK /\ UNCHANGED vars => TypeOK'
  BY DEF TypeOK, vars
<1>2. QED
  BY <1>1, WatchType, ServeType, DriveType, ConsumeType DEF Next

(* Types hold in every reachable state: an event always has a label, a     *)
(* label a value.                                                          *)
THEOREM TypeCorrect == Spec => []TypeOK
BY TypeInit, TypeNext, PTL DEF Spec

-----------------------------------------------------------------------------
(* The watchers' invariant.                                                *)

(* How far run has come: breakers the loop has passed are watched, and     *)
(* calls come only once all are.                                           *)
Watched ==
  /\ \A p \in HasBreaker \cap Policies : p <= walked => p \in channels
  /\ serving => walked = PolicyCount

(* Before the first call nothing has happened. *)
Still ==
  ~serving =>
    /\ past = [p \in HasBreaker |-> <<"closed">>]
    /\ events = [p \in HasBreaker |-> <<>>]
    /\ lost = [p \in HasBreaker |-> 0]
    /\ transitions = [l \in Patterns |-> [s \in States |-> 0]]
    /\ \A p \in HasBreaker \cap Policies : p <= walked => gauge[Pattern[p]] = 0

(* A policy that governs no tool never moves its breaker. *)
Idle ==
  \A p \in HasBreaker : p \notin Reached => events[p] = <<>>

(* What waits in a channel are states the breaker was in, each as far back *)
(* as the events behind it tell, but for lost ones.                        *)
Waiting ==
  \A p \in Reached : \A j \in 1..Len(events[p]) :
    \E s \in States : /\ events[p][j] = HealthOf(s)
                     /\ Behind(p, s, Len(events[p]) - j)

(* GaugeNeverLies for one breaker. *)
Honest(p) ==
  \E s \in States : gauge[Pattern[p]] = Shown[s] /\ Behind(p, s, Len(events[p]))

WInv ==
  /\ TypeOK
  /\ Watched
  /\ Still
  /\ Idle
  /\ Waiting
  /\ TransitionsAddUp
  /\ GaugeNeverLies

LEMMA WInit == Init => WInv
<1> SUFFICES ASSUME Init PROVE WInv
  OBVIOUS
<1>1. TypeOK
  BY TypeInit
<1>2. Reached \subseteq HasBreaker /\ HasBreaker \subseteq Policies
  BY WatchAssumption DEF Reached
<1>3. \A p \in HasBreaker : /\ past[p] = <<"closed">> /\ Len(past[p]) = 1
                           /\ events[p] = <<>> /\ Len(events[p]) = 0 /\ lost[p] = 0
                           /\ Pattern[p] \in Patterns
  BY <1>2 DEF Init, Patterns
<1>4. Watched /\ Still
  BY WatchAssumption DEF Init, Watched, Still, Policies
<1>5. Idle /\ Waiting
  <2>1. ASSUME NEW p \in HasBreaker PROVE 1..Len(events[p]) = {}
    BY <1>3
  <2>2. QED BY <1>2, <1>3, <2>1 DEF Idle, Waiting
<1>6. TransitionsAddUp
  <2> SUFFICES ASSUME NEW p \in Reached
               PROVE  LET counted == transitions[Pattern[p]]
                      IN  counted["closed"] + counted["half_open"] + counted["open"]
                            + Len(events[p]) + lost[p] = Len(past[p]) - 1
    BY DEF TransitionsAddUp
  <2>1. \A s \in States : transitions[Pattern[p]][s] = 0
    BY <1>2, <1>3 DEF Init
  <2>2. /\ transitions[Pattern[p]]["closed"] = 0
        /\ transitions[Pattern[p]]["half_open"] = 0
        /\ transitions[Pattern[p]]["open"] = 0
    BY <2>1 DEF States
  <2>3. Len(events[p]) = 0 /\ lost[p] = 0 /\ Len(past[p]) = 1
    BY <1>2, <1>3
  <2> HIDE DEF Init
  <2>4. QED BY <2>2, <2>3
<1>7. GaugeNeverLies
  BY DEF Init, GaugeNeverLies
<1>8. QED BY <1>1, <1>4, <1>5, <1>6, <1>7 DEF WInv

-----------------------------------------------------------------------------
(* Channels. *)

(* One more state puts every other one further back: behind one more event *)
(* in the channel, or one more event lost.                                 *)
LEMMA BehindMoves ==
  ASSUME TypeOK, TypeOK', NEW p \in HasBreaker, NEW t \in States,
         past'[p] = Append(past[p], t),
         NEW s \in States, NEW w \in Nat, Behind(p, s, w)
  PROVE  /\ lost'[p] = lost[p] =>
              \E k \in 1..Len(past'[p]) :
                /\ past'[p][k] = s
                /\ k + (w + 1) <= Len(past'[p])
                /\ Len(past'[p]) <= k + (w + 1) + lost'[p]
         /\ lost'[p] = lost[p] + 1 =>
              \E k \in 1..Len(past'[p]) :
                /\ past'[p][k] = s
                /\ k + w <= Len(past'[p])
                /\ Len(past'[p]) <= k + w + lost'[p]
<1>1. PICK k \in 1..Len(past[p]) :
        /\ past[p][k] = s
        /\ k + w <= Len(past[p]) /\ Len(past[p]) <= k + w + lost[p]
  BY DEF Behind
<1>2. past[p] \in Seq(States) /\ lost[p] \in Nat /\ Len(past[p]) \in Nat
  BY DEF TypeOK
<1>3. /\ Len(past'[p]) = Len(past[p]) + 1
      /\ past'[p][k] = s /\ k \in 1..Len(past'[p])
  BY <1>1, <1>2
<1>4. /\ k + (w + 1) <= Len(past'[p])
      /\ k + w <= Len(past'[p])
  BY <1>1, <1>2, <1>3
<1>5. lost'[p] = lost[p] => Len(past'[p]) <= k + (w + 1) + lost'[p]
  BY <1>1, <1>2, <1>3
<1>6. lost'[p] = lost[p] + 1 => Len(past'[p]) <= k + w + lost'[p]
  BY <1>1, <1>2, <1>3
<1>7. QED BY <1>3, <1>4, <1>5, <1>6

-----------------------------------------------------------------------------
(* Sums. *)

Counted(p) ==
  LET counted == transitions[Pattern[p]]
  IN  counted["closed"] + counted["half_open"] + counted["open"]

Balanced(p) == Counted(p) + Len(events[p]) + lost[p] = Len(past[p]) - 1

LEMMA BalanceIs ==
  /\ TransitionsAddUp <=> \A p \in Reached : Balanced(p)
  /\ TransitionsAddUp' <=> \A p \in Reached : Balanced(p)'
BY DEF TransitionsAddUp, Balanced, Counted

LEMMA ReachedType ==
  /\ Reached \subseteq HasBreaker /\ HasBreaker \subseteq Policies
  /\ \A p \in HasBreaker : p \in Nat /\ 1 <= p /\ p <= PolicyCount
BY WatchAssumption DEF Reached, Policies

LEMMA CountedType == ASSUME TypeOK, NEW p \in Reached PROVE Counted(p) \in Nat
<1>1. transitions[Pattern[p]] \in [States -> Nat]
  BY ReachedType DEF TypeOK, Patterns
<1>2. /\ transitions[Pattern[p]]["closed"] \in Nat
      /\ transitions[Pattern[p]]["half_open"] \in Nat
      /\ transitions[Pattern[p]]["open"] \in Nat
  BY <1>1 DEF States
<1>3. QED BY <1>2 DEF Counted

LEMMA CountedGrows ==
  ASSUME TypeOK, NEW p \in Reached, NEW s \in States,
         transitions' = [transitions EXCEPT ![Pattern[p]][s] = @ + 1]
  PROVE  Counted(p)' = Counted(p) + 1
<1>1. transitions \in [Patterns -> [States -> Nat]] /\ Pattern[p] \in Patterns
  BY ReachedType DEF TypeOK, Patterns
<1> DEFINE before == transitions[Pattern[p]]
           after == transitions'[Pattern[p]]
<1>2. before \in [States -> Nat] /\ after = [before EXCEPT ![s] = before[s] + 1]
  BY <1>1
<1> HIDE DEF before, after
<1>3. /\ before["closed"] \in Nat /\ before["half_open"] \in Nat
      /\ before["open"] \in Nat
      /\ \A r \in States : after[r] = IF r = s THEN before[r] + 1 ELSE before[r]
  BY <1>2 DEF States
<1>4. \/ /\ s = "closed" /\ after["closed"] = before["closed"] + 1
         /\ after["half_open"] = before["half_open"] /\ after["open"] = before["open"]
      \/ /\ s = "half_open" /\ after["half_open"] = before["half_open"] + 1
         /\ after["closed"] = before["closed"] /\ after["open"] = before["open"]
      \/ /\ s = "open" /\ after["open"] = before["open"] + 1
         /\ after["closed"] = before["closed"]
         /\ after["half_open"] = before["half_open"]
  BY <1>3 DEF States
<1>5. after["closed"] + after["half_open"] + after["open"]
        = before["closed"] + before["half_open"] + before["open"] + 1
  BY <1>3, <1>4
<1>6. QED BY <1>5 DEF Counted, before, after

-----------------------------------------------------------------------------
(* Steps. *)

LEMMA WatchKeeps == ASSUME WInv, NEW p \in Policies, Watch(p) PROVE WInv'
<1>1. p \in Nat /\ p <= PolicyCount /\ walked = p - 1 /\ walked' = p
  BY WatchAssumption DEF Policies, Watch
<1>2. ~serving /\ ~serving'
  BY <1>1, WatchAssumption DEF WInv, Watched, Watch
<1>3. TypeOK'
  BY WatchType DEF WInv
<1>4. UNCHANGED <<past, events, lost, transitions>>
  BY DEF Watch
<1>5. Watched'
  <2>1. ASSUME NEW q \in HasBreaker \cap Policies, q <= p PROVE q \in channels'
    BY <1>1, <2>1, ReachedType DEF WInv, Watched, Watch
  <2>2. QED BY <1>1, <1>2, <2>1 DEF Watched
<1>6. Still'
  <2>1. ASSUME NEW q \in HasBreaker \cap Policies, q <= p
        PROVE  gauge'[Pattern[q]] = 0
    <3>1. gauge \in [Patterns -> {Unset, 0, 1, 2}] /\ Pattern[q] \in Patterns
      BY DEF WInv, TypeOK, Patterns
    <3>2. CASE q = p
      BY <3>1, <3>2 DEF Watch
    <3>3. CASE q /= p
      <4>1. q <= walked
        BY <1>1, <2>1, <3>3, ReachedType
      <4>2. \A r \in HasBreaker \cap Policies : r <= walked => gauge[Pattern[r]] = 0
        BY <1>2 DEF WInv, Still
      <4>3. QED BY <3>1, <4>1, <4>2 DEF Watch
    <3>4. QED BY <3>2, <3>3
  <2>2. QED BY <1>1, <1>2, <1>4, <2>1 DEF WInv, Still
<1>7. Idle' /\ Waiting' /\ TransitionsAddUp'
  BY <1>4 DEF WInv, Idle, Waiting, TransitionsAddUp, Behind
<1>8. GaugeNeverLies'
  BY <1>2 DEF GaugeNeverLies
<1>9. QED BY <1>3, <1>5, <1>6, <1>7, <1>8 DEF WInv

LEMMA ServeKeeps == ASSUME WInv, Serve PROVE WInv'
<1>1. UNCHANGED <<walked, past, channels, events, lost, transitions, gauge>>
      /\ walked = PolicyCount /\ ~serving /\ serving'
  BY DEF Serve
<1>2. TypeOK'
  BY ServeType DEF WInv
<1>3. Watched' /\ Still' /\ Idle' /\ Waiting' /\ TransitionsAddUp'
  BY <1>1 DEF WInv, Watched, Still, Idle, Waiting, TransitionsAddUp, Behind
<1>4. GaugeNeverLies'
  <2> SUFFICES ASSUME NEW p \in Reached PROVE Honest(p)'
    BY DEF GaugeNeverLies, Honest
  <2>1. /\ past'[p] = <<"closed">> /\ events'[p] = <<>> /\ lost'[p] = 0
        /\ gauge'[Pattern[p]] = 0
    BY <1>1, ReachedType DEF WInv, Still
  <2>2. Len(past'[p]) = 1 /\ Len(events'[p]) = 0 /\ past'[p][1] = "closed"
    BY <2>1
  <2>3. Behind(p, "closed", Len(events[p]))'
    BY <2>1, <2>2 DEF Behind
  <2>4. "closed" \in States /\ Shown["closed"] = 0
    BY DEF States, Shown
  <2>5. QED BY <2>1, <2>3, <2>4 DEF Honest
<1>5. QED BY <1>2, <1>3, <1>4 DEF WInv

LEMMA DriveKeeps ==
  ASSUME WInv, NEW p \in Policies, NEW t \in Tools, NEW s \in States,
         Drive(p, t, s)
  PROVE  WInv'
<1>1. /\ serving /\ serving' /\ p \in Reached /\ p \in HasBreaker
      /\ past' = [past EXCEPT ![p] = Append(past[p], s)]
      /\ Emit(p, s)
      /\ UNCHANGED <<walked, channels, transitions, gauge>>
  BY DEF Drive, Reached
<1>2. p \in channels
  BY <1>1, ReachedType DEF WInv, Watched
<1>3. TypeOK'
  BY DriveType DEF WInv
<1>4. /\ past[p] \in Seq(States) /\ events[p] \in Seq(Healths) /\ lost[p] \in Nat
      /\ past[p] /= <<>> /\ HealthOf(s) \in Healths
  BY <1>1, Labels DEF WInv, TypeOK
<1>5. /\ past'[p] = Append(past[p], s)
      /\ \A q \in HasBreaker : q /= p =>
           past'[q] = past[q] /\ events'[q] = events[q] /\ lost'[q] = lost[q]
  BY <1>1 DEF Emit, WInv, TypeOK
<1>6. \/ events'[p] = Append(events[p], HealthOf(s)) /\ lost'[p] = lost[p]
      \/ events'[p] = events[p] /\ lost'[p] = lost[p] + 1
  BY <1>1, <1>2 DEF Emit, WInv, TypeOK
<1>7. Watched' /\ Still'
  BY <1>1 DEF WInv, Watched, Still
<1>8. Idle'
  BY <1>1, <1>5 DEF WInv, Idle
<1>9. Len(past'[p]) = Len(past[p]) + 1
  BY <1>4, <1>5
<1>10. ASSUME events'[p] = Append(events[p], HealthOf(s))
       PROVE  Len(events'[p]) = Len(events[p]) + 1
  BY <1>4, <1>10
<1>a. TypeOK /\ Len(events[p]) \in Nat /\ s \in States
  BY <1>4 DEF WInv
<1>b. ASSUME NEW q \in Reached, q /= p, NEW r \in States, NEW w
      PROVE  Behind(q, r, w) => Behind(q, r, w)'
  BY <1>5, <1>b, ReachedType DEF Behind
<1>c. ASSUME NEW r \in States, NEW w \in Nat, NEW v \in Nat, Behind(p, r, w),
             \/ lost'[p] = lost[p] /\ v = w + 1
             \/ lost'[p] = lost[p] + 1 /\ v = w
      PROVE  Behind(p, r, v)'
  <2>1. TypeOK' /\ past'[p] = Append(past[p], s) /\ p \in HasBreaker
    BY <1>1, <1>3, <1>5
  <2>2. CASE lost'[p] = lost[p] /\ v = w + 1
    <3>1. \E k \in 1..Len(past'[p]) :
            /\ past'[p][k] = r
            /\ k + (w + 1) <= Len(past'[p])
            /\ Len(past'[p]) <= k + (w + 1) + lost'[p]
      BY <1>a, <1>c, <2>1, <2>2, BehindMoves
    <3>2. QED BY <2>2, <3>1 DEF Behind
  <2>3. CASE lost'[p] = lost[p] + 1 /\ v = w
    <3>1. \E k \in 1..Len(past'[p]) :
            /\ past'[p][k] = r
            /\ k + w <= Len(past'[p])
            /\ Len(past'[p]) <= k + w + lost'[p]
      BY <1>a, <1>c, <2>1, <2>3, BehindMoves
    <3>2. QED BY <2>3, <3>1 DEF Behind
  <2>4. QED BY <1>c, <2>2, <2>3
<1>11. Waiting'
  <2> SUFFICES ASSUME NEW q \in Reached, NEW j \in 1..Len(events'[q])
               PROVE  \E r \in States : /\ events'[q][j] = HealthOf(r)
                                        /\ Behind(q, r, Len(events[q]) - j)'
    BY DEF Waiting
  <2>1. CASE q /= p
    <3>1. events'[q] = events[q]
      BY <1>5, <2>1, ReachedType
    <3>2. PICK r \in States : /\ events[q][j] = HealthOf(r)
                              /\ Behind(q, r, Len(events[q]) - j)
      BY <3>1 DEF WInv, Waiting
    <3>3. Behind(q, r, Len(events[q]) - j)'
      BY <1>b, <2>1, <3>1, <3>2 DEF Behind
    <3>4. QED BY <3>1, <3>2, <3>3
  <2>2. CASE q = p /\ j \in 1..Len(events[p])
    <3>1. PICK r \in States : /\ events[p][j] = HealthOf(r)
                              /\ Behind(p, r, Len(events[p]) - j)
      BY <1>1, <2>2 DEF WInv, Waiting
    <3>2. events'[p][j] = events[p][j]
      BY <1>4, <1>6, <2>2
    <3>3. Len(events[p]) - j \in Nat /\ Len(events'[p]) - j \in Nat
      BY <1>6, <1>10, <1>a, <2>2
    <3>4. \/ lost'[p] = lost[p] /\ Len(events'[p]) - j = (Len(events[p]) - j) + 1
          \/ lost'[p] = lost[p] + 1 /\ Len(events'[p]) - j = Len(events[p]) - j
      BY <1>6, <1>10, <1>a, <2>2
    <3>5. Behind(p, r, Len(events[p]) - j)'
      BY <1>c, <3>1, <3>3, <3>4
    <3>6. QED BY <2>2, <3>1, <3>2, <3>5
  <2>3. CASE q = p /\ j \notin 1..Len(events[p])
    <3>1. /\ events'[p] = Append(events[p], HealthOf(s)) /\ lost'[p] = lost[p]
          /\ j = Len(events[p]) + 1 /\ Len(events'[p]) = Len(events[p]) + 1
      BY <1>6, <1>10, <1>a, <2>3
    <3>2. events'[p][j] = HealthOf(s)
      BY <1>4, <3>1
    <3>3. past'[p][Len(past'[p])] = s /\ Len(past'[p]) \in 1..Len(past'[p])
      BY <1>4, <1>5
    <3>4. Len(events'[p]) - j = 0 /\ lost'[p] \in Nat
      BY <1>4, <1>a, <3>1
    <3>5. Behind(p, s, 0)'
      BY <3>3, <3>4 DEF Behind
    <3>6. Behind(p, s, Len(events[p]) - j)'
      BY <3>4, <3>5 DEF Behind
    <3>7. QED BY <1>a, <2>3, <3>2, <3>6
  <2>4. QED BY <2>1, <2>2, <2>3
<1>12. ASSUME NEW q \in Reached PROVE Honest(q)'
  <2>1. PICK r \in States : /\ gauge[Pattern[q]] = Shown[r]
                            /\ Behind(q, r, Len(events[q]))
    BY <1>1 DEF WInv, GaugeNeverLies
  <2>2. CASE q /= p
    <3>1. events'[q] = events[q]
      BY <1>5, <2>2, ReachedType
    <3>2. Behind(q, r, Len(events[q]))'
      BY <1>b, <2>1, <2>2, <3>1 DEF Behind
    <3>3. QED BY <1>1, <2>1, <3>2 DEF Honest
  <2>3. CASE q = p
    <3>1. Len(events[p]) \in Nat /\ Len(events'[p]) \in Nat
      BY <1>6, <1>10, <1>a
    <3>2. \/ lost'[p] = lost[p] /\ Len(events'[p]) = Len(events[p]) + 1
          \/ lost'[p] = lost[p] + 1 /\ Len(events'[p]) = Len(events[p])
      BY <1>6, <1>10
    <3>3. Behind(p, r, Len(events[p]))'
      BY <1>c, <2>1, <2>3, <3>1, <3>2
    <3>4. QED BY <1>1, <2>1, <2>3, <3>3 DEF Honest
  <2>4. QED BY <2>2, <2>3
<1>13. TransitionsAddUp'
  <2> SUFFICES ASSUME NEW q \in Reached PROVE Balanced(q)'
    BY BalanceIs
  <2>1. Balanced(q) /\ q \in HasBreaker
    BY BalanceIs, ReachedType DEF WInv
  <2>2. CASE q /= p
    BY <1>1, <1>5, <2>1, <2>2 DEF Balanced, Counted
  <2>3. CASE q = p
    <3>0. Balanced(p)
      BY <1>1, BalanceIs DEF WInv
    <3>1. Len(events[p]) \in Nat /\ Len(past[p]) \in Nat /\ lost[p] \in Nat
      BY <1>4
    <3>2. Counted(p)' = Counted(p) /\ Counted(p) \in Nat
      BY <1>1, CountedType DEF Counted, WInv
    <3>3. CASE Len(events'[p]) = Len(events[p]) + 1 /\ lost'[p] = lost[p]
      <4> DEFINE k == Counted(p)
      <4> DEFINE e == Len(events[p])
      <4> DEFINE l == lost[p]
      <4> DEFINE n == Len(past[p])
      <4>1. k \in Nat /\ e \in Nat /\ l \in Nat /\ n \in Nat /\ k + e + l = n - 1
        BY <3>0, <3>1, <3>2 DEF Balanced
      <4>2. Balanced(p)' <=> k + (e + 1) + l = (n + 1) - 1
        BY <1>9, <3>2, <3>3, Zenon DEF Balanced
      <4> HIDE DEF k, e, l, n
      <4>3. k + (e + 1) + l = (n + 1) - 1
        BY <4>1
      <4>4. QED BY <2>3, <4>2, <4>3 DEF Balanced, Counted
    <3>4. CASE events'[p] = events[p] /\ lost'[p] = lost[p] + 1
      <4> DEFINE k == Counted(p)
      <4> DEFINE e == Len(events[p])
      <4> DEFINE l == lost[p]
      <4> DEFINE n == Len(past[p])
      <4>1. k \in Nat /\ e \in Nat /\ l \in Nat /\ n \in Nat /\ k + e + l = n - 1
        BY <3>0, <3>1, <3>2 DEF Balanced
      <4>2. Balanced(p)' <=> k + e + (l + 1) = (n + 1) - 1
        BY <1>9, <3>2, <3>4, Zenon DEF Balanced
      <4> HIDE DEF k, e, l, n
      <4>3. k + e + (l + 1) = (n + 1) - 1
        BY <4>1
      <4>4. QED BY <2>3, <4>2, <4>3 DEF Balanced, Counted
    <3>5. QED BY <1>6, <1>10, <3>3, <3>4
  <2>4. QED BY <2>2, <2>3
<1>14. GaugeNeverLies'
  BY <1>12 DEF GaugeNeverLies, Honest
<1>15. QED BY <1>3, <1>7, <1>8, <1>11, <1>13, <1>14 DEF WInv

LEMMA ConsumeKeeps == ASSUME WInv, NEW p \in Policies, Consume(p) PROVE WInv'
<1> DEFINE l == Pattern[p]
           state == HealthStateLabel(Head(events[p]))
<1>1. /\ transitions' = [transitions EXCEPT ![l][state] = @ + 1]
      /\ gauge' = [gauge EXCEPT ![l] = CircuitStateValue(state)]
      /\ events' = [events EXCEPT ![p] = Tail(@)]
      /\ UNCHANGED <<walked, serving, past, channels, lost>>
      /\ p \in HasBreaker /\ events[p] /= <<>>
  BY DEF Consume, WInv, TypeOK
<1>2. p \in Reached /\ serving /\ l \in Patterns
  BY <1>1 DEF WInv, Idle, Still, Patterns
<1>3. TypeOK /\ TypeOK'
  BY ConsumeType DEF WInv
<1>4. /\ past[p] \in Seq(States) /\ events[p] \in Seq(Healths)
      /\ Head(events[p]) \in Healths /\ state \in States
      /\ Len(Tail(events[p])) = Len(events[p]) - 1
      /\ Len(events[p]) \in Nat /\ Len(past[p]) \in Nat
  <2>1. events[p] \in Seq(Healths) /\ past[p] \in Seq(States)
    BY <1>1, <1>3 DEF TypeOK
  <2>2. Head(events[p]) \in Healths
    BY <1>1, <2>1
  <2>3. QED BY <1>1, <2>1, <2>2, Labels
<1> HIDE DEF state, l
<1>5. /\ events'[p] = Tail(events[p]) /\ gauge'[l] = CircuitStateValue(state)
      /\ \A q \in HasBreaker : q /= p => events'[q] = events[q]
      /\ \A q \in Patterns : q /= l =>
           gauge'[q] = gauge[q] /\ transitions'[q] = transitions[q]
  BY <1>1, <1>2, <1>3 DEF TypeOK
<1>6. ASSUME NEW q \in Reached, q /= p
      PROVE  Pattern[q] /= l /\ Pattern[q] \in Patterns
  BY <1>2, <1>6, ReachedPatterns, ReachedType DEF Patterns, l
<1>7. Watched' /\ Still'
  BY <1>1, <1>2 DEF WInv, Watched, Still
<1>8. Idle'
  BY <1>1, <1>2, <1>5 DEF WInv, Idle
<1>9. UNCHANGED <<past, lost>>
  BY <1>1
<1>10. Waiting'
  <2> SUFFICES ASSUME NEW q \in Reached, NEW j \in 1..Len(events'[q])
               PROVE  \E r \in States : /\ events'[q][j] = HealthOf(r)
                                        /\ Behind(q, r, Len(events[q]) - j)'
    BY DEF Waiting
  <2>1. CASE q /= p
    <3>1. events'[q] = events[q]
      BY <1>5, <2>1, ReachedType
    <3>2. PICK r \in States : /\ events[q][j] = HealthOf(r)
                              /\ Behind(q, r, Len(events[q]) - j)
      BY <3>1 DEF WInv, Waiting
    <3>3. Behind(q, r, Len(events[q]) - j)'
      BY <1>9, <3>1, <3>2 DEF Behind
    <3>4. QED BY <3>1, <3>2, <3>3
  <2>2. CASE q = p
    <3>1. /\ j \in Nat /\ j + 1 \in 1..Len(events[p])
          /\ events'[p][j] = events[p][j + 1]
          /\ Len(events'[p]) - j = Len(events[p]) - (j + 1)
      <4>1. events'[p] = Tail(events[p]) /\ Len(events'[p]) = Len(events[p]) - 1
        BY <1>4, <1>5
      <4>2. j \in 1..(Len(events[p]) - 1)
        BY <2>2, <4>1
      <4>3. Tail(events[p])[j] = events[p][j + 1]
        BY <1>1, <1>4, <4>2
      <4>4. QED BY <1>4, <4>1, <4>2, <4>3
    <3>2. PICK r \in States : /\ events[p][j + 1] = HealthOf(r)
                              /\ Behind(p, r, Len(events[p]) - (j + 1))
      BY <1>2, <3>1 DEF WInv, Waiting
    <3>3. PICK w : w = Len(events[p]) - (j + 1)
      OBVIOUS
    <3>4. Behind(p, r, w)
      BY <3>2, <3>3
    <3>5. Behind(p, r, w)'
      BY <1>9, <3>4 DEF Behind
    <3>6. Behind(p, r, Len(events[p]) - j)'
      BY <3>1, <3>3, <3>5 DEF Behind
    <3>7. QED BY <2>2, <3>1, <3>2, <3>6
  <2>3. QED BY <2>1, <2>2
<1>11. GaugeNeverLies'
  <2> SUFFICES ASSUME NEW q \in Reached PROVE Honest(q)'
    BY DEF GaugeNeverLies, Honest
  <2>1. CASE q = p
    <3>1. gauge'[Pattern[p]] = Shown[state] /\ state \in States
      BY <1>4, <1>5, Labels DEF l
    <3>2. 1 \in 1..Len(events[p]) /\ Head(events[p]) = events[p][1]
      BY <1>1, <1>4
    <3>3. PICK r \in States : /\ events[p][1] = HealthOf(r)
                              /\ Behind(p, r, Len(events[p]) - 1)
      BY <1>2, <3>2 DEF WInv, Waiting
    <3>4. state = r
      BY <3>2, <3>3, Labels DEF state
    <3>5. Len(events'[p]) = Len(events[p]) - 1
      BY <1>4, <1>5
    <3>6. Behind(p, r, Len(events[p]))'
      BY <1>1, <3>3, <3>5 DEF Behind
    <3>7. QED BY <2>1, <3>1, <3>4, <3>6 DEF Honest
  <2>2. CASE q /= p
    <3>1. /\ events'[q] = events[q]
          /\ gauge'[Pattern[q]] = gauge[Pattern[q]]
      BY <1>5, <1>6, <2>2, ReachedType
    <3>2. Honest(q)
      BY <1>2 DEF WInv, GaugeNeverLies, Honest
    <3>3. QED BY <1>1, <3>1, <3>2 DEF Honest, Behind
  <2>3. QED BY <2>1, <2>2
<1>12. TransitionsAddUp'
  <2> SUFFICES ASSUME NEW q \in Reached PROVE Balanced(q)'
    BY BalanceIs
  <2>1. Balanced(q) /\ q \in HasBreaker
    BY BalanceIs, ReachedType DEF WInv
  <2>2. CASE q /= p
    BY <1>1, <1>5, <1>6, <2>1, <2>2 DEF Balanced, Counted
  <2>3. CASE q = p
    <3>1. Counted(p)' = Counted(p) + 1
      BY <1>1, <1>2, <1>3, <1>4, CountedGrows DEF l
    <3>2. lost[p] \in Nat /\ Counted(p) \in Nat
      BY <1>1, <1>2, <1>3, CountedType DEF TypeOK
    <3>3. Len(events'[p]) = Len(events[p]) - 1
      BY <1>4, <1>5
    <3>4. QED BY <1>1, <1>4, <2>1, <2>3, <3>1, <3>2, <3>3 DEF Balanced
  <2>4. QED BY <2>2, <2>3
<1>13. QED BY <1>3, <1>7, <1>8, <1>10, <1>11, <1>12 DEF WInv

LEMMA WNext == WInv /\ [Next]_vars => WInv'
<1>1. WInv /\ UNCHANGED vars => WInv'
  <2> SUFFICES ASSUME WInv, UNCHANGED vars PROVE WInv'
    OBVIOUS
  <2>1. TypeOK'
    BY TypeNext DEF WInv
  <2>2. Watched' /\ Still' /\ Idle' /\ Waiting'
    BY DEF WInv, vars, Watched, Still, Idle, Waiting, Behind
  <2>3. TransitionsAddUp' /\ GaugeNeverLies'
    BY DEF WInv, vars, TransitionsAddUp, GaugeNeverLies, Behind
  <2>4. QED BY <2>1, <2>2, <2>3 DEF WInv
<1>2. QED
  BY <1>1, WatchKeeps, ServeKeeps, DriveKeeps, ConsumeKeeps DEF Next

(* Whatever the channels hold or lose: the gauge shows a state the breaker *)
(* was in, no further back than what waits in the channel and what it lost *)
(* account for - for every list of policies, shadowed ones included.       *)
THEOREM GaugeIsTrue == Spec => []GaugeNeverLies
<1>1. WInv => GaugeNeverLies
  BY DEF WInv
<1>2. QED BY WInit, WNext, <1>1, PTL DEF Spec

(* No transition is missing from the counter but those under way and those *)
(* a full channel refused, and none is counted twice.                      *)
THEOREM TransitionsCounted == Spec => []TransitionsAddUp
<1>1. WInv => TransitionsAddUp
  BY DEF WInv
<1>2. QED BY WInit, WNext, <1>1, PTL DEF Spec
=============================================================================
