------------------------- MODULE SchemaCacheProofs -------------------------
(***************************************************************************)
(* Theorems about SchemaCache, for any lookups, listings, backends, pages  *)
(* and schema changes.                                                     *)
(*                                                                         *)
(* The three safety properties speak of workers that are over.  What makes *)
(* them inductive is what is true of a worker under way: an answer it was  *)
(* given was advertised since it began (Told), and from the moment it has  *)
(* stored an answer (t is no longer pending) the cache holds a compilable  *)
(* schema that is recent for that worker (Taken) - a worker that stores    *)
(* over it later cannot have finished before this one began (Finished), so *)
(* its answer is recent too.                                               *)
(***************************************************************************)
EXTENDS SchemaCache, TLAPS

Fresh == \A w \in Workers : pc[w] = "idle" =>
           \A t \in Tools : reply[w][t] = Unlisted /\ since[w][t] = {}

Finished == \A w \in Workers : \A v \in before[w] : pc[v] \in {"done", "failed"}

Busy == \A w \in Workers :
          /\ pc[w] \in {"asking", "storing"} => todo[w] /= <<>>
          /\ pc[w] \in {"idle", "asking", "done", "failed"} => pending[w] = {}

Told == \A w \in Workers, t \in Tools :
          /\ reply[w][t] /= Unlisted => reply[w][t] \in since[w][t]
          /\ pc[w] /= "idle" => advertised[t] \in since[w][t]

Taken == \A w \in Workers, t \in Tools :
           t \notin pending[w] /\ Compilable(reply[w][t]) =>
             byName[t] \in Recent(w, t) /\ Compilable(byName[t])

IInv == /\ TypeOK /\ Fresh /\ Finished /\ Busy /\ Told /\ Taken
        /\ ListedIsPrimed /\ FetchIsEnforced

LEMMA RecentFacts ==
  ASSUME NEW w \in Workers, NEW t \in Tools
  PROVE  /\ \A x : x \in Recent(w, t) <=>
              \E v \in Workers : v \notin before[w] /\ x \in since[v][t]
         /\ \A x : x \in Recent(w, t)' <=>
              \E v \in Workers : v \notin before'[w] /\ x \in since'[v][t]
  BY DEF Recent

LEMMA InitIInv == ASSUME Init PROVE IInv
<1> USE DEF Init, Workers, NoSchema, Malformed, Unlisted, Offers, Compilable
<1>1. TypeOK
  BY RoutesAssumption DEF TypeOK
<1>2. Fresh /\ Finished /\ Busy /\ Told /\ Taken
  BY <1>1 DEF Fresh, Finished, Busy, Told, Taken, TypeOK
<1>3. ListedIsPrimed /\ FetchIsEnforced
  BY RoutesAssumption DEF ListedIsPrimed, FetchIsEnforced
<1>4. QED BY <1>1, <1>2, <1>3 DEF IInv

(* A backend changes a schema: every worker under way has then seen it.    *)
LEMMA AdvertiseKeeps ==
  ASSUME IInv, NEW t \in Tools, NEW offer \in 0..MaxChanges \cup {NoSchema, Malformed},
         Advertise(t, offer)
  PROVE  IInv'
<1> USE DEF IInv
<1>1. /\ offer \in Offers
      /\ advertised' = [advertised EXCEPT ![t] = offer]
      /\ changes' \in 0..MaxChanges
      /\ UNCHANGED <<byName, pc, todo, reply, pending, found, before>>
  BY RoutesAssumption DEF Advertise, workVars, Offers, NoSchema, Malformed, TypeOK
<1>2. \A w \in Workers, u \in Tools :
        /\ since[w][u] \subseteq since'[w][u]
        /\ pc[w] = "idle" => since'[w][u] = since[w][u]
        /\ pc[w] /= "idle" => advertised'[u] \in since'[w][u]
  BY <1>1 DEF Advertise, TypeOK, Told
<1>3. TypeOK'
  <2>1. since' \in [Workers -> [Tools -> SUBSET Offers]]
    BY <1>1 DEF Advertise, TypeOK
  <2>2. advertised' \in [Tools -> Offers]
    BY <1>1 DEF TypeOK
  <2>3. QED BY <1>1, <2>1, <2>2 DEF TypeOK
<1>4. \A w \in Workers, u \in Tools : \A x :
        x \in Recent(w, u) => x \in Recent(w, u)'
  BY <1>1, <1>2, RecentFacts
<1>5. Fresh' /\ Finished' /\ Busy'
  BY <1>1, <1>2 DEF Fresh, Finished, Busy
<1>6. Told'
  BY <1>1, <1>2 DEF Told
<1>7. Taken'
  BY <1>1, <1>4 DEF Taken
<1>8. ListedIsPrimed' /\ FetchIsEnforced'
  <2>1. ListedIsPrimed'
    BY <1>1 DEF ListedIsPrimed
  <2>2. FetchIsEnforced'
    <3>1. \A v \in Lookups : v \in Workers /\ Target[v] \in Tools
      BY RoutesAssumption DEF Workers
    <3>2. QED BY <1>1, <1>4, <3>1 DEF FetchIsEnforced
  <2>3. QED BY <2>1, <2>2
<1>9. QED BY <1>3, <1>5, <1>6, <1>7, <1>8

(* What both ways to begin share: nothing another worker relies on moves.  *)
LEMMA BeganFacts ==
  ASSUME IInv, NEW w \in Workers, pc[w] = "idle", Began(w)
  PROVE  /\ since' \in [Workers -> [Tools -> SUBSET Offers]]
         /\ before' \in [Workers -> SUBSET Workers]
         /\ before'[w] = {v \in Workers : pc[v] \in {"done", "failed"}}
         /\ \A t \in Tools : since'[w][t] = {advertised[t]}
         /\ \A v \in Workers : v /= w => before'[v] = before[v] /\ since'[v] = since[v]
         /\ \A v \in Workers, t \in Tools : \A x :
              v /= w /\ x \in Recent(v, t) => x \in Recent(v, t)'
<1> USE DEF IInv, TypeOK, Began, Over
<1>1. /\ since' \in [Workers -> [Tools -> SUBSET Offers]]
      /\ before' \in [Workers -> SUBSET Workers]
      /\ before'[w] = {v \in Workers : pc[v] \in {"done", "failed"}}
      /\ \A t \in Tools : since'[w][t] = {advertised[t]}
      /\ \A v \in Workers : v /= w => before'[v] = before[v] /\ since'[v] = since[v]
  OBVIOUS
<1>2. \A t \in Tools : since[w][t] = {}
  BY DEF Fresh
<1>3. \A v \in Workers, t \in Tools : \A x :
        v /= w /\ x \in Recent(v, t) => x \in Recent(v, t)'
  BY <1>1, <1>2, RecentFacts
<1>4. QED BY <1>1, <1>3

LEMMA HitKeeps ==
  ASSUME IInv, NEW w \in Lookups, Hit(w) PROVE IInv'
<1> USE DEF IInv
<1>1. /\ w \in Workers /\ Target[w] \in Tools
      /\ pc[w] = "idle" /\ Compilable(byName[Target[w]])
      /\ pc' = [pc EXCEPT ![w] = "done"]
      /\ found' = [found EXCEPT ![w] = byName[Target[w]]]
      /\ Began(w)
      /\ UNCHANGED <<advertised, changes, byName, todo, reply, pending>>
  BY RoutesAssumption DEF Hit, Workers
<1>2. TypeOK'
  BY <1>1, BeganFacts DEF TypeOK
<1>3. \A t \in Tools : reply[w][t] = Unlisted /\ ~Compilable(reply[w][t])
  BY <1>1 DEF Fresh, Compilable, Unlisted
<1>4. Fresh' /\ Finished' /\ Busy'
  <2>1. /\ pc'[w] = "done"
        /\ \A v \in Workers : v /= w => pc'[v] = pc[v]
    BY <1>1 DEF TypeOK
  <2>2. Fresh'
    BY <1>1, <2>1, BeganFacts DEF Fresh
  <2>3. ASSUME NEW v \in Workers, NEW u \in before'[v] PROVE pc'[u] \in {"done", "failed"}
    <3>1. u \in Workers /\ pc[u] \in {"done", "failed"}
      BY <1>1, BeganFacts DEF Finished, TypeOK
    <3>2. u /= w
      BY <1>1, <3>1
    <3>3. QED BY <2>1, <3>1, <3>2
  <2>4. Busy'
    BY <1>1, <2>1 DEF Busy, TypeOK
  <2>5. QED BY <2>2, <2>3, <2>4 DEF Finished
<1>5. Told'
  BY <1>1, <1>3, BeganFacts DEF Told, TypeOK
<1>6. Taken'
  BY <1>1, <1>3, BeganFacts DEF Taken, TypeOK
<1>7. ListedIsPrimed'
  BY <1>1, BeganFacts DEF ListedIsPrimed, TypeOK, Workers
<1>8. FetchIsEnforced'
  <2>1. ASSUME NEW v \in Lookups, pc'[v] = "done",
               Compilable(reply'[v][Target[v]])
        PROVE  found'[v] \in Recent(v, Target[v])' /\ Compilable(found'[v])
    <3>1. v \in Workers /\ Target[v] \in Tools /\ v /= w
      BY <1>1, <1>3, <2>1, RoutesAssumption DEF Workers
    <3>2. QED BY <1>1, <2>1, <3>1, BeganFacts DEF FetchIsEnforced, TypeOK
  <2>2. QED BY <2>1 DEF FetchIsEnforced
<1>9. QED BY <1>2, <1>4, <1>5, <1>6, <1>7, <1>8

LEMMA AskKeeps ==
  ASSUME IInv, NEW w \in Workers, NEW backends \in Seq(Backends), Ask(w, backends),
         w \in Lookups => ~Compilable(byName[Target[w]])
  PROVE  IInv'
<1> USE DEF IInv
<1>1. /\ pc[w] = "idle"
      /\ pc' = [pc EXCEPT ![w] = IF backends = <<>> THEN "done" ELSE "asking"]
      /\ todo' = [todo EXCEPT ![w] = backends]
      /\ Began(w)
      /\ UNCHANGED <<advertised, changes, byName, reply, pending, found>>
  BY DEF Ask
<1>2. TypeOK'
  BY <1>1, BeganFacts DEF TypeOK
<1>3. \A t \in Tools : reply[w][t] = Unlisted /\ ~Compilable(reply[w][t])
  BY <1>1 DEF Fresh, Compilable, Unlisted
<1>4. Fresh' /\ Finished' /\ Busy'
  <2>1. /\ pc'[w] \in {"asking", "done"}
        /\ \A v \in Workers : v /= w => pc'[v] = pc[v]
    BY <1>1 DEF TypeOK
  <2>2. Fresh'
    BY <1>1, <2>1, BeganFacts DEF Fresh
  <2>3. ASSUME NEW v \in Workers, NEW u \in before'[v] PROVE pc'[u] \in {"done", "failed"}
    <3>1. u \in Workers /\ pc[u] \in {"done", "failed"}
      BY <1>1, BeganFacts DEF Finished, TypeOK
    <3>2. u /= w
      BY <1>1, <3>1
    <3>3. QED BY <2>1, <3>1, <3>2
  <2>4. Busy'
    BY <1>1, <2>1 DEF Busy, TypeOK
  <2>5. QED BY <2>2, <2>3, <2>4 DEF Finished
<1>5. Told'
  BY <1>1, <1>3, BeganFacts DEF Told, TypeOK
<1>6. Taken'
  BY <1>1, <1>3, BeganFacts DEF Taken, TypeOK
<1>7. ListedIsPrimed'
  <2>1. ASSUME NEW v \in Lookups, NEW l \in Workers, l \in before'[v],
               Compilable(reply'[l][Target[v]])
        PROVE  pc'[v] = "done" /\ Compilable(found'[v])
    <3>1. v \in Workers /\ l \in Workers /\ Target[v] \in Tools
      BY RoutesAssumption DEF Workers
    <3>2. CASE v = w
      <4>1. pc[l] \in {"done", "failed"}
        BY <1>1, <2>1, <3>1, <3>2, BeganFacts
      <4>2. Compilable(byName[Target[v]])
        BY <1>1, <2>1, <3>1, <4>1 DEF Busy, Taken
      <4>3. QED BY <3>2, <4>2
    <3>3. CASE v /= w
      BY <1>1, <2>1, <3>1, <3>3, BeganFacts DEF ListedIsPrimed, TypeOK
    <3>4. QED BY <3>2, <3>3
  <2>2. QED BY <2>1 DEF ListedIsPrimed
<1>8. FetchIsEnforced'
  <2>1. ASSUME NEW v \in Lookups, pc'[v] = "done",
               Compilable(reply'[v][Target[v]])
        PROVE  found'[v] \in Recent(v, Target[v])' /\ Compilable(found'[v])
    <3>1. v \in Workers /\ Target[v] \in Tools /\ v /= w
      BY <1>1, <1>3, <2>1, RoutesAssumption DEF Workers
    <3>2. QED BY <1>1, <2>1, <3>1, BeganFacts DEF FetchIsEnforced, TypeOK
  <2>2. QED BY <2>1 DEF FetchIsEnforced
<1>9. QED BY <1>2, <1>4, <1>5, <1>6, <1>7, <1>8

(* Steps of a worker under way leave every worker's "recent" as it is.     *)
LEMMA RecentUnchanged ==
  ASSUME UNCHANGED ghostVars, NEW w \in Workers, NEW t \in Tools
  PROVE  Recent(w, t)' = Recent(w, t)
BY DEF Recent, ghostVars

LEMMA ListReplyKeeps ==
  ASSUME IInv, NEW w \in Workers, ListReply(w) PROVE IInv'
<1> USE DEF IInv
<1> DEFINE listed == Answered(Head(todo[w]))
<1>1. /\ pc[w] = "asking" /\ pc' = [pc EXCEPT ![w] = "storing"]
      /\ reply' = [reply EXCEPT ![w] =
                    [t \in Tools |-> IF t \in listed THEN advertised[t]
                                                     ELSE reply[w][t]]]
      /\ pending' = [pending EXCEPT ![w] = listed]
      /\ listed \subseteq Tools
      /\ UNCHANGED <<advertised, changes, byName, todo, found, since, before>>
      /\ UNCHANGED ghostVars
  BY RoutesAssumption DEF ListReply, ghostVars, Answered
<1> HIDE DEF listed
<1>2. TypeOK'
  <2>1. reply' \in [Workers -> [Tools -> Offers \cup {Unlisted}]]
    BY <1>1 DEF TypeOK
  <2>2. pending' \in [Workers -> SUBSET Tools]
    BY <1>1 DEF TypeOK
  <2>3. QED BY <1>1, <2>1, <2>2 DEF TypeOK
<1>3. /\ \A v \in Workers : v /= w =>
           pc'[v] = pc[v] /\ reply'[v] = reply[v] /\ pending'[v] = pending[v]
      /\ pc'[w] = "storing" /\ pending'[w] = listed
      /\ \A t \in Tools :
           reply'[w][t] = IF t \in listed THEN advertised[t] ELSE reply[w][t]
  BY <1>1 DEF TypeOK
<1>4. Fresh' /\ Finished' /\ Busy'
  BY <1>1, <1>3 DEF Fresh, Finished, Busy, TypeOK
<1>5. Told'
  BY <1>1, <1>3 DEF Told
<1>6. Taken'
  <2>1. ASSUME NEW v \in Workers, NEW t \in Tools,
               t \notin pending'[v], Compilable(reply'[v][t])
        PROVE  byName[t] \in Recent(v, t) /\ Compilable(byName[t])
    <3>1. t \notin pending[v] /\ reply'[v][t] = reply[v][t]
      BY <1>1, <1>3, <2>1 DEF Busy
    <3>2. QED BY <2>1, <3>1 DEF Taken
  <2>2. QED BY <1>1, <2>1, RecentUnchanged DEF Taken
<1>7. ListedIsPrimed'
  <2>1. ASSUME NEW v \in Lookups, NEW l \in Workers, l \in before'[v],
               Compilable(reply'[l][Target[v]])
        PROVE  pc'[v] = "done" /\ Compilable(found'[v])
    <3>1. v \in Workers /\ l \in Workers /\ l /= w
      BY <1>1, <2>1 DEF Workers, Finished
    <3>2. pc[v] = "done" /\ Compilable(found[v])
      BY <1>1, <1>3, <2>1, <3>1 DEF ListedIsPrimed
    <3>3. QED BY <1>1, <1>3, <3>1, <3>2
  <2>2. QED BY <2>1 DEF ListedIsPrimed
<1>8. FetchIsEnforced'
  <2>1. ASSUME NEW v \in Lookups, pc'[v] = "done",
               Compilable(reply'[v][Target[v]])
        PROVE  found[v] \in Recent(v, Target[v]) /\ Compilable(found[v])
    BY <1>1, <1>3, <2>1 DEF FetchIsEnforced, Workers
  <2>2. \A v \in Lookups : v \in Workers /\ Target[v] \in Tools
    BY RoutesAssumption DEF Workers
  <2>3. QED BY <1>1, <2>1, <2>2, RecentUnchanged DEF FetchIsEnforced
<1>9. QED BY <1>2, <1>4, <1>5, <1>6, <1>7, <1>8

LEMMA ListFailKeeps ==
  ASSUME IInv, NEW w \in Workers, ListFail(w) PROVE IInv'
<1> USE DEF IInv
<1>1. /\ pc[w] = "asking" /\ pc' = [pc EXCEPT ![w] = "failed"]
      /\ UNCHANGED <<advertised, changes, byName, todo, reply, pending, found,
                     since, before>>
      /\ UNCHANGED ghostVars
  BY DEF ListFail, ghostVars
<1>2. pc'[w] = "failed" /\ \A v \in Workers : v /= w => pc'[v] = pc[v]
  BY <1>1 DEF TypeOK
<1>3. TypeOK'
  BY <1>1 DEF TypeOK
<1>4. Fresh' /\ Finished' /\ Busy' /\ Told'
  BY <1>1, <1>2 DEF Fresh, Finished, Busy, Told, TypeOK
<1>5. Taken'
  BY <1>1, RecentUnchanged DEF Taken
<1>6. \A v \in Lookups : v \in Workers /\ Target[v] \in Tools
  BY RoutesAssumption DEF Workers
<1>7. ListedIsPrimed' /\ FetchIsEnforced'
  <2>1. ListedIsPrimed'
    BY <1>1, <1>2, <1>6 DEF ListedIsPrimed
  <2>2. FetchIsEnforced'
    BY <1>1, <1>2, <1>6, RecentUnchanged DEF FetchIsEnforced
  <2>3. QED BY <2>1, <2>2
<1>8. QED BY <1>3, <1>4, <1>5, <1>7

(* Storing one tool.  Only here does the cache change: to an answer that   *)
(* was advertised since w began, and w cannot have finished before anyone. *)
LEMMA RefreshKeeps ==
  ASSUME IInv, NEW w \in Workers, NEW t \in Tools, Refresh(w, t) PROVE IInv'
<1> USE DEF IInv
<1>1. /\ pc[w] = "storing" /\ t \in pending[w]
      /\ byName' = [byName EXCEPT ![t] = Stored(t, reply[w][t])]
      /\ pending' = [pending EXCEPT ![w] = pending[w] \ {t}]
      /\ UNCHANGED <<advertised, changes, pc, todo, reply, found, since, before>>
      /\ UNCHANGED ghostVars
  BY DEF Refresh, Remaining, ghostVars
<1>2. /\ \A u \in Tools : u /= t => byName'[u] = byName[u]
      /\ Compilable(reply[w][t]) => byName'[t] = reply[w][t]
      /\ ~Compilable(reply[w][t]) => byName'[t] = byName[t]
      /\ \A v \in Workers : v /= w => pending'[v] = pending[v]
      /\ pending'[w] = pending[w] \ {t}
  BY <1>1 DEF TypeOK, Stored
<1>3. TypeOK'
  <2>1. Compilable(reply[w][t]) => reply[w][t] \in Nat
    <3>1. reply[w][t] \in Offers \cup {Unlisted}
      BY DEF TypeOK
    <3>2. QED BY <3>1 DEF Compilable, Offers, NoSchema, Malformed, Unlisted
  <2>2. byName' \in [Tools -> {NoSchema} \cup Nat]
    BY <1>1, <2>1 DEF TypeOK, Stored
  <2>3. QED BY <1>1, <2>2 DEF TypeOK
<1>4. Fresh' /\ Finished' /\ Busy' /\ Told'
  BY <1>1, <1>2 DEF Fresh, Finished, Busy, Told, TypeOK
<1>5. Compilable(reply[w][t]) =>
        \A v \in Workers : reply[w][t] \in Recent(v, t)
  <2>1. Compilable(reply[w][t]) => reply[w][t] \in since[w][t]
    BY DEF Told, Compilable, Unlisted
  <2>2. \A v \in Workers : w \notin before[v]
    BY <1>1 DEF Finished
  <2>3. QED BY <2>1, <2>2, RecentFacts
<1>6. Taken'
  <2>1. ASSUME NEW v \in Workers, NEW u \in Tools,
               u \notin pending'[v], Compilable(reply[v][u])
        PROVE  byName'[u] \in Recent(v, u) /\ Compilable(byName'[u])
    <3>1. CASE u = t /\ Compilable(reply[w][t])
      BY <1>2, <1>5, <3>1
    <3>2. CASE ~(u = t /\ Compilable(reply[w][t]))
      <4>1. byName'[u] = byName[u]
        BY <1>2, <3>2
      <4>2. u \notin pending[v]
        BY <1>2, <2>1, <3>2
      <4>3. QED BY <2>1, <4>1, <4>2 DEF Taken
    <3>3. QED BY <3>1, <3>2
  <2>2. QED BY <1>1, <2>1, RecentUnchanged DEF Taken
<1>7. ListedIsPrimed' /\ FetchIsEnforced'
  <2>1. \A v \in Lookups : v \in Workers /\ Target[v] \in Tools
    BY RoutesAssumption DEF Workers
  <2>2. ListedIsPrimed'
    BY <1>1 DEF ListedIsPrimed
  <2>3. FetchIsEnforced'
    BY <1>1, <2>1, RecentUnchanged DEF FetchIsEnforced
  <2>4. QED BY <2>2, <2>3
<1>8. QED BY <1>3, <1>4, <1>6, <1>7

(* The last route of a lookup is its second look at the cache.             *)
LEMMA NextRouteKeeps ==
  ASSUME IInv, NEW w \in Workers, NextRoute(w) PROVE IInv'
<1> USE DEF IInv
<1>1. /\ pc[w] = "storing" /\ pending[w] = {}
      /\ todo' = [todo EXCEPT ![w] = Tail(todo[w])]
      /\ pc' = [pc EXCEPT ![w] = IF todo'[w] = <<>> THEN "done" ELSE "asking"]
      /\ found' = IF w \in Lookups
                  THEN [found EXCEPT ![w] = byName[Target[w]]] ELSE found
      /\ UNCHANGED <<advertised, changes, byName, reply, pending, since, before>>
      /\ UNCHANGED ghostVars
  BY DEF NextRoute, ghostVars
<1>2. \A v \in Lookups : v \in Workers /\ Target[v] \in Tools
  BY RoutesAssumption DEF Workers
<1>3. Tail(todo[w]) \in Seq(Backends)
  BY <1>1 DEF Busy, TypeOK
<1>4. /\ \A v \in Workers : v /= w =>
           pc'[v] = pc[v] /\ todo'[v] = todo[v] /\ found'[v] = found[v]
      /\ pc'[w] \in {"asking", "done"}
      /\ pc'[w] = "asking" => todo'[w] /= <<>>
      /\ w \in Lookups => found'[w] = byName[Target[w]]
  BY <1>1, <1>3 DEF TypeOK
<1>5. TypeOK'
  <2>1. todo' \in [Workers -> Seq(Backends)]
    BY <1>1, <1>3 DEF TypeOK
  <2>2. found' \in [Workers -> {NoSchema} \cup Nat]
    BY <1>1, <1>2 DEF TypeOK
  <2>3. QED BY <1>1, <2>1, <2>2 DEF TypeOK
<1>6. Fresh' /\ Finished' /\ Busy' /\ Told'
  BY <1>1, <1>4 DEF Fresh, Finished, Busy, Told, TypeOK
<1>7. Taken'
  BY <1>1, RecentUnchanged DEF Taken
<1>8. ListedIsPrimed'
  <2>1. ASSUME NEW v \in Lookups, NEW l \in Workers, l \in before[v],
               Compilable(reply[l][Target[v]])
        PROVE  pc'[v] = "done" /\ Compilable(found'[v])
    <3>1. pc[v] = "done" /\ Compilable(found[v])
      BY <2>1 DEF ListedIsPrimed
    <3>2. QED BY <1>1, <1>2, <1>4, <3>1
  <2>2. QED BY <1>1, <2>1 DEF ListedIsPrimed
<1>9. FetchIsEnforced'
  <2>1. ASSUME NEW v \in Lookups, pc'[v] = "done", Compilable(reply[v][Target[v]])
        PROVE  found'[v] \in Recent(v, Target[v]) /\ Compilable(found'[v])
    <3>1. CASE v = w
      BY <1>1, <1>2, <1>4, <2>1, <3>1 DEF Taken
    <3>2. CASE v /= w
      BY <1>2, <1>4, <2>1, <3>2 DEF FetchIsEnforced
    <3>3. QED BY <3>1, <3>2
  <2>2. QED BY <1>1, <1>2, <2>1, RecentUnchanged DEF FetchIsEnforced
<1>10. QED BY <1>5, <1>6, <1>7, <1>8, <1>9

-----------------------------------------------------------------------------
LEMMA NextIInv == ASSUME IInv, Next PROVE IInv'
<1>1. CASE \E t \in Tools, offer \in 0..MaxChanges \cup {NoSchema, Malformed} :
             Advertise(t, offer)
  BY <1>1, AdvertiseKeeps
<1>2. CASE \E w \in Lookups : Hit(w)
  BY <1>2, HitKeeps
<1>3. CASE \E w \in Lookups : Miss(w)
  <2>1. PICK w \in Lookups : Miss(w)
    BY <1>3
  <2>2. /\ w \in Workers /\ <<BackendOf[Target[w]]>> \in Seq(Backends)
        /\ Ask(w, <<BackendOf[Target[w]]>>) /\ ~Compilable(byName[Target[w]])
    BY <2>1, RoutesAssumption DEF Miss, Workers
  <2>3. QED BY <2>2, AskKeeps
<1>4. CASE \E w \in Listings : StartListing(w)
  <2>1. PICK w \in Listings : StartListing(w)
    BY <1>4
  <2>2. w \in Workers /\ w \notin Lookups /\ Ask(w, Routes)
    BY <2>1, RoutesAssumption DEF StartListing, Workers
  <2>3. QED BY <2>2, AskKeeps, RoutesAssumption
<1>5. CASE \E w \in Workers : ListReply(w) \/ ListFail(w) \/ NextRoute(w)
  BY <1>5, ListReplyKeeps, ListFailKeeps, NextRouteKeeps
<1>6. CASE \E w \in Workers, t \in Tools : Refresh(w, t)
  BY <1>6, RefreshKeeps
<1>7. QED BY <1>1, <1>2, <1>3, <1>4, <1>5, <1>6 DEF Next

LEMMA StutterIInv == ASSUME IInv, UNCHANGED vars PROVE IInv'
<1>1. \A w \in Workers, t \in Tools : Recent(w, t)' = Recent(w, t)
  BY RecentUnchanged DEF vars
<1>2. \A v \in Lookups : v \in Workers /\ Target[v] \in Tools
  BY RoutesAssumption DEF Workers
<1>3. TypeOK' /\ Fresh' /\ Finished' /\ Busy' /\ Told' /\ ListedIsPrimed'
  BY DEF IInv, vars, workVars, ghostVars, TypeOK, Fresh, Finished, Busy, Told,
         ListedIsPrimed
<1>4. Taken'
  BY <1>1 DEF IInv, vars, workVars, Taken
<1>5. FetchIsEnforced'
  BY <1>1, <1>2 DEF IInv, vars, workVars, FetchIsEnforced
<1>6. QED BY <1>3, <1>4, <1>5 DEF IInv

(* The strengthened invariant, and with it the types of the state.         *)
LEMMA Inductive == Spec => []IInv
<1>1. Init => IInv
  BY InitIInv
<1>2. IInv /\ [Next]_vars => IInv'
  BY NextIInv, StutterIInv
<1>3. QED BY <1>1, <1>2, PTL DEF Spec

(* Once a worker that was told a tool's schema is over - done, or failed   *)
(* at a later route - the cache never again holds one that was superseded  *)
(* before it, and everyone racing with it, began (refresh, whatever the    *)
(* interleaving of its locks).                                             *)
THEOREM ListingsTakeEffect == Spec => []ListingTakesEffect
<1>1. IInv => ListingTakesEffect
  BY DEF IInv, Busy, Taken, Over, ListingTakesEffect
<1>2. QED BY Inductive, <1>1, PTL

(* A call after a tools/list, complete or failed half-way, or after        *)
(* another call's lookup, never asks the backend for a schema that was in  *)
(* an answer to it and that compiles (listTools, resolveTool).             *)
THEOREM ListingPrimes == Spec => []ListedIsPrimed
<1>1. IInv => ListedIsPrimed
  BY DEF IInv
<1>2. QED BY Inductive, <1>1, PTL

(* A lookup that fetched its tool's schema comes back with one, and with a *)
(* recent one (resolveTool's second get).                                  *)
THEOREM FetchesAreEnforced == Spec => []FetchIsEnforced
<1>1. IInv => FetchIsEnforced
  BY DEF IInv
<1>2. QED BY Inductive, <1>1, PTL

(* Type correctness. *)
THEOREM TypeCorrect == Spec => []TypeOK
<1>1. IInv => TypeOK
  BY DEF IInv
<1>2. QED BY Inductive, <1>1, PTL
=============================================================================
