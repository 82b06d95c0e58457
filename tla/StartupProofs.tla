--------------------------- MODULE StartupProofs ---------------------------
(***************************************************************************)
(* Theorems about Startup, for any configuration files with any number of  *)
(* backends under any prefixes, and any names of tools.                    *)
(***************************************************************************)
EXTENDS Startup, SequenceTheorems, WellFoundedInduction, TLAPS

Sections == {"decodes", "server", "auth", "metrics", "logging", "backends", "policies"}

(* What the proofs need of a file. *)
LEMMA FileParts ==
  ASSUME NEW file \in Files
  PROVE  /\ DOMAIN file = Sections
         /\ DOMAIN file.auth = {"enabled", "header", "tokens"}
         /\ DOMAIN file.metrics = {"enabled", "port", "path"}
         /\ Len(file.backends) \in Nat /\ DOMAIN file.backends = 1..Len(file.backends)
         /\ \A i \in DOMAIN file.backends :
              /\ DOMAIN file.backends[i] = {"id", "prefix", "transport", "url"}
              /\ file.backends[i].prefix \in Seq(Chars)
<1>1. IsFile(file, Chars, Symbols)
  BY FilesAssumption
<1>2. QED BY <1>1 DEF IsFile, Sections

(* The parts of a configuration, after its defaults. *)
LEMMA Parts ==
  ASSUME NEW c, DOMAIN c = Sections
  PROVE  LET a == ApplyDefaults(c)
         IN  /\ DOMAIN a = Sections
             /\ a.decodes = c.decodes
             /\ a.server = Fill(c.server, ServerDefaults)
             /\ a.auth = IF c.auth.enabled THEN Fill(c.auth, {"header"}) ELSE c.auth
             /\ a.metrics = IF c.metrics.enabled THEN Fill(c.metrics, MetricsDefaults)
                                                 ELSE c.metrics
             /\ a.logging = Fill(c.logging, LoggingDefaults)
             /\ a.backends = [i \in DOMAIN c.backends |->
                                Fill(c.backends[i], BackendDefaults)]
             /\ a.policies = [i \in DOMAIN c.policies |->
                  FillPolicy(c.policies[i])]
BY DEF ApplyDefaults, Sections

(* Once filled in, a field stays as it is. *)
LEMMA FillTwice ==
  ASSUME NEW s, NEW F
  PROVE  /\ DOMAIN Fill(s, F) = DOMAIN s
         /\ Fill(Fill(s, F), F) = Fill(s, F)
         /\ \A f \in DOMAIN s \ F : Fill(s, F)[f] = s[f]
BY DEF Fill

LEMMA PolicyTwice ==
  ASSUME NEW policy
  PROVE  FillPolicy(FillPolicy(policy)) = FillPolicy(policy)
<1> DEFINE filled == FillRetries(policy.retries)
<1>1. FillRetries(filled) = filled
  BY FillTwice DEF FillRetries
<1> HIDE DEF filled
<1>2. [[policy EXCEPT !.retries = filled] EXCEPT !.retries = filled]
        = [policy EXCEPT !.retries = filled]
  OBVIOUS
<1>3. QED BY <1>1, <1>2 DEF FillPolicy, filled

LEMMA ExceptIsRecord ==
  ASSUME NEW f, NEW u, NEW v
  PROVE  LET g == [f EXCEPT ![u] = v] IN g = [x \in DOMAIN g |-> g[x]]
OBVIOUS

LEMMA DefaultsAreRecord ==
  ASSUME NEW c
  PROVE  ApplyDefaults(c) = [x \in DOMAIN ApplyDefaults(c) |-> ApplyDefaults(c)[x]]
<1> DEFINE policies == [i \in DOMAIN c.policies |-> FillPolicy(c.policies[i])]
<1> DEFINE others ==
      [c EXCEPT
         !.server   = Fill(@, ServerDefaults),
         !.auth     = IF @.enabled THEN Fill(@, {"header"}) ELSE @,
         !.metrics  = IF @.enabled THEN Fill(@, MetricsDefaults) ELSE @,
         !.logging  = Fill(@, LoggingDefaults),
         !.backends = [i \in DOMAIN @ |-> Fill(@[i], BackendDefaults)]]
<1>1. ApplyDefaults(c) = [others EXCEPT !.policies = policies]
  BY DEF ApplyDefaults
<1>2. QED BY <1>1, ExceptIsRecord

(* Defaults written out are defaults: applying them again changes nothing. *)
LEMMA DefaultsAreStable ==
  ASSUME NEW file \in Files
  PROVE  ApplyDefaults(ApplyDefaults(file)) = ApplyDefaults(file)
<1> DEFINE a == ApplyDefaults(file)
<1> DEFINE b == ApplyDefaults(a)
<1>1. DOMAIN file = Sections
  BY FileParts
<1>2. /\ DOMAIN a = Sections
      /\ a.decodes = file.decodes
      /\ a.server = Fill(file.server, ServerDefaults)
      /\ a.auth = IF file.auth.enabled THEN Fill(file.auth, {"header"}) ELSE file.auth
      /\ a.metrics = IF file.metrics.enabled THEN Fill(file.metrics, MetricsDefaults)
                                             ELSE file.metrics
      /\ a.logging = Fill(file.logging, LoggingDefaults)
      /\ a.backends = [i \in DOMAIN file.backends |->
                         Fill(file.backends[i], BackendDefaults)]
      /\ a.policies = [i \in DOMAIN file.policies |-> FillPolicy(file.policies[i])]
  BY <1>1, Parts
<1>3. /\ DOMAIN b = Sections
      /\ b.decodes = a.decodes
      /\ b.server = Fill(a.server, ServerDefaults)
      /\ b.auth = IF a.auth.enabled THEN Fill(a.auth, {"header"}) ELSE a.auth
      /\ b.metrics = IF a.metrics.enabled THEN Fill(a.metrics, MetricsDefaults)
                                          ELSE a.metrics
      /\ b.logging = Fill(a.logging, LoggingDefaults)
      /\ b.backends = [i \in DOMAIN a.backends |-> Fill(a.backends[i], BackendDefaults)]
      /\ b.policies = [i \in DOMAIN a.policies |-> FillPolicy(a.policies[i])]
  BY <1>2, Parts
<1>4. a = [x \in DOMAIN a |-> a[x]] /\ b = [x \in DOMAIN b |-> b[x]]
  BY DefaultsAreRecord
<1> HIDE DEF a, b
<1>5. b.server = a.server /\ b.logging = a.logging
  BY <1>2, <1>3, FillTwice
<1>6. b.auth = a.auth
  <2>1. a.auth.enabled = file.auth.enabled
    <3>1. "enabled" \in DOMAIN file.auth \ {"header"}
      BY FileParts
    <3>2. Fill(file.auth, {"header"}).enabled = file.auth.enabled
      BY <3>1, FillTwice
    <3>3. QED BY <1>2, <3>2
  <2>2. Fill(Fill(file.auth, {"header"}), {"header"}) = Fill(file.auth, {"header"})
    BY FillTwice
  <2>3. QED BY <1>2, <1>3, <2>1, <2>2
<1>7. b.metrics = a.metrics
  <2>1. a.metrics.enabled = file.metrics.enabled
    <3>1. "enabled" \in DOMAIN file.metrics \ MetricsDefaults
      BY FileParts DEF MetricsDefaults
    <3>2. Fill(file.metrics, MetricsDefaults).enabled = file.metrics.enabled
      BY <3>1, FillTwice
    <3>3. QED BY <1>2, <3>2
  <2>2. Fill(Fill(file.metrics, MetricsDefaults), MetricsDefaults)
          = Fill(file.metrics, MetricsDefaults)
    BY FillTwice
  <2>3. QED BY <1>2, <1>3, <2>1, <2>2
<1>8. b.backends = a.backends
  <2>1. \A i \in DOMAIN a.backends : Fill(a.backends[i], BackendDefaults) = a.backends[i]
    BY <1>2, FillTwice
  <2>2. QED BY <1>2, <1>3, <2>1
<1>9. b.policies = a.policies
  <2>1. \A i \in DOMAIN a.policies : FillPolicy(a.policies[i]) = a.policies[i]
    BY <1>2, PolicyTwice
  <2>2. QED BY <1>2, <1>3, <2>1
<1>10. \A x \in Sections : a[x] = b[x]
  BY <1>3, <1>5, <1>6, <1>7, <1>8, <1>9 DEF Sections
<1>11. a = b
  BY <1>2, <1>3, <1>4, <1>10
<1>12. QED BY <1>11 DEF a, b

-----------------------------------------------------------------------------
(* What the configuration is, whatever became of it. *)

(* The list of backends, with prefixes of characters. *)
IsList(list) ==
  /\ Len(list) \in Nat /\ DOMAIN list = 1..Len(list)
  /\ \A i \in DOMAIN list : list[i].prefix \in Seq(Chars)

LEMMA ListInFile ==
  ASSUME NEW file \in Files
  PROVE  IsList(file.backends) /\ IsList(ApplyDefaults(file).backends)
<1> DEFINE list == file.backends
<1> DEFINE filled == ApplyDefaults(file).backends
<1>1. IsList(list) /\ \A i \in DOMAIN list : "prefix" \in DOMAIN list[i]
  BY FileParts DEF IsList
<1>2. filled = [i \in DOMAIN list |-> Fill(list[i], BackendDefaults)]
  BY FileParts, Parts
<1>3. \A i \in DOMAIN list : Fill(list[i], BackendDefaults).prefix = list[i].prefix
  BY <1>1 DEF Fill, BackendDefaults
<1> HIDE DEF list, filled
<1>4. DOMAIN filled = 1..Len(list) /\ Len(list) \in Nat
  BY <1>1, <1>2 DEF IsList
<1>5. Len(filled) = Len(list)
  BY <1>2, <1>4
<1>6. IsList(filled)
  BY <1>1, <1>2, <1>3, <1>4, <1>5 DEF IsList
<1>7. QED BY <1>1, <1>6 DEF list, filled

LEMMA AcceptsPrefixes ==
  ASSUME NEW c, Accepts(c), ApplyDefaults(c) = c
  PROVE  ValidatePrefixes(c.backends)
BY DEF Accepts

-----------------------------------------------------------------------------
(* The inductive invariant. *)

Decided == phase \notin {"loading", "rejected"}

Increasing == \A k, l \in DOMAIN routes : k < l => routes[k] < routes[l]

(* Nothing happens before the configuration is accepted ... *)
Untouched ==
  ~Decided => /\ cfg \in Files /\ answer = <<>> /\ next = 1
              /\ routes = <<>> /\ sessions = {}
              /\ phase = "rejected" => ~Accepts(cfg)

(* ... which is then complete, with a fate for each of its backends; *)
Complete ==
  Decided => /\ \E file \in Files : cfg = ApplyDefaults(file)
             /\ ApplyDefaults(cfg) = cfg /\ Accepts(cfg)
             /\ DOMAIN answer = DOMAIN cfg.backends

(* there is a route for every reachable backend up to the one to dial. *)
Dialed == {routes[k] : k \in DOMAIN routes} = {i \in Reachable : i < next}

SInv ==
  /\ phase \in {"loading", "rejected", "dialing", "serving", "stopped"}
  /\ IsList(cfg.backends)
  /\ Untouched
  /\ Complete
  /\ next \in 1..Len(cfg.backends) + 1
  /\ phase \in {"serving", "stopped"} => next = Len(cfg.backends) + 1
  /\ routes \in Seq(Reachable)
  /\ Increasing
  /\ Dialed
  /\ NoSessionLeaks

LEMMA SInvInit == Init => SInv
<1> SUFFICES ASSUME Init PROVE SInv
  OBVIOUS
<1>1. IsList(cfg.backends)
  BY ListInFile DEF Init
<1>2. Reachable = {}
  BY DEF Init, Reachable, Answering
<1>3. routes \in Seq(Reachable) /\ DOMAIN routes = {}
  BY DEF Init
<1>4. next \in 1..Len(cfg.backends) + 1
  BY <1>1 DEF IsList, Init
<1>5. QED
  BY <1>1, <1>2, <1>3, <1>4 DEF SInv, Init, Untouched, Complete, Decided,
     Increasing, Dialed, NoSessionLeaks

LEMMA LoadKeeps == ASSUME SInv, Load PROVE SInv'
<1>1. cfg \in Files /\ answer = <<>> /\ next = 1 /\ routes = <<>> /\ sessions = {}
      /\ next' = 1 /\ routes' = <<>> /\ sessions' = {}
  BY DEF SInv, Load, Untouched, Decided
<1>2. routes' \in Seq(Reachable') /\ DOMAIN routes' = {}
  BY <1>1
<1>3. CASE Accepts(cfg)
  <2>1. /\ phase' = "dialing" /\ cfg' = ApplyDefaults(cfg)
        /\ answer' \in [DOMAIN cfg.backends -> {"up", "down", "refused", "silent"}]
    BY <1>3 DEF Load
  <2>2. ApplyDefaults(cfg') = cfg' /\ IsList(cfg'.backends)
    BY <1>1, <2>1, DefaultsAreStable, ListInFile
  <2>3. cfg'.decodes = cfg.decodes /\ DOMAIN cfg'.backends = DOMAIN cfg.backends
    <3>1. DOMAIN cfg = Sections
      BY <1>1, FileParts
    <3>2. /\ ApplyDefaults(cfg).decodes = cfg.decodes
          /\ ApplyDefaults(cfg).backends =
               [i \in DOMAIN cfg.backends |-> Fill(cfg.backends[i], BackendDefaults)]
      BY <3>1, Parts
    <3>3. QED BY <2>1, <3>2
  <2>4. Accepts(cfg')
    BY <1>3, <2>1, <2>2, <2>3 DEF Accepts
  <2>5. DOMAIN answer' = DOMAIN cfg'.backends /\ Reachable' \subseteq 1..Len(cfg'.backends)
    BY <2>1, <2>2, <2>3 DEF Reachable, Answering, IsList
  <2>6. {i \in Reachable' : i < 1} = {}
    <3>1. \A i \in Reachable' : ~(i < 1)
      BY <2>5
    <3>2. QED BY <3>1
  <2>7. next' \in 1..Len(cfg'.backends) + 1
    BY <1>1, <2>2 DEF IsList
  <2>8. Decided' /\ Untouched' /\ Complete'
    BY <1>1, <2>1, <2>2, <2>4, <2>5 DEF Untouched, Complete, Decided
  <2>9. Increasing' /\ Dialed' /\ NoSessionLeaks'
    BY <1>1, <1>2, <2>1, <2>6 DEF Increasing, Dialed, NoSessionLeaks
  <2>10. QED
    BY <1>1, <1>2, <2>1, <2>2, <2>7, <2>8, <2>9 DEF SInv
<1>4. CASE ~Accepts(cfg)
  <2>1. phase' = "rejected" /\ cfg' = cfg /\ answer' = answer
    BY <1>4 DEF Load
  <2>2. Reachable' = {}
    BY <1>1, <2>1 DEF Reachable, Answering
  <2>3. Untouched' /\ Complete'
    BY <1>1, <1>4, <2>1 DEF Untouched, Complete, Decided
  <2>4. Increasing' /\ Dialed' /\ NoSessionLeaks'
    BY <1>1, <1>2, <2>1, <2>2 DEF Increasing, Dialed, NoSessionLeaks
  <2>5. QED
    BY <1>1, <1>2, <2>1, <2>3, <2>4 DEF SInv, IsList
<1>5. QED BY <1>3, <1>4

LEMMA DialKeeps == ASSUME SInv, Dial PROVE SInv'
<1>1. /\ phase = "dialing" /\ next \in Reachable
      /\ sessions' = sessions \cup {next} /\ routes' = Append(routes, next)
      /\ next' = next + 1 /\ UNCHANGED <<cfg, answer, phase>>
  BY DEF Dial
<1>2. Reachable' = Reachable /\ routes \in Seq(Reachable) /\ Len(routes) \in Nat
  BY <1>1 DEF SInv, Reachable, Answering
<1>3. next \in 1..Len(cfg.backends) /\ Len(cfg.backends) \in Nat
  BY <1>1 DEF SInv, Complete, Decided, IsList, Reachable, Answering
<1>4. Reachable \subseteq 1..Len(cfg.backends)
  BY <1>1 DEF SInv, Complete, Decided, IsList, Reachable, Answering
<1>5. /\ routes' \in Seq(Reachable)
      /\ DOMAIN routes' = 1..Len(routes) + 1 /\ DOMAIN routes = 1..Len(routes)
      /\ \A k \in 1..Len(routes) : routes'[k] = routes[k]
      /\ routes'[Len(routes) + 1] = next
  BY <1>1, <1>2
<1>6. \A k \in DOMAIN routes : routes[k] \in Reachable /\ routes[k] < next
  BY DEF SInv, Dialed
<1>7. Increasing'
  <2> SUFFICES ASSUME NEW k \in 1..Len(routes) + 1, NEW l \in 1..Len(routes) + 1, k < l
               PROVE  routes'[k] < routes'[l]
    BY <1>5 DEF Increasing
  <2>1. k \in 1..Len(routes)
    BY <1>2
  <2>2. CASE l \in 1..Len(routes)
    BY <1>5, <2>1, <2>2 DEF SInv, Increasing
  <2>3. CASE l = Len(routes) + 1
    BY <1>5, <1>6, <2>1, <2>3
  <2>4. QED BY <1>2, <2>2, <2>3
<1>8. {routes'[k] : k \in DOMAIN routes'} = {routes[k] : k \in DOMAIN routes} \cup {next}
  BY <1>2, <1>5
<1>9. {i \in Reachable : i < next + 1} = {i \in Reachable : i < next} \cup {next}
  <2>1. \A i \in Reachable : i < next + 1 <=> i < next \/ i = next
    BY <1>3, <1>4
  <2>2. QED BY <1>1, <2>1
<1>10. Dialed'
  BY <1>1, <1>2, <1>8, <1>9 DEF SInv, Dialed
<1>11. NoSessionLeaks'
  BY <1>1, <1>8 DEF SInv, NoSessionLeaks
<1>12. next' \in 1..Len(cfg.backends) + 1
  BY <1>1, <1>3
<1>13. QED
  BY <1>1, <1>2, <1>5, <1>7, <1>10, <1>11, <1>12 DEF SInv, Untouched, Complete, Decided

LEMMA SkipKeeps == ASSUME SInv, Skip PROVE SInv'
<1>1. /\ phase = "dialing" /\ next \in Down /\ next' = next + 1
      /\ UNCHANGED <<cfg, answer, phase, routes, sessions>>
  BY DEF Skip
<1>2. Reachable' = Reachable /\ next \notin Reachable
  BY <1>1 DEF Reachable, Down, Answering
<1>3. next \in 1..Len(cfg.backends) /\ Len(cfg.backends) \in Nat
  BY <1>1 DEF SInv, Complete, Decided, IsList, Down, Answering
<1>4. Reachable \subseteq 1..Len(cfg.backends)
  BY <1>1 DEF SInv, Complete, Decided, IsList, Reachable, Answering
<1>5. {i \in Reachable : i < next + 1} = {i \in Reachable : i < next}
  <2>1. \A i \in Reachable : i < next + 1 <=> i < next \/ i = next
    BY <1>3, <1>4
  <2>2. QED BY <1>2, <2>1
<1>6. next' \in 1..Len(cfg.backends) + 1
  BY <1>1, <1>3
<1>7. QED
  BY <1>1, <1>2, <1>5, <1>6 DEF SInv, Untouched, Complete, Decided, Increasing,
     Dialed, NoSessionLeaks

LEMMA ServeKeeps == ASSUME SInv, Serve PROVE SInv'
<1>1. /\ phase = "dialing" /\ next > Len(cfg.backends) /\ phase' = "serving"
      /\ UNCHANGED <<cfg, answer, next, routes, sessions>>
  BY DEF Serve
<1>2. next = Len(cfg.backends) + 1
  BY <1>1 DEF SInv, IsList
<1>3. Reachable' = Reachable
  BY <1>1 DEF Reachable, Answering
<1>4. QED
  BY <1>1, <1>2, <1>3 DEF SInv, Untouched, Complete, Decided, Increasing,
     Dialed, NoSessionLeaks

LEMMA StopKeeps == ASSUME SInv, Stop PROVE SInv'
<1>1. /\ phase = "serving" /\ phase' = "stopped"
      /\ sessions' = sessions \ {routes[k] : k \in DOMAIN routes}
      /\ UNCHANGED <<cfg, answer, next, routes>>
  BY DEF Stop
<1>2. Reachable' = Reachable
  BY <1>1 DEF Reachable, Answering
<1>3. sessions' = {}
  BY <1>1 DEF SInv, NoSessionLeaks
<1>4. QED
  BY <1>1, <1>2, <1>3 DEF SInv, Untouched, Complete, Decided, Increasing,
     Dialed, NoSessionLeaks

LEMMA SInvHolds == Spec => []SInv
<1>1. SInv /\ [Next]_vars => SInv'
  <2> SUFFICES ASSUME SInv, [Next]_vars PROVE SInv'
    OBVIOUS
  <2>1. CASE UNCHANGED vars
    <3>1. /\ cfg' = cfg /\ answer' = answer /\ phase' = phase
          /\ next' = next /\ routes' = routes /\ sessions' = sessions
      BY <2>1 DEF vars
    <3>2. Reachable' = Reachable
      BY <3>1 DEF Reachable, Answering
    <3>3. (Untouched /\ Complete => Untouched' /\ Complete')
      BY <3>1 DEF Untouched, Complete, Decided
    <3>4. (Increasing /\ Dialed /\ NoSessionLeaks
             => Increasing' /\ Dialed' /\ NoSessionLeaks')
      BY <3>1, <3>2 DEF Increasing, Dialed, NoSessionLeaks
    <3>5. QED BY <3>1, <3>2, <3>3, <3>4 DEF SInv
  <2>2. QED
    BY <2>1, LoadKeeps, DialKeeps, SkipKeeps, ServeKeeps, StopKeeps DEF Next
<1>2. QED BY <1>1, SInvInit, PTL DEF Spec

-----------------------------------------------------------------------------
(* Types and sessions. *)

(* Whatever the file says, the configuration that is served has its        *)
(* defaults, the routes are in the backends' order, and every backend      *)
(* dialed is one there is.                                                 *)
THEOREM TypeCorrect == Spec => []TypeOK
<1>1. SInv => TypeOK
  <2> SUFFICES ASSUME SInv PROVE TypeOK
    OBVIOUS
  <2>1. {routes[k] : k \in DOMAIN routes} \subseteq DOMAIN cfg.backends
    <3>1. CASE Decided
      BY <3>1 DEF SInv, Complete, Dialed, Reachable, Answering
    <3>2. CASE ~Decided
      BY <3>2 DEF SInv, Untouched
    <3>3. QED BY <3>1, <3>2
  <2>2. sessions \subseteq DOMAIN cfg.backends
    BY <2>1 DEF SInv, NoSessionLeaks
  <2>3. QED
    BY <2>2 DEF SInv, TypeOK, Complete, Decided, Increasing
<1>2. QED BY <1>1, SInvHolds, PTL

(* However many backends fail to dial, and in whichever way, a session is  *)
(* open exactly for every route, and none when run has returned.           *)
THEOREM SessionsAreClosed == Spec => []NoSessionLeaks
<1>1. SInv => NoSessionLeaks
  BY DEF SInv
<1>2. QED BY <1>1, SInvHolds, PTL

-----------------------------------------------------------------------------
(* Sequences of characters. *)

LEMMA PrefixIsCut ==
  ASSUME NEW p \in Seq(Chars), NEW t \in Seq(Chars)
  PROVE  IsPrefix(p, t) <=> Len(p) <= Len(t) /\ p = SubSeq(t, 1, Len(p))
BY SubSeqFull DEF IsPrefix

(* Putting a prefix before a name, and taking it off. *)
LEMMA JoinAndCut ==
  ASSUME NEW p \in Seq(Chars), NEW n \in Seq(Chars)
  PROVE  /\ p \o n \in Seq(Chars)
         /\ IsPrefix(p, p \o n)
         /\ SubSeq(p \o n, Len(p) + 1, Len(p \o n)) = n
<1> DEFINE t == p \o n
<1>1. /\ t \in Seq(Chars) /\ Len(t) = Len(p) + Len(n)
      /\ \A i \in 1..Len(p) + Len(n) : t[i] = IF i <= Len(p) THEN p[i] ELSE n[i - Len(p)]
  BY ConcatProperties
<1>2. /\ Len(p) \in Nat /\ Len(n) \in Nat
      /\ \A i \in 1..Len(p) : p[i] \in Chars
      /\ \A i \in 1..Len(n) : n[i] \in Chars
      /\ \A i \in 1..Len(t) : t[i] \in Chars
  BY <1>1
<1> HIDE DEF t
<1>3. /\ SubSeq(t, 1, Len(p)) \in Seq(Chars) /\ Len(SubSeq(t, 1, Len(p))) = Len(p)
      /\ \A i \in 1..Len(p) : SubSeq(t, 1, Len(p))[i] = t[i]
  <2>1. \A i \in 1..Len(p) : t[i] \in Chars
    BY <1>1, <1>2
  <2>2. QED BY <1>2, <2>1, SubSeqProperties
<1>4. SubSeq(t, 1, Len(p)) = p
  <2>1. \A i \in 1..Len(p) : SubSeq(t, 1, Len(p))[i] = p[i]
    BY <1>1, <1>2, <1>3
  <2>2. QED BY <1>3, <2>1, SeqEqual
<1>5. LET r == SubSeq(t, Len(p) + 1, Len(t))
      IN  /\ r \in Seq(Chars) /\ Len(r) = Len(n)
          /\ \A i \in 1..Len(n) : r[i] = t[Len(p) + i]
  <2>1. \A i \in Len(p) + 1 .. Len(t) : t[i] \in Chars
    BY <1>1, <1>2
  <2>2. Len(p) + 1 \in Int /\ Len(t) \in Int
    BY <1>1, <1>2
  <2>3. LET r == SubSeq(t, Len(p) + 1, Len(t))
        IN  /\ r \in Seq(Chars)
            /\ Len(r) = IF Len(p) + 1 <= Len(t) THEN Len(t) - (Len(p) + 1) + 1 ELSE 0
            /\ \A i \in 1..Len(t) - (Len(p) + 1) + 1 : r[i] = t[Len(p) + 1 + i - 1]
    BY <2>1, <2>2, SubSeqProperties
  <2>4. QED BY <1>1, <1>2, <2>3
<1>6. SubSeq(t, Len(p) + 1, Len(t)) = n
  <2>1. \A i \in 1..Len(n) : t[Len(p) + i] = n[i]
    BY <1>1, <1>2
  <2>2. QED BY <1>5, <2>1, SeqEqual
<1>7. IsPrefix(p, t)
  <2>1. Len(p) <= Len(t)
    BY <1>1, <1>2
  <2>2. QED BY <1>1, <1>4, <2>1, PrefixIsCut
<1>8. QED BY <1>1, <1>6, <1>7 DEF t

(* A name is the prefix that fits it, and the rest. *)
LEMMA CutAndJoin ==
  ASSUME NEW p \in Seq(Chars), NEW t \in Seq(Chars), IsPrefix(p, t)
  PROVE  p \o SubSeq(t, Len(p) + 1, Len(t)) = t
<1>1. Len(p) \in Nat /\ Len(t) \in Nat /\ Len(p) <= Len(t) /\ p = SubSeq(t, 1, Len(p))
  BY PrefixIsCut
<1>2. SubSeq(t, 1, Len(p)) \o SubSeq(t, Len(p) + 1, Len(t)) = SubSeq(t, 1, Len(t))
  <2>1. /\ 1 \in 1..Len(t) + 1 /\ Len(p) \in 1 - 1 .. Len(t)
        /\ Len(t) \in Len(p)..Len(t)
    BY <1>1
  <2>2. QED BY <2>1, ConcatAdjacentSubSeq
<1>3. QED BY <1>1, <1>2, SubSeqFull

(* Of two prefixes that fit one name the shorter begins the longer. *)
LEMMA Nested ==
  ASSUME NEW p \in Seq(Chars), NEW q \in Seq(Chars), NEW t \in Seq(Chars),
         IsPrefix(p, t), IsPrefix(q, t), Len(p) <= Len(q)
  PROVE  IsPrefix(p, q) /\ (Len(p) = Len(q) => p = q)
<1>1. /\ Len(p) \in Nat /\ Len(q) \in Nat /\ Len(t) \in Nat
      /\ Len(p) <= Len(t) /\ p = SubSeq(t, 1, Len(p))
      /\ Len(q) <= Len(t) /\ q = SubSeq(t, 1, Len(q))
  BY PrefixIsCut
<1>2. ASSUME NEW r \in Seq(Chars), NEW u \in Seq(Chars), Len(r) <= Len(u),
             r = SubSeq(u, 1, Len(r))
      PROVE  \A i \in 1..Len(r) : r[i] = u[i]
  <2>1. Len(r) \in Nat /\ \A i \in 1..Len(r) : u[i] \in Chars
    BY <1>2
  <2>2. QED BY <1>2, <2>1, SubSeqProperties
<1>3. \A i \in 1..Len(p) : p[i] = q[i]
  <2>1. /\ \A i \in 1..Len(p) : p[i] = t[i]
        /\ \A i \in 1..Len(q) : q[i] = t[i]
    BY <1>1, <1>2
  <2>2. QED BY <1>1, <2>1
<1>4. /\ SubSeq(q, 1, Len(p)) \in Seq(Chars) /\ Len(SubSeq(q, 1, Len(p))) = Len(p)
      /\ \A i \in 1..Len(p) : SubSeq(q, 1, Len(p))[i] = q[i]
  <2>1. \A i \in 1..Len(p) : q[i] \in Chars
    BY <1>1
  <2>2. QED BY <1>1, <2>1, SubSeqProperties
<1>5. p = SubSeq(q, 1, Len(p))
  BY <1>3, <1>4, SeqEqual
<1>6. QED BY <1>1, <1>5, PrefixIsCut

-----------------------------------------------------------------------------
(* matchRoute. *)

LEMMA LeastNumber ==
  ASSUME NEW T \in SUBSET Nat, T /= {}
  PROVE  \E x \in T : \A y \in T : x <= y
<1>1. PICK x \in T : \A y \in T : <<y, x>> \notin OpToRel(<, Nat)
  BY WFMin, NatLessThanWellFounded
<1>2. \A y \in T : ~(y < x)
  BY <1>1 DEF OpToRel
<1>3. QED BY <1>2

Prefix(i) == cfg.backends[i].prefix

LEMMA BestIsBest ==
  ASSUME IsList(cfg.backends),
         NEW among, DOMAIN among \subseteq Nat,
         \A k \in DOMAIN among : among[k] \in DOMAIN cfg.backends,
         NEW name \in Seq(Chars), Fitting(among, name) /= {}
  PROVE  LET best == Best(among, name)
         IN  /\ best \in Fitting(among, name)
             /\ \A l \in Fitting(among, name) :
                  \/ Len(Prefix(among[l])) < Len(Prefix(among[best]))
                  \/ Len(Prefix(among[l])) = Len(Prefix(among[best])) /\ best <= l
<1> DEFINE fit == Fitting(among, name)
<1> DEFINE size(k) == Len(Prefix(among[k]))
<1>1. fit \subseteq Nat /\ fit /= {} /\ Len(name) \in Nat
  BY DEF Fitting
<1>2. ASSUME NEW k \in fit PROVE size(k) \in Nat /\ size(k) <= Len(name)
  <2>1. IsPrefix(Prefix(among[k]), name) /\ Prefix(among[k]) \in Seq(Chars)
    BY DEF Fitting, Prefix, IsList
  <2>2. QED BY <2>1, PrefixIsCut
<1>3. Best(among, name) =
        CHOOSE k \in fit : \A l \in fit : size(l) < size(k) \/ (size(l) = size(k) /\ k <= l)
  BY Zenon DEF Best, Prefix
<1> HIDE DEF fit, size
<1> DEFINE rests == {Len(name) - size(k) : k \in fit}
<1>4. rests \in SUBSET Nat /\ rests /= {}
  <2>1. \A k \in fit : Len(name) - size(k) \in Nat
    BY <1>1, <1>2
  <2>2. QED BY <1>1, <2>1
<1>5. PICK least \in rests : \A y \in rests : least <= y
  <2> HIDE DEF rests
  <2> QED BY <1>4, LeastNumber
<1> DEFINE longest == {k \in fit : Len(name) - size(k) = least}
<1>6. longest \in SUBSET Nat /\ longest /= {}
  BY <1>1, <1>5
<1>7. PICK first \in longest : \A y \in longest : first <= y
  <2> HIDE DEF longest
  <2> QED BY <1>6, LeastNumber
<1>8. first \in fit
  BY <1>7
<1>9. ASSUME NEW l \in fit
      PROVE  size(l) < size(first) \/ (size(l) = size(first) /\ first <= l)
  <2>1. /\ size(l) \in Nat /\ size(first) \in Nat /\ Len(name) \in Nat
        /\ Len(name) - size(first) <= Len(name) - size(l)
    BY <1>1, <1>2, <1>5, <1>7
  <2>2. size(l) <= size(first)
    BY <2>1
  <2>3. size(l) = size(first) => first <= l
    BY <1>7
  <2>4. QED BY <2>1, <2>2, <2>3
<1>10. LET best == Best(among, name)
       IN  /\ best \in fit
           /\ \A l \in fit : size(l) < size(best) \/ (size(l) = size(best) /\ best <= l)
  BY <1>3, <1>8, <1>9, Zenon
<1>11. QED BY <1>10 DEF fit, size

(* No two backends have the same prefix. *)
LEMMA PrefixesDiffer ==
  ASSUME IsList(cfg.backends), ValidatePrefixes(cfg.backends),
         NEW i \in DOMAIN cfg.backends, NEW j \in DOMAIN cfg.backends,
         Prefix(i) = Prefix(j)
  PROVE  i = j
<1>1. CASE Len(cfg.backends) >= 2
  BY <1>1 DEF ValidatePrefixes, Prefix
<1>2. CASE Len(cfg.backends) < 2
  BY <1>2 DEF IsList
<1>3. QED BY <1>1, <1>2 DEF IsList

(* What matchRoute returns for a name of the backend at i. *)
LEMMA Matched ==
  ASSUME IsList(cfg.backends), ValidatePrefixes(cfg.backends),
         NEW among, DOMAIN among \subseteq Nat,
         \A k \in DOMAIN among : among[k] \in DOMAIN cfg.backends,
         NEW m \in DOMAIN among, NEW i, NEW n \in Seq(Chars),
         IsPrefix(Prefix(among[m]), FullName(i, n)),
         i \in DOMAIN cfg.backends
  PROVE  LET full == FullName(i, n)
             j    == among[Best(among, full)]
         IN  /\ Best(among, full) \in DOMAIN among
             /\ MatchRoute(among, full) =
                  [backend |-> j, name |-> SubSeq(full, Len(Prefix(j)) + 1, Len(full))]
             /\ IsPrefix(Prefix(j), full)
             /\ IsPrefix(Prefix(among[m]), Prefix(j))
             /\ Prefix(among[m]) = Prefix(j) => among[m] = j
<1> DEFINE full == FullName(i, n)
<1> DEFINE best == Best(among, full)
<1> DEFINE j == among[best]
<1>1. \A b \in DOMAIN cfg.backends : Prefix(b) \in Seq(Chars) /\ Len(Prefix(b)) \in Nat
  BY DEF IsList, Prefix
<1>2. full \in Seq(Chars)
  BY <1>1, JoinAndCut DEF FullName, Prefix
<1>3. m \in Fitting(among, full)
  BY DEF Fitting, Prefix
<1>4. /\ best \in Fitting(among, full)
      /\ \/ Len(Prefix(among[m])) < Len(Prefix(j))
         \/ Len(Prefix(among[m])) = Len(Prefix(j)) /\ best <= m
  <2> HIDE DEF full
  <2> QED BY <1>2, <1>3, BestIsBest
<1>5. best \in DOMAIN among /\ IsPrefix(Prefix(j), full) /\ j \in DOMAIN cfg.backends
  BY <1>4 DEF Fitting, Prefix
<1>6. MatchRoute(among, full) =
        [backend |-> j, name |-> SubSeq(full, Len(Prefix(j)) + 1, Len(full))]
  BY <1>3, Zenon DEF MatchRoute, Prefix
<1>7. IsPrefix(Prefix(among[m]), Prefix(j))
  <2>1. Len(Prefix(among[m])) <= Len(Prefix(j))
    BY <1>1, <1>4, <1>5
  <2>2. IsPrefix(Prefix(among[m]), full) /\ Prefix(among[m]) \in Seq(Chars)
    BY <1>1
  <2> HIDE DEF full, j
  <2>3. QED BY <1>1, <1>2, <1>5, <2>1, <2>2, Nested
<1>8. Prefix(among[m]) = Prefix(j) => among[m] = j
  <2>1. among[m] \in DOMAIN cfg.backends
    OBVIOUS
  <2> HIDE DEF j
  <2>2. QED BY <1>5, <2>1, PrefixesDiffer
<1>9. QED BY <1>5, <1>6, <1>7, <1>8

-----------------------------------------------------------------------------
(* Names that come back, whoever is down. *)

(* While the gateway serves: a valid list, and a route to exactly the      *)
(* reachable backends.                                                     *)
LEMMA WhileServing ==
  ASSUME SInv, phase = "serving"
  PROVE  /\ IsList(cfg.backends) /\ ValidatePrefixes(cfg.backends)
         /\ DOMAIN routes \subseteq Nat
         /\ \A k \in DOMAIN routes : routes[k] \in Reachable
         /\ \A i \in Reachable : i \in DOMAIN cfg.backends /\ \E k \in DOMAIN routes : routes[k] = i
<1>1. IsList(cfg.backends) /\ ValidatePrefixes(cfg.backends)
  BY AcceptsPrefixes DEF SInv, Complete, Decided
<1>2. Reachable \subseteq 1..Len(cfg.backends) /\ next = Len(cfg.backends) + 1
  BY <1>1 DEF SInv, Complete, Decided, Reachable, Answering, IsList
<1>3. {routes[k] : k \in DOMAIN routes} = Reachable
  <2>1. \A i \in Reachable : i < next
    BY <1>1, <1>2 DEF IsList
  <2>2. QED BY <2>1 DEF SInv, Dialed
<1>4. DOMAIN routes \subseteq Nat
  BY DEF SInv
<1>5. QED BY <1>1, <1>2, <1>3, <1>4 DEF IsList

(* For any prefixes that pass the checks and any tools' names, and         *)
(* whichever backends are reachable: a listed name leads back to its       *)
(* backend and tool, or to the backend with a longer prefix that fits; a   *)
(* name of one that is down to nobody, or to a backend that it fits.       *)
THEOREM NamesComeBack == Spec => []ListedNamesComeBack
<1> DEFINE Back(i, n) ==
      LET got == MatchRoute(routes, FullName(i, n))
      IN  \/ i \in Reachable /\ got = [backend |-> i, name |-> n]
          \/ i \notin Reachable /\ got = NoRoute
          \/ /\ got.backend \in Reachable
             /\ FullName(got.backend, got.name) = FullName(i, n)
             /\ \/ IsStrictPrefix(Prefix(i), Prefix(got.backend))
                \/ i \notin Reachable /\ IsStrictPrefix(Prefix(got.backend), Prefix(i))
<1>1. ASSUME SInv, phase = "serving", NEW i \in DOMAIN cfg.backends,
             NEW n \in ToolNames
      PROVE  Back(i, n)
  <2> DEFINE full == FullName(i, n)
  <2> DEFINE j == routes[Best(routes, full)]
  <2> DEFINE rest == SubSeq(full, Len(Prefix(j)) + 1, Len(full))
  <2>1. /\ IsList(cfg.backends) /\ ValidatePrefixes(cfg.backends)
        /\ DOMAIN routes \subseteq Nat
        /\ \A l \in DOMAIN routes : routes[l] \in Reachable /\ routes[l] \in DOMAIN cfg.backends
        /\ \A x \in Reachable : \E l \in DOMAIN routes : routes[l] = x
    BY <1>1, WhileServing
  <2>2. n \in Seq(Chars) /\ Prefix(i) \in Seq(Chars)
    BY <2>1, NamesAssumption DEF IsList, Prefix
  <2>3. full \in Seq(Chars) /\ IsPrefix(Prefix(i), full)
        /\ SubSeq(full, Len(Prefix(i)) + 1, Len(full)) = n
    BY <2>2, JoinAndCut DEF FullName, Prefix
  <2>4. ASSUME NEW m \in DOMAIN routes, IsPrefix(Prefix(routes[m]), full)
        PROVE  /\ MatchRoute(routes, full) = [backend |-> j, name |-> rest]
               /\ j \in Reachable /\ j \in DOMAIN cfg.backends
               /\ Prefix(j) \in Seq(Chars) /\ IsPrefix(Prefix(j), full)
               /\ FullName(j, rest) = full
               /\ IsPrefix(Prefix(routes[m]), Prefix(j))
    <3>1. /\ Best(routes, full) \in DOMAIN routes
          /\ MatchRoute(routes, full) = [backend |-> j, name |-> rest]
          /\ IsPrefix(Prefix(j), full) /\ IsPrefix(Prefix(routes[m]), Prefix(j))
      BY <2>1, <2>2, <2>4, Matched
    <3>2. /\ j \in Reachable /\ j \in DOMAIN cfg.backends
          /\ Prefix(j) \in Seq(Chars)
      BY <2>1, <3>1 DEF IsList, Prefix
    <3>3. Prefix(j) \o rest = full
      <4> HIDE DEF full, j
      <4> QED BY <2>3, <3>1, <3>2, CutAndJoin
    <3>4. QED BY <3>1, <3>2, <3>3 DEF FullName, Prefix
  <2> HIDE DEF full, j, rest
  <2>5. j \in DOMAIN cfg.backends /\ Prefix(i) = Prefix(j) => i = j
    BY <2>1, PrefixesDiffer
  <2>6. CASE i \in Reachable
    <3>1. PICK m \in DOMAIN routes : routes[m] = i
      BY <2>1, <2>6
    <3>2. /\ MatchRoute(routes, full) = [backend |-> j, name |-> rest]
          /\ j \in Reachable /\ j \in DOMAIN cfg.backends
          /\ FullName(j, rest) = full /\ IsPrefix(Prefix(i), Prefix(j))
      BY <2>3, <2>4, <3>1
    <3>3. CASE i = j
      BY <2>3, <2>6, <3>2, <3>3 DEF full, rest
    <3>4. CASE i /= j
      BY <2>5, <3>2, <3>4 DEF IsStrictPrefix, full
    <3>5. QED BY <3>3, <3>4
  <2>7. CASE i \notin Reachable /\ Fitting(routes, full) = {}
    BY <2>7 DEF MatchRoute, full
  <2>8. CASE i \notin Reachable /\ Fitting(routes, full) /= {}
    <3>1. PICK m \in DOMAIN routes : IsPrefix(Prefix(routes[m]), full)
      BY <2>8 DEF Fitting, Prefix
    <3>2. /\ MatchRoute(routes, full) = [backend |-> j, name |-> rest]
          /\ j \in Reachable /\ j \in DOMAIN cfg.backends
          /\ Prefix(j) \in Seq(Chars) /\ IsPrefix(Prefix(j), full)
          /\ FullName(j, rest) = full
      BY <2>4, <3>1
    <3>3. Prefix(i) /= Prefix(j)
      BY <2>5, <2>8, <3>2
    <3>4. IsPrefix(Prefix(i), Prefix(j)) \/ IsPrefix(Prefix(j), Prefix(i))
      <4>1. Len(Prefix(i)) \in Nat /\ Len(Prefix(j)) \in Nat
        BY <2>2, <3>2
      <4>2. CASE Len(Prefix(i)) <= Len(Prefix(j))
        BY <2>2, <2>3, <3>2, <4>2, Nested
      <4>3. CASE Len(Prefix(j)) <= Len(Prefix(i))
        BY <2>2, <2>3, <3>2, <4>3, Nested
      <4>4. QED BY <4>1, <4>2, <4>3
    <3>5. QED BY <2>8, <3>2, <3>3, <3>4 DEF IsStrictPrefix, full
  <2>9. QED BY <2>6, <2>7, <2>8
<1>2. SInv => ListedNamesComeBack
  BY <1>1 DEF ListedNamesComeBack, Prefix
<1>3. QED BY <1>2, SInvHolds, PTL

(* A call that would reach a reachable backend were all of them up reaches *)
(* it, and what clients are told the gateway can do is what the reachable  *)
(* ones can.                                                               *)
THEOREM DownBlocksNobody == Spec => []DownBackendBlocksNobody
<1> DEFINE All == [k \in DOMAIN cfg.backends |-> k]
<1>1. ASSUME SInv, phase = "serving",
             NEW i \in DOMAIN cfg.backends, NEW n \in ToolNames,
             MatchRoute(All, FullName(i, n)).backend \in Reachable
      PROVE  MatchRoute(routes, FullName(i, n)) = MatchRoute(All, FullName(i, n))
  <2> DEFINE full == FullName(i, n)
  <2> DEFINE b == All[Best(All, full)]
  <2> DEFINE j == routes[Best(routes, full)]
  <2>1. /\ IsList(cfg.backends) /\ ValidatePrefixes(cfg.backends)
        /\ DOMAIN routes \subseteq Nat
        /\ \A l \in DOMAIN routes : routes[l] \in Reachable /\ routes[l] \in DOMAIN cfg.backends
        /\ \A x \in Reachable : \E l \in DOMAIN routes : routes[l] = x
    BY <1>1, WhileServing
  <2>2. n \in Seq(Chars) /\ Prefix(i) \in Seq(Chars)
    BY <2>1, NamesAssumption DEF IsList, Prefix
  <2>3. IsPrefix(Prefix(i), full)
    BY <2>2, JoinAndCut DEF FullName, Prefix
  <2>4. /\ DOMAIN All \subseteq Nat /\ i \in DOMAIN All /\ All[i] = i
        /\ \A k \in DOMAIN All : All[k] \in DOMAIN cfg.backends
    BY <2>1 DEF IsList
  <2>5. /\ Best(All, full) \in DOMAIN All
        /\ MatchRoute(All, full) =
             [backend |-> b, name |-> SubSeq(full, Len(Prefix(b)) + 1, Len(full))]
        /\ IsPrefix(Prefix(b), full)
    <3> HIDE DEF All
    <3> QED BY <2>1, <2>2, <2>3, <2>4, Matched
  <2>6. PICK m \in DOMAIN routes : routes[m] = b
    <3>1. b \in Reachable
      BY <1>1, <2>5
    <3>2. QED BY <2>1, <3>1
  <2>7. /\ Best(routes, full) \in DOMAIN routes
        /\ MatchRoute(routes, full) =
             [backend |-> j, name |-> SubSeq(full, Len(Prefix(j)) + 1, Len(full))]
        /\ IsPrefix(Prefix(j), full) /\ IsPrefix(Prefix(b), Prefix(j))
        /\ Prefix(b) = Prefix(j) => b = j
    <3>1. IsPrefix(Prefix(routes[m]), FullName(i, n))
      BY <2>5, <2>6
    <3>2. /\ Best(routes, full) \in DOMAIN routes
          /\ MatchRoute(routes, full) =
               [backend |-> j, name |-> SubSeq(full, Len(Prefix(j)) + 1, Len(full))]
          /\ IsPrefix(Prefix(j), full) /\ IsPrefix(Prefix(routes[m]), Prefix(j))
          /\ Prefix(routes[m]) = Prefix(j) => routes[m] = j
      <4> HIDE DEF All, b
      <4> QED BY SMTT(30), <2>1, <2>2, <3>1, Matched
    <3> HIDE DEF b, j, full
    <3>3. QED BY <2>6, <3>2
  <2>8. j \in DOMAIN All /\ All[j] = j
    BY <2>1, <2>7
  <2>9. IsPrefix(Prefix(j), Prefix(b))
    <3> HIDE DEF All, b, j
    <3> QED BY <2>1, <2>2, <2>4, <2>7, <2>8, Matched DEF b
  <2>10. Prefix(b) = Prefix(j)
    <3>1. Prefix(b) \in Seq(Chars) /\ Prefix(j) \in Seq(Chars)
      BY <2>1, <2>6, <2>7 DEF IsList, Prefix
    <3> HIDE DEF All, b, j
    <3>2. /\ Len(Prefix(b)) <= Len(Prefix(j)) /\ Len(Prefix(j)) <= Len(Prefix(b))
          /\ Prefix(b) = SubSeq(Prefix(j), 1, Len(Prefix(b)))
      BY <2>7, <2>9, <3>1, PrefixIsCut
    <3>3. Len(Prefix(b)) = Len(Prefix(j))
      BY <3>1, <3>2
    <3>4. QED BY <3>1, <3>2, <3>3, SubSeqFull
  <2>11. QED
    <3> HIDE DEF All, b, j, full
    <3> QED BY <2>5, <2>7, <2>10 DEF full
<1>2. ASSUME SInv, phase = "serving"
      PROVE  /\ \A i \in Reachable : CapsOf[cfg.backends[i].id] \subseteq Advertised
             /\ \A cap \in Advertised \ {"logging"} :
                  \E i \in Reachable : cap \in CapsOf[cfg.backends[i].id]
  BY <1>2, WhileServing DEF Advertised
<1>3. SInv => DownBackendBlocksNobody
  BY <1>1, <1>2 DEF DownBackendBlocksNobody
<1>4. QED BY <1>3, SInvHolds, PTL
-----------------------------------------------------------------------------
(* What is served. *)

LEMMA ServedFile ==
  ASSUME SInv, phase = "serving"
  PROVE  /\ \E file \in Files : cfg = ApplyDefaults(file)
         /\ CheckStruct(cfg) /\ ValidateAuth(cfg.auth)
BY DEF SInv, Complete, Decided, Accepts

(* For every rate and interval that pass the checks: the hint is off by    *)
(* half a millisecond at most, and by what its interval has below one.     *)
THEOREM HintIsHonest == Spec => []RetryHintIsHonest
<1>1. ASSUME SInv, phase = "serving", NEW i \in DOMAIN cfg.policies,
             Present(cfg.policies[i].rate_limit)
      PROVE  LET limit == cfg.policies[i].rate_limit
                 hint  == RetryAfterMillis(limit)
             IN  /\ 2 * hint * limit.rate <= 2 * limit.interval + limit.rate
                 /\ 2 * hint * limit.rate + limit.rate + 2 * (limit.interval % 1000)
                      > 2 * limit.interval
  <2> DEFINE limit == cfg.policies[i].rate_limit
  <2>1. limit.rate \in Nat \ {0} /\ limit.interval \in Nat
    <3>1. PICK file \in Files : cfg = ApplyDefaults(file)
      BY <1>1, ServedFile
    <3>2. cfg.policies = [j \in DOMAIN file.policies |-> FillPolicy(file.policies[j])]
      BY <3>1, FileParts, Parts
    <3>3. i \in DOMAIN file.policies /\ limit = file.policies[i].rate_limit
      <4>1. "rate_limit" \in DOMAIN file.policies[i]
        BY <3>2, FilesAssumption DEF IsFile
      <4>2. QED BY <3>2, <4>1 DEF FillPolicy
    <3>4. limit \in [rate : Int, interval : Int]
      BY <1>1, <3>3, FilesAssumption DEF IsFile
    <3>5. limit.rate > 0 /\ limit.interval > 0
      BY <1>1, ServedFile DEF CheckStruct, CheckPolicy, CheckRateLimit
    <3>6. QED BY <3>4, <3>5
  <2>2. PICK r \in Nat \ {0}, v \in Nat : r = limit.rate /\ v = limit.interval
    BY <2>1
  <2> DEFINE hint == RetryAfterMillis(limit)
  <2>3. hint = (2000 * (v \div 1000) + r) \div (2 * r)
    <3>1. Present(limit)
      BY <1>1
    <3> HIDE DEF limit
    <3>2. QED BY <2>2, <3>1 DEF RetryAfterMillis
  <2> HIDE DEF limit, hint
  <2>4. /\ 2 * hint * r <= 2 * v + r
        /\ 2 * hint * r + r + 2 * (v % 1000) > 2 * v
    <3> DEFINE m == v \div 1000
    <3> DEFINE x == 2000 * m + r
    <3> DEFINE d == 2 * r
    <3>1. m \in Nat /\ v % 1000 \in Nat /\ v = 1000 * m + (v % 1000)
      OBVIOUS
    <3>2. x \in Nat /\ d \in Nat \ {0} /\ x + 2 * (v % 1000) = 2 * v + r
      BY <3>1
    <3>3. hint = x \div d
      BY <2>3
    <3> HIDE DEF m, x, d
    <3>4. hint \in Nat /\ d * hint <= x /\ x < d * hint + d
      BY <3>2, <3>3
    <3>5. 2 * hint * r = d * hint /\ d = 2 * r
      BY <3>4 DEF d
    <3>6. QED BY <3>1, <3>2, <3>4, <3>5
  <2>5. /\ 2 * hint * limit.rate <= 2 * limit.interval + limit.rate
        /\ 2 * hint * limit.rate + limit.rate + 2 * (limit.interval % 1000)
             > 2 * limit.interval
    BY <2>2, <2>4
  <2>6. QED BY <2>5, Zenon DEF limit, hint
<1>2. SInv => RetryHintIsHonest
  BY <1>1 DEF RetryHintIsHonest
<1>3. QED BY <1>2, SInvHolds, PTL

(* For every list of tokens and every header: the gate opens for a listed  *)
(* token that is not empty, and for nothing else.                          *)
THEOREM OnlyListedTokensOpen == Spec => []ListedTokensOpen
<1>1. ASSUME SInv, phase = "serving", NEW header \in Headers
      PROVE  Admits(cfg.auth, header) <=>
               \/ ~cfg.auth.enabled
               \/ \E i \in DOMAIN cfg.auth.tokens :
                    LET token == cfg.auth.tokens[i]
                    IN  /\ token /= <<>>
                        /\ \/ \E s \in Scheme : header = <<s>> \o token
                           \/ header = token /\ token[1] \notin Scheme
  <2> DEFINE tokens == cfg.auth.tokens
  <2> DEFINE found == ExtractToken(header)
  <2>1. \A i \in DOMAIN tokens : tokens[i] \in Seq(Symbols)
    <3>1. PICK file \in Files : cfg = ApplyDefaults(file)
      BY <1>1, ServedFile
    <3>2. file.auth \in [enabled : BOOLEAN, header : Written \ {"bad"}, tokens : Seq(Seq(Symbols))]
      BY FilesAssumption DEF IsFile
    <3>3. cfg.auth = IF file.auth.enabled THEN Fill(file.auth, {"header"}) ELSE file.auth
      BY <3>1, FileParts, Parts
    <3>4. Fill(file.auth, {"header"}).tokens = file.auth.tokens
      BY <3>2 DEF Fill
    <3>5. tokens \in Seq(Seq(Symbols))
      BY <3>2, <3>3, <3>4
    <3> HIDE DEF tokens
    <3>6. QED BY <3>5
  <2>2. header \in Seq(Symbols) /\ (header = <<>> \/ header[Len(header)] \notin Scheme)
    BY HeadersAssumption
  <2> HIDE DEF tokens
  <2>3. ASSUME NEW i \in DOMAIN tokens, found /= <<>>, tokens[i] = found
        PROVE  /\ tokens[i] /= <<>>
               /\ \/ \E s \in Scheme : header = <<s>> \o tokens[i]
                  \/ header = tokens[i] /\ tokens[i][1] \notin Scheme
    <3>1. CASE Len(header) > 1 /\ header[1] \in Scheme
      <4>1. found = Tail(header) /\ header /= <<>>
        BY <2>2, <3>1 DEF ExtractToken
      <4>2. header = <<header[1]>> \o Tail(header)
        BY <2>2, <4>1
      <4>3. QED BY <2>3, <3>1, <4>1, <4>2
    <3>2. CASE ~(Len(header) > 1 /\ header[1] \in Scheme)
      <4>1. found = header /\ header /= <<>>
        BY <2>3, <3>2 DEF ExtractToken
      <4>2. header[1] \notin Scheme
        BY <2>2, <3>2, <4>1
      <4>3. QED BY <2>3, <4>1, <4>2
    <3>3. QED BY <3>1, <3>2
  <2>4. ASSUME NEW i \in DOMAIN tokens, tokens[i] /= <<>>,
               \/ \E s \in Scheme : header = <<s>> \o tokens[i]
               \/ header = tokens[i] /\ tokens[i][1] \notin Scheme
        PROVE  found = tokens[i]
    <3>1. tokens[i] \in Seq(Symbols)
      BY <2>1
    <3>2. CASE header = tokens[i] /\ tokens[i][1] \notin Scheme
      BY <3>2 DEF ExtractToken
    <3>3. ASSUME NEW s \in Scheme, header = <<s>> \o tokens[i]
          PROVE  found = tokens[i]
      <4>1. s \in Symbols
        BY HeadersAssumption
      <4>2. Len(header) = 1 + Len(tokens[i]) /\ header[1] = s /\ Tail(header) = tokens[i]
        BY <3>1, <3>3, <4>1
      <4>3. Len(tokens[i]) \in Nat /\ Len(tokens[i]) > 0
        BY <2>4, <3>1
      <4>4. QED BY <4>2, <4>3 DEF ExtractToken
    <3>4. QED BY <2>4, <3>2, <3>3
  <2>5. found /= <<>> /\ IsAllowed(found, tokens) <=>
          \E i \in DOMAIN tokens :
            /\ tokens[i] /= <<>>
            /\ \/ \E s \in Scheme : header = <<s>> \o tokens[i]
               \/ header = tokens[i] /\ tokens[i][1] \notin Scheme
    <3> HIDE DEF found
    <3> QED BY <2>3, <2>4 DEF IsAllowed
  <2>6. QED BY <2>5, Zenon DEF Admits, tokens
<1>2. SInv => ListedTokensOpen
  BY <1>1 DEF ListedTokensOpen
<1>3. QED BY <1>2, SInvHolds, PTL

-----------------------------------------------------------------------------
(* Defaults and checks. *)

LEMMA ServerFields == ServerDefaults \subseteq MustBeGood
BY DEF MustBeGood

LEMMA FilledIsUsable ==
  ASSUME NEW s, NEW F, NEW f \in DOMAIN s \cap F, s[f] \in Written,
         s[f] /= "bad" \/ (f \in MustBeGood /\ CheckFields(Fill(s, F)))
  PROVE  Fill(s, F)[f] \in Usable
<1>1. Fill(s, F)[f] = (IF s[f] = "unset" THEN "default" ELSE s[f]) /\ f \in DOMAIN Fill(s, F)
  BY DEF Fill
<1>2. CASE s[f] /= "bad"
  BY <1>1, <1>2 DEF Written, Usable
<1>3. CASE f \in MustBeGood /\ CheckFields(Fill(s, F))
  <2>1. Fill(s, F)[f] /= "bad"
    BY <1>1, <1>3 DEF CheckFields
  <2>2. QED BY <1>1, <2>1 DEF Written, Usable
<1>4. QED BY <1>2, <1>3

(* The blocks of the policy at i, in the file and as it is served. *)
LEMMA PolicyParts ==
  ASSUME NEW file \in Files, NEW i \in DOMAIN file.policies
  PROVE  LET policy == file.policies[i]
             served == FillPolicy(policy)
         IN  /\ \A f \in DOMAIN policy.circuit_breaker : f \in CircuitBreaker
             /\ \A f \in DOMAIN policy.retries :
                  /\ f \in RetriesDefaults /\ policy.retries[f] \in Written
                  /\ f = "max_attempts" => policy.retries[f] /= "bad"
             /\ \A f \in DOMAIN policy.rate_limit :
                  /\ f \in {"rate", "interval"}
                  /\ policy.rate_limit \in [rate : Int, interval : Int]
             /\ DOMAIN policy.resilience = Resilience
             /\ DOMAIN served = DOMAIN policy
             /\ served.tool_pattern = policy.tool_pattern
             /\ served.circuit_breaker = policy.circuit_breaker
             /\ served.retries = Fill(policy.retries, RetriesDefaults)
             /\ served.rate_limit = policy.rate_limit
             /\ served.validation = policy.validation
             /\ served.resilience = policy.resilience
<1> DEFINE policy == file.policies[i]
<1>1. /\ DOMAIN policy = {"tool_pattern", "circuit_breaker", "retries",
                          "rate_limit", "validation", "resilience"}
      /\ Present(policy.circuit_breaker) =>
           policy.circuit_breaker \in [CircuitBreaker -> Written]
      /\ Present(policy.retries) =>
           policy.retries \in {block \in [RetriesDefaults -> Written] :
                                 block["max_attempts"] /= "bad"}
      /\ Present(policy.rate_limit) => policy.rate_limit \in [rate : Int, interval : Int]
      /\ policy.resilience \in [Resilience -> Written]
  BY FilesAssumption DEF IsFile
<1>2. \A f \in DOMAIN policy.circuit_breaker : f \in CircuitBreaker
  BY <1>1 DEF Present
<1>3. \A f \in DOMAIN policy.retries :
        /\ f \in RetriesDefaults /\ policy.retries[f] \in Written
        /\ f = "max_attempts" => policy.retries[f] /= "bad"
  BY <1>1 DEF Present
<1>4. \A f \in DOMAIN policy.rate_limit :
        f \in {"rate", "interval"} /\ policy.rate_limit \in [rate : Int, interval : Int]
  BY <1>1 DEF Present
<1>5. DOMAIN policy.resilience = Resilience
  BY <1>1
<1> HIDE DEF policy
<1>6. LET served == FillPolicy(policy)
      IN  /\ DOMAIN served = DOMAIN policy
          /\ served.tool_pattern = policy.tool_pattern
          /\ served.circuit_breaker = policy.circuit_breaker
          /\ served.retries = Fill(policy.retries, RetriesDefaults)
          /\ served.rate_limit = policy.rate_limit
          /\ served.validation = policy.validation
          /\ served.resilience = policy.resilience
  BY <1>1 DEF FillPolicy, FillRetries
<1>7. QED BY <1>2, <1>3, <1>4, <1>5, <1>6 DEF policy

(* Whatever a file leaves out or sets, every field that run's users rely   *)
(* on has a value they can work with, checked or defaulted.                *)
THEOREM ServedIsUsable == Spec => []ServedConfigIsUsable
<1>1. ASSUME SInv, phase = "serving"
      PROVE  /\ \A f \in ServerDefaults : cfg.server[f] \in Usable
             /\ cfg.auth.enabled => cfg.auth.header \in Usable /\ cfg.auth.tokens /= <<>>
             /\ cfg.metrics.enabled => cfg.metrics.port \in Usable /\ cfg.metrics.path \in Usable
             /\ \A i \in DOMAIN cfg.policies :
                  LET policy == cfg.policies[i]
                  IN  /\ \A f \in DOMAIN policy.retries : policy.retries[f] \in Usable
                      /\ \A f \in DOMAIN policy.circuit_breaker :
                           policy.circuit_breaker[f] /= "bad"
                      /\ \A f \in DOMAIN policy.rate_limit : policy.rate_limit[f] > 0
  <2>1. PICK file \in Files : cfg = ApplyDefaults(file)
    BY <1>1, ServedFile
  <2>2. CheckStruct(cfg) /\ ValidateAuth(cfg.auth)
    BY <1>1, ServedFile
  <2>3. IsFile(file, Chars, Symbols) /\ DOMAIN file = Sections
    BY FilesAssumption, FileParts
  <2>4. /\ cfg.server = Fill(file.server, ServerDefaults)
        /\ cfg.auth = IF file.auth.enabled THEN Fill(file.auth, {"header"}) ELSE file.auth
        /\ cfg.metrics = IF file.metrics.enabled THEN Fill(file.metrics, MetricsDefaults)
                                                ELSE file.metrics
        /\ cfg.policies = [i \in DOMAIN file.policies |-> FillPolicy(file.policies[i])]
    BY <2>1, <2>3, Parts
  <2>5. \A f \in ServerDefaults : cfg.server[f] \in Usable
    <3>1. \A f \in ServerDefaults : f \in DOMAIN file.server /\ file.server[f] \in Written
      BY <2>3 DEF IsFile
    <3>2. CheckFields(Fill(file.server, ServerDefaults))
      BY <2>2, <2>4 DEF CheckStruct
    <3>3. QED BY <2>4, <3>1, <3>2, ServerFields, FilledIsUsable
  <2>6. ASSUME cfg.auth.enabled
        PROVE  cfg.auth.header \in Usable /\ cfg.auth.tokens /= <<>>
    <3>1. file.auth \in [enabled : BOOLEAN, header : Written \ {"bad"},
                         tokens : Seq(Seq(Symbols))]
      BY <2>3 DEF IsFile
    <3>2. Fill(file.auth, {"header"}).enabled = file.auth.enabled
      BY <3>1 DEF Fill
    <3>3. cfg.auth = Fill(file.auth, {"header"})
      BY <2>4, <2>6, <3>2
    <3>4. /\ "header" \in DOMAIN file.auth \cap {"header"}
          /\ file.auth["header"] \in Written /\ file.auth["header"] /= "bad"
      BY <3>1
    <3>5. cfg.auth["header"] \in Usable
      BY <3>3, <3>4, FilledIsUsable
    <3>6. QED BY <2>2, <2>6, <3>5 DEF ValidateAuth
  <2>7. ASSUME cfg.metrics.enabled
        PROVE  cfg.metrics.port \in Usable /\ cfg.metrics.path \in Usable
    <3>1. file.metrics \in [enabled : BOOLEAN, port : Written, path : Written]
      BY <2>3 DEF IsFile
    <3>2. Fill(file.metrics, MetricsDefaults).enabled = file.metrics.enabled
      BY <3>1 DEF Fill, MetricsDefaults
    <3>3. cfg.metrics = Fill(file.metrics, MetricsDefaults)
      BY <2>4, <2>7, <3>2
    <3>4. \A f \in {"port", "path"} :
            /\ f \in DOMAIN file.metrics \cap MetricsDefaults
            /\ file.metrics[f] \in Written /\ f \in MustBeGood
      BY <3>1 DEF MetricsDefaults, MustBeGood
    <3>5. CheckFields(Fill(file.metrics, MetricsDefaults))
      BY <2>2, <3>3 DEF CheckStruct
    <3>6. \A f \in {"port", "path"} : cfg.metrics[f] \in Usable
      BY <3>3, <3>4, <3>5, FilledIsUsable
    <3>7. QED BY <3>6
  <2>8. ASSUME NEW i \in DOMAIN cfg.policies
        PROVE  /\ \A f \in DOMAIN cfg.policies[i].retries : cfg.policies[i].retries[f] \in Usable
               /\ \A f \in DOMAIN cfg.policies[i].circuit_breaker :
                    cfg.policies[i].circuit_breaker[f] /= "bad"
               /\ \A f \in DOMAIN cfg.policies[i].rate_limit : cfg.policies[i].rate_limit[f] > 0
    <3> DEFINE policy == file.policies[i]
    <3> DEFINE served == cfg.policies[i]
    <3>1. i \in DOMAIN file.policies /\ served = FillPolicy(policy)
      BY <2>4
    <3>2. CheckPolicy(served)
      BY <2>2 DEF CheckStruct
    <3>3. /\ \A f \in DOMAIN policy.circuit_breaker : f \in CircuitBreaker
          /\ \A f \in DOMAIN policy.retries :
               /\ f \in RetriesDefaults /\ policy.retries[f] \in Written
               /\ f = "max_attempts" => policy.retries[f] /= "bad"
          /\ \A f \in DOMAIN policy.rate_limit :
               f \in {"rate", "interval"} /\ policy.rate_limit \in [rate : Int, interval : Int]
          /\ served.circuit_breaker = policy.circuit_breaker
          /\ served.retries = Fill(policy.retries, RetriesDefaults)
          /\ served.rate_limit = policy.rate_limit
      BY <3>1, PolicyParts
    <3> HIDE DEF policy, served
    <3>4. ASSUME NEW f \in DOMAIN served.retries PROVE served.retries[f] \in Usable
      <4>1. f \in DOMAIN policy.retries \cap RetriesDefaults /\ policy.retries[f] \in Written
        BY <3>3, <3>4 DEF Fill
      <4>2. CheckFields(Fill(policy.retries, RetriesDefaults))
        BY <3>2, <3>3 DEF CheckPolicy
      <4>3. policy.retries[f] /= "bad" \/ f \in MustBeGood
        BY <3>3, <4>1 DEF RetriesDefaults, MustBeGood
      <4>4. QED BY <3>3, <4>1, <4>2, <4>3, FilledIsUsable
    <3>5. ASSUME NEW f \in DOMAIN served.circuit_breaker
          PROVE  served.circuit_breaker[f] /= "bad"
      <4>1. f \in MustBeGood
        BY <3>3 DEF MustBeGood
      <4>2. QED BY <3>2, <4>1 DEF CheckPolicy, CheckFields
    <3>6. ASSUME NEW f \in DOMAIN served.rate_limit PROVE served.rate_limit[f] > 0
      <4>1. Present(served.rate_limit)
        BY DEF Present
      <4>2. served.rate_limit.rate > 0 /\ served.rate_limit.interval > 0
        BY <3>2, <4>1 DEF CheckPolicy, CheckRateLimit
      <4>3. QED BY <3>3, <4>2
    <3>7. QED BY <3>4, <3>5, <3>6 DEF served
  <2>9. QED BY <2>5, <2>6, <2>7, <2>8
<1>2. SInv => ServedConfigIsUsable
  BY <1>1 DEF ServedConfigIsUsable
<1>3. QED BY <1>2, SInvHolds, PTL

-----------------------------------------------------------------------------
(* Leaving out and giving a good value. *)

(* In a section where only fields with a default must be set, giving what  *)
(* is optional cannot turn a refused section into an accepted one.         *)
LEMMA GivingIsNoCure ==
  ASSUME NEW s, NEW F,
         DOMAIN s \cap MustBeSet \cap Optional \subseteq F,
         CheckFields(Fill(Given(s), F))
  PROVE  CheckFields(Fill(s, F))
<1> SUFFICES ASSUME NEW f \in DOMAIN s
             PROVE  /\ f \in MustBeSet => Fill(s, F)[f] /= "unset"
                    /\ f \in MustBeGood => Fill(s, F)[f] /= "bad"
  BY DEF CheckFields, Fill
<1>1. /\ f \in MustBeSet => Fill(Given(s), F)[f] /= "unset"
      /\ f \in MustBeGood => Fill(Given(s), F)[f] /= "bad"
  BY DEF CheckFields, Fill, Given
<1>2. /\ Fill(s, F)[f] = (IF f \in F /\ s[f] = "unset" THEN "default" ELSE s[f])
      /\ Fill(Given(s), F)[f] =
           (IF f \in F /\ Given(s)[f] = "unset" THEN "default" ELSE Given(s)[f])
      /\ Given(s)[f] = (IF f \in Optional /\ s[f] = "unset" THEN "given" ELSE s[f])
  BY DEF Fill, Given
<1>3. f \in MustBeSet /\ f \notin F => f \notin Optional
  OBVIOUS
<1> HIDE DEF MustBeSet, MustBeGood, Optional
<1>4. QED BY <1>1, <1>2, <1>3

LEMMA FieldsNotFilled ==
  ASSUME NEW s, CheckFields(Given(s)), DOMAIN s \cap MustBeSet \cap Optional = {}
  PROVE  CheckFields(s)
BY DEF CheckFields, Given

(* Which fields of each section that must be set may be left out. *)
LEMMA OptionalFields ==
  /\ (ServerDefaults \cup {"listen"}) \cap MustBeSet \cap Optional \subseteq ServerDefaults
  /\ LoggingDefaults \cap MustBeSet \cap Optional \subseteq LoggingDefaults
  /\ {"id", "prefix", "transport", "url"} \cap MustBeSet \cap Optional \subseteq BackendDefaults
  /\ {"enabled", "port", "path"} \cap MustBeSet \cap Optional = {}
  /\ CircuitBreaker \cap MustBeSet \cap Optional = {}
  /\ Resilience \cap MustBeSet \cap Optional = {}
  /\ \A f \in {"id", "prefix", "enabled", "tokens", "timeout"} : f \notin Optional
<1>1. MustBeSet \cap Optional \subseteq ServerDefaults \cup LoggingDefaults \cup BackendDefaults \cup {"backoff"}
  BY DEF MustBeSet, Optional, ServerDefaults, LoggingDefaults, BackendDefaults,
         RetriesDefaults, MetricsDefaults, CircuitBreaker
<1>2. \A f \in {"id", "prefix", "enabled", "tokens", "timeout"} : f \notin Optional
  BY DEF Optional, ServerDefaults, LoggingDefaults, BackendDefaults,
         RetriesDefaults, MetricsDefaults, CircuitBreaker
<1>3. QED
  BY <1>1, <1>2 DEF ServerDefaults, LoggingDefaults, BackendDefaults, CircuitBreaker,
                    Resilience

LEMMA GivenParts ==
  ASSUME NEW c, DOMAIN c = Sections
  PROVE  LET g == WithOptionalGiven(c)
         IN  /\ DOMAIN g = Sections
             /\ g.decodes = c.decodes
             /\ g.server = Given(c.server) /\ g.auth = Given(c.auth)
             /\ g.metrics = Given(c.metrics) /\ g.logging = Given(c.logging)
             /\ g.backends = [i \in DOMAIN c.backends |-> Given(c.backends[i])]
             /\ g.policies = [i \in DOMAIN c.policies |-> PolicyGiven(c.policies[i])]
BY DEF WithOptionalGiven, Sections

(* A policy that is refused is refused with its optional fields given. *)
LEMMA PolicyNoCure ==
  ASSUME NEW file \in Files, NEW i \in DOMAIN file.policies
  PROVE  LET policy == file.policies[i]
             filled == FillPolicy(policy)
             given  == FillPolicy(PolicyGiven(policy))
         IN  /\ CheckPolicy(given) => CheckPolicy(filled)
             /\ given.tool_pattern = filled.tool_pattern
             /\ given.validation = filled.validation
             /\ given.resilience.timeout = filled.resilience.timeout
<1> DEFINE policy == file.policies[i]
<1> DEFINE filled == FillPolicy(policy)
<1> DEFINE given == FillPolicy(PolicyGiven(policy))
<1>1. /\ \A f \in DOMAIN policy.circuit_breaker : f \in CircuitBreaker
      /\ \A f \in DOMAIN policy.retries : f \in RetriesDefaults
      /\ DOMAIN policy.resilience = Resilience
      /\ filled.tool_pattern = policy.tool_pattern
      /\ filled.circuit_breaker = policy.circuit_breaker
      /\ filled.retries = Fill(policy.retries, RetriesDefaults)
      /\ filled.rate_limit = policy.rate_limit
      /\ filled.validation = policy.validation
      /\ filled.resilience = policy.resilience
  BY PolicyParts
<1>2. DOMAIN policy = {"tool_pattern", "circuit_breaker", "retries",
                       "rate_limit", "validation", "resilience"}
  BY FilesAssumption DEF IsFile
<1> HIDE DEF policy
<1>3. /\ given.tool_pattern = policy.tool_pattern
      /\ given.circuit_breaker = Given(policy.circuit_breaker)
      /\ given.retries = Fill(Given(policy.retries), RetriesDefaults)
      /\ given.rate_limit = policy.rate_limit
      /\ given.validation = policy.validation
      /\ given.resilience = Given(policy.resilience)
  BY <1>2 DEF FillPolicy, FillRetries, PolicyGiven
<1> HIDE DEF filled, given
<1>4. given.resilience.timeout = filled.resilience.timeout
  BY <1>1, <1>3, OptionalFields DEF Given, Resilience
<1>5. ASSUME CheckPolicy(given) PROVE CheckPolicy(filled)
  <2>1. CheckFields(filled.circuit_breaker)
    <3>1. CheckFields(Given(policy.circuit_breaker))
      BY <1>3, <1>5 DEF CheckPolicy
    <3>2. DOMAIN policy.circuit_breaker \cap MustBeSet \cap Optional = {}
      BY <1>1, OptionalFields
    <3>3. QED BY <1>1, <3>1, <3>2, FieldsNotFilled
  <2>2. CheckFields(filled.retries)
    <3>1. CheckFields(Fill(Given(policy.retries), RetriesDefaults))
      BY <1>3, <1>5 DEF CheckPolicy
    <3>2. DOMAIN policy.retries \cap MustBeSet \cap Optional \subseteq RetriesDefaults
      BY <1>1
    <3>3. QED BY <1>1, <3>1, <3>2, GivingIsNoCure
  <2>3. CheckFields(filled.resilience)
    <3>1. CheckFields(Given(policy.resilience))
      BY <1>3, <1>5 DEF CheckPolicy
    <3>2. DOMAIN policy.resilience \cap MustBeSet \cap Optional = {}
      BY <1>1, OptionalFields
    <3>3. QED BY <1>1, <3>1, <3>2, FieldsNotFilled
  <2>4. QED BY <1>1, <1>3, <1>5, <2>1, <2>2, <2>3 DEF CheckPolicy
<1>6. QED BY <1>1, <1>3, <1>4, <1>5 DEF policy, filled, given

(* No file is refused for what it leaves out: it would be refused with     *)
(* every optional field given as well.                                     *)
THEOREM OmittingIsHarmless == Spec => []OmittingIsNoError
<1>1. ASSUME NEW file \in Files, Accepts(WithOptionalGiven(file))
      PROVE  Accepts(file)
  <2> DEFINE g == WithOptionalGiven(file)
  <2> DEFINE a == ApplyDefaults(file)
  <2> DEFINE b == ApplyDefaults(g)
  <2>1. DOMAIN file = Sections /\ IsFile(file, Chars, Symbols)
    BY FileParts, FilesAssumption
  <2>2. /\ DOMAIN g = Sections
        /\ g.decodes = file.decodes
        /\ g.server = Given(file.server) /\ g.auth = Given(file.auth)
        /\ g.metrics = Given(file.metrics) /\ g.logging = Given(file.logging)
        /\ g.backends = [i \in DOMAIN file.backends |-> Given(file.backends[i])]
        /\ g.policies = [i \in DOMAIN file.policies |-> PolicyGiven(file.policies[i])]
    BY <2>1, GivenParts
  <2>3. /\ a.server = Fill(file.server, ServerDefaults)
        /\ a.auth = IF file.auth.enabled THEN Fill(file.auth, {"header"}) ELSE file.auth
        /\ a.metrics = IF file.metrics.enabled THEN Fill(file.metrics, MetricsDefaults)
                                              ELSE file.metrics
        /\ a.logging = Fill(file.logging, LoggingDefaults)
        /\ a.backends = [i \in DOMAIN file.backends |->
                           Fill(file.backends[i], BackendDefaults)]
        /\ a.policies = [i \in DOMAIN file.policies |-> FillPolicy(file.policies[i])]
    BY <2>1, Parts
  <2> HIDE DEF g
  <2>4. /\ b.server = Fill(g.server, ServerDefaults)
        /\ b.auth = IF g.auth.enabled THEN Fill(g.auth, {"header"}) ELSE g.auth
        /\ b.metrics = IF g.metrics.enabled THEN Fill(g.metrics, MetricsDefaults)
                                           ELSE g.metrics
        /\ b.logging = Fill(g.logging, LoggingDefaults)
        /\ b.backends = [i \in DOMAIN g.backends |-> Fill(g.backends[i], BackendDefaults)]
        /\ b.policies = [i \in DOMAIN g.policies |-> FillPolicy(g.policies[i])]
    BY <2>2, Parts
  <2>5. /\ g.decodes /\ CheckStruct(b) /\ ValidateAuth(b.auth)
        /\ ValidateBackendIDs(b.backends) /\ ValidatePrefixes(b.backends)
        /\ ValidatePolicies(b.policies)
    BY <1>1 DEF Accepts, g
  <2> HIDE DEF a, b
  <2>6. CheckFields(a.server) /\ CheckFields(a.logging)
    <3>1. /\ DOMAIN file.server = ServerDefaults \cup {"listen"}
          /\ DOMAIN file.logging = LoggingDefaults
      BY <2>1 DEF IsFile
    <3>2. /\ CheckFields(Fill(Given(file.server), ServerDefaults))
          /\ CheckFields(Fill(Given(file.logging), LoggingDefaults))
      BY <2>2, <2>4, <2>5 DEF CheckStruct
    <3>3. QED BY <2>3, <3>1, <3>2, OptionalFields, GivingIsNoCure
  <2>7. CheckFields(a.metrics)
    <3>1. DOMAIN file.metrics = {"enabled", "port", "path"}
      BY FileParts
    <3>2. Given(file.metrics).enabled = file.metrics.enabled
      BY <3>1, OptionalFields DEF Given
    <3>3. CheckFields(b.metrics)
      BY <2>5 DEF CheckStruct
    <3>4. CASE file.metrics.enabled
      <4>1. CheckFields(Fill(Given(file.metrics), MetricsDefaults))
        BY <2>2, <2>4, <3>2, <3>3, <3>4
      <4>2. DOMAIN file.metrics \cap MustBeSet \cap Optional \subseteq MetricsDefaults
        BY <3>1, OptionalFields
      <4>3. QED BY <2>3, <3>4, <4>1, <4>2, GivingIsNoCure
    <3>5. CASE ~file.metrics.enabled
      <4>1. CheckFields(Given(file.metrics))
        BY <2>2, <2>4, <3>2, <3>3, <3>5
      <4>2. DOMAIN file.metrics \cap MustBeSet \cap Optional = {}
        BY <3>1, OptionalFields
      <4>3. QED BY <2>3, <3>5, <4>1, <4>2, FieldsNotFilled
    <3>6. QED BY <3>4, <3>5
  <2>8. ValidateAuth(a.auth)
    <3>1. DOMAIN file.auth = {"enabled", "header", "tokens"}
      BY FileParts
    <3>2. /\ g.auth.enabled = file.auth.enabled /\ g.auth.tokens = file.auth.tokens
          /\ DOMAIN g.auth = {"enabled", "header", "tokens"}
      BY <2>2, <3>1, OptionalFields DEF Given
    <3>3. /\ a.auth.enabled = file.auth.enabled /\ a.auth.tokens = file.auth.tokens
          /\ b.auth.enabled = g.auth.enabled /\ b.auth.tokens = g.auth.tokens
      BY <2>3, <2>4, <3>1, <3>2 DEF Fill
    <3>4. QED BY <2>5, <3>2, <3>3 DEF ValidateAuth
  <2>9. /\ DOMAIN a.backends = DOMAIN b.backends
        /\ DOMAIN b.backends = 1..Len(file.backends)
        /\ Len(a.backends) = Len(file.backends) /\ Len(b.backends) = Len(file.backends)
    <3>1. Len(file.backends) \in Nat /\ DOMAIN file.backends = 1..Len(file.backends)
      BY FileParts
    <3>2. DOMAIN a.backends = 1..Len(file.backends) /\ DOMAIN b.backends = 1..Len(file.backends)
      BY <2>2, <2>3, <2>4, <3>1
    <3>3. Len(a.backends) = Len(file.backends)
      BY <2>3, <3>1
    <3>4. Len(b.backends) = Len(file.backends)
      BY <2>2, <2>4, <3>1
    <3>5. QED BY <3>2, <3>3, <3>4
  <2>10. ASSUME NEW i \in DOMAIN a.backends
         PROVE  /\ CheckFields(a.backends[i])
                /\ a.backends[i].id = b.backends[i].id
                /\ a.backends[i].prefix = b.backends[i].prefix
    <3>1. /\ i \in DOMAIN file.backends
          /\ DOMAIN file.backends[i] = {"id", "prefix", "transport", "url"}
      BY <2>3, FileParts
    <3>2. /\ a.backends[i] = Fill(file.backends[i], BackendDefaults)
          /\ b.backends[i] = Fill(Given(file.backends[i]), BackendDefaults)
      BY <2>2, <2>3, <2>4, <3>1
    <3>3. CheckFields(Fill(Given(file.backends[i]), BackendDefaults))
      BY <2>5, <2>9, <3>2 DEF CheckStruct
    <3>4. CheckFields(a.backends[i])
      BY <3>1, <3>2, <3>3, OptionalFields, GivingIsNoCure
    <3>5. /\ Given(file.backends[i]).id = file.backends[i].id
          /\ Given(file.backends[i]).prefix = file.backends[i].prefix
          /\ DOMAIN Given(file.backends[i]) = {"id", "prefix", "transport", "url"}
      BY <3>1, OptionalFields DEF Given
    <3>6. QED BY <3>1, <3>2, <3>4, <3>5 DEF Fill, BackendDefaults
  <2>11. ASSUME NEW i \in DOMAIN a.policies
         PROVE  /\ CheckPolicy(a.policies[i])
                /\ a.policies[i].tool_pattern /= "bad"
                /\ a.policies[i].resilience.timeout = "unset"
                /\ a.policies[i].validation = "unset"
    <3>1. /\ i \in DOMAIN file.policies /\ i \in DOMAIN b.policies
          /\ a.policies[i] = FillPolicy(file.policies[i])
          /\ b.policies[i] = FillPolicy(PolicyGiven(file.policies[i]))
      BY <2>2, <2>3, <2>4
    <3>2. /\ CheckPolicy(b.policies[i])
          /\ b.policies[i].tool_pattern /= "bad"
          /\ b.policies[i].resilience.timeout = "unset"
          /\ b.policies[i].validation = "unset"
      BY <2>5, <3>1 DEF CheckStruct, ValidatePolicies
    <3>3. QED BY <3>1, <3>2, PolicyNoCure
  <2>12. CheckStruct(a)
    <3>1. a.backends /= <<>>
      <4>1. b.backends /= <<>>
        BY <2>5 DEF CheckStruct
      <4>2. QED BY <2>2, <2>3, <2>4, <2>9, <4>1
    <3>2. QED BY <2>6, <2>7, <2>10, <2>11, <3>1 DEF CheckStruct
  <2>13. ValidateBackendIDs(a.backends) /\ ValidatePrefixes(a.backends)
    BY <2>5, <2>9, <2>10 DEF ValidateBackendIDs, ValidatePrefixes
  <2>14. ValidatePolicies(a.policies)
    BY <2>11 DEF ValidatePolicies
  <2>15. QED
    BY <2>2, <2>5, <2>8, <2>12, <2>13, <2>14 DEF Accepts, a
<1>2. SInv => OmittingIsNoError
  BY <1>1 DEF SInv, Untouched, Decided, OmittingIsNoError
<1>3. QED BY <1>2, SInvHolds, PTL

=============================================================================
