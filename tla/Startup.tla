------------------------------ MODULE Startup ------------------------------
(***************************************************************************)
(* From a configuration file to a gateway that routes calls, and to its    *)
(* end: run and dialBackends of cmd/mcp-resile, Dial of internal/egress,   *)
(* MergeCapabilities and matchRoute of internal/proxy/proxy.go.  Config    *)
(* has the checks of the file, Auth those of a request.                    *)
(*                                                                         *)
(* A name is a sequence of characters, because prefixes may be prefixes of *)
(* one another.  Backends are dialed once, in order, before serving; what  *)
(* is not reachable then has no route for as long as the gateway runs.     *)
(* Left out: the metrics listener and the logger, which cannot stop run;   *)
(* the flags within a capability (CircuitWatch and NotificationRouter have *)
(* the rest of run).                                                       *)
(***************************************************************************)
EXTENDS Config, Auth, SequencesExt

CONSTANTS
  Chars,        \* what names and prefixes are made of
  Files,        \* what the configuration file may say
  CapsOf,       \* CapsOf[id]: the capabilities a backend advertises
  ToolNames,    \* names the backends give their tools
  Headers       \* what requests may carry in the configured header

(* A header's value has no space at its end, so never ends in the scheme.  *)
ASSUME HeadersAssumption ==
  /\ Scheme \subseteq Symbols /\ Headers \subseteq Seq(Symbols)
  /\ \A h \in Headers : h = <<>> \/ h[Len(h)] \notin Scheme

ASSUME NamesAssumption == ToolNames \subseteq Seq(Chars)

ASSUME FilesAssumption == \A file \in Files : IsFile(file, Chars, Symbols)

VARIABLES
  cfg,        \* the configuration, with its defaults once it is accepted
  answer,     \* answer[i]: what becomes of dialing the i-th backend - "up",
              \* "down": it does not connect, "refused": it connects and then
              \* fails to set the logging level, "silent": it never answers
  phase,      \* "loading", "rejected", "dialing", "serving", "stopped"
  next,       \* position of the backend to dial next
  routes,     \* positions of the backends dialed, in order
  sessions    \* positions of the backends with an open session

vars == <<cfg, answer, phase, next, routes, sessions>>

Init ==
  /\ cfg \in Files
  /\ answer = <<>>
  /\ phase = "loading"
  /\ next = 1
  /\ routes = <<>>
  /\ sessions = {}

Answering(how) == {i \in DOMAIN answer : answer[i] \in how}
Reachable == Answering({"up"})
Down      == Answering({"down", "refused"})

-----------------------------------------------------------------------------
(* config.Load; nobody looks at the backends before. *)
Load ==
  /\ phase = "loading"
  /\ IF Accepts(cfg)
     THEN /\ phase' = "dialing"
          /\ cfg' = ApplyDefaults(cfg)
          /\ answer' \in [DOMAIN cfg.backends -> {"up", "down", "refused", "silent"}]
     ELSE phase' = "rejected" /\ UNCHANGED <<cfg, answer>>
  /\ UNCHANGED <<next, routes, sessions>>

(* dialBackends.  egress.Dial has no deadline: on a silent backend it does *)
(* not return, and there is no step.                                       *)
Dial ==
  /\ phase = "dialing" /\ next \in Reachable
  /\ sessions' = sessions \cup {next}
  /\ routes' = Append(routes, next)
  /\ next' = next + 1
  /\ UNCHANGED <<cfg, answer, phase>>

Skip_Anyway ==
  /\ phase = "dialing" /\ next \in Down
  /\ routes' = Append(routes, next)
  /\ next' = next + 1
  /\ UNCHANGED <<cfg, answer, phase, sessions>>

Skip_Retries ==
  /\ phase = "dialing" /\ next \in Down
  /\ UNCHANGED vars

Skip_Rest ==
  /\ phase = "dialing" /\ next \in Down
  /\ next' = Len(cfg.backends) + 1
  /\ UNCHANGED <<cfg, answer, phase, routes, sessions>>

Skip_Unclosed ==
  /\ phase = "dialing" /\ next \in Down
  /\ sessions' = sessions \cup (Answering({"refused"}) \cap {next})
  /\ next' = next + 1
  /\ UNCHANGED <<cfg, answer, phase, routes>>

(* Dial failed: logged and skipped.  A session whose logging level could   *)
(* not be set has been closed by then.                                     *)
Skip ==
  /\ phase = "dialing" /\ next \in Down
  /\ next' = next + 1
  /\ UNCHANGED <<cfg, answer, phase, routes, sessions>>

(* Whatever was dialed, even nothing. *)
Serve ==
  /\ phase = "dialing" /\ next > Len(cfg.backends)
  /\ phase' = "serving"
  /\ UNCHANGED <<cfg, answer, next, routes, sessions>>

(* ListenAndServe failed, at once or later: the deferred closeBackends. *)
Stop ==
  /\ phase = "serving"
  /\ phase' = "stopped"
  /\ sessions' = sessions \ {routes[k] : k \in DOMAIN routes}
  /\ UNCHANGED <<cfg, answer, next, routes>>

Next == Load \/ Dial \/ Skip \/ Serve \/ Stop

Spec == Init /\ [][Next]_vars

FairSpec == Spec /\ WF_vars(Load \/ Dial \/ Skip \/ Serve)

-----------------------------------------------------------------------------
(* MergeCapabilities: the gateway's own, and those of every route. *)
Advertised == {"logging"} \cup
              UNION {CapsOf[cfg.backends[routes[k]].id] : k \in DOMAIN routes}

(* The gateway's name for tool n of the backend at i: listTools. *)
FullName(i, n) == cfg.backends[i].prefix \o n

NoRoute == [backend |-> 0, name |-> <<>>]

Fitting(among, name) ==
  {k \in DOMAIN among : IsPrefix(cfg.backends[among[k]].prefix, name)}

Best_First(among, name) ==
  CHOOSE k \in Fitting(among, name) : \A l \in Fitting(among, name) : k <= l

(* The longest prefix; the first route that has it. *)
Best(among, name) ==
  CHOOSE k \in Fitting(among, name) :
    \A l \in Fitting(among, name) :
      LET mine == Len(cfg.backends[among[k]].prefix)
          its  == Len(cfg.backends[among[l]].prefix)
      IN  its < mine \/ (its = mine /\ k <= l)

(* matchRoute over the routes to the backends at the positions among: the  *)
(* backend, and the name to forward to it.                                 *)
MatchRoute(among, name) ==
  IF Fitting(among, name) = {} THEN NoRoute
  ELSE LET b == among[Best(among, name)]
       IN  [backend |-> b,
            name    |-> SubSeq(name, Len(cfg.backends[b].prefix) + 1, Len(name))]

-----------------------------------------------------------------------------
(* What is asked of it. *)

(* Type correctness; what is accepted would be accepted unchanged with its *)
(* defaults written out; routes are dialed, reachable backends in order.   *)
TypeOK ==
  /\ phase \in {"loading", "rejected", "dialing", "serving", "stopped"}
  /\ phase \notin {"loading", "rejected"} => ApplyDefaults(cfg) = cfg /\ Accepts(cfg)
  /\ next \in 1..Len(cfg.backends) + 1
  /\ routes \in Seq(Reachable)
  /\ \A k, l \in DOMAIN routes : k < l => routes[k] < routes[l]
  /\ sessions \subseteq DOMAIN cfg.backends

(* What may be left out of the file: a field left unset in its section. *)
Optional == ServerDefaults \cup MetricsDefaults \cup LoggingDefaults \cup
            BackendDefaults \cup RetriesDefaults \cup CircuitBreaker \cup
            {"header", "min_deadline_threshold"}

Given(section) ==
  [f \in DOMAIN section |->
     IF f \in Optional /\ section[f] = "unset" THEN "given" ELSE section[f]]

PolicyGiven(policy) ==
  [policy EXCEPT !.circuit_breaker = Given(policy.circuit_breaker),
                 !.retries         = Given(policy.retries),
                 !.resilience      = Given(policy.resilience)]

WithOptionalGiven(file) ==
  [file EXCEPT
     !.server   = Given(@), !.auth = Given(@),
     !.metrics  = Given(@), !.logging = Given(@),
     !.backends = [i \in DOMAIN @ |-> Given(@[i])],
     !.policies = [i \in DOMAIN @ |-> PolicyGiven(@[i])]]

(* "An omitted transport or timeout is never mistaken for an invalid one": *)
(* a file that is rejected would be rejected as well if every optional     *)
(* field it leaves out were given a good value.  (applyDefaults before     *)
(* CheckStruct, config.go:399-403)                                         *)
OmittingIsNoError == phase = "rejected" => ~Accepts(WithOptionalGiven(cfg))

Usable == {"given", "default"}

(* What run hands on is what its users can work with: the clamp a budget,  *)
(* the HTTP servers timeouts, a path to serve, resile at least one attempt *)
(* and no limit that divides by zero or lets nobody through, the           *)
(* middleware a header to look at and a list to look in - also where no    *)
(* check looks, and defaults must do.  (applyDefaults, Parse)              *)
ServedConfigIsUsable ==
  phase = "serving" =>
    /\ \A f \in ServerDefaults : cfg.server[f] \in Usable
    /\ cfg.auth.enabled => cfg.auth.header \in Usable /\ cfg.auth.tokens /= <<>>
    /\ cfg.metrics.enabled => cfg.metrics.port \in Usable /\ cfg.metrics.path \in Usable
    /\ \A i \in DOMAIN cfg.policies :
         LET policy == cfg.policies[i]
         IN  /\ \A f \in DOMAIN policy.retries : policy.retries[f] \in Usable
             /\ \A f \in DOMAIN policy.circuit_breaker :
                  policy.circuit_breaker[f] /= "bad"
             /\ \A f \in DOMAIN policy.rate_limit : policy.rate_limit[f] > 0

(* A client told to retry after so many milliseconds is told the average   *)
(* time between two tokens: never more than half a millisecond too much,   *)
(* and too little by no more than another half and the part of the         *)
(* interval that is no whole millisecond, shared out over the tokens - so  *)
(* it is told 0 only if the interval's whole milliseconds come to less     *)
(* than half a one per token.                                              *)
(* (retryAfterMillis)                                                      *)
RetryHintIsHonest ==
  phase = "serving" =>
    \A i \in DOMAIN cfg.policies :
      LET limit == cfg.policies[i].rate_limit
          hint  == RetryAfterMillis(limit)
      IN  Present(limit) =>
            /\ 2 * hint * limit.rate <= 2 * limit.interval + limit.rate
            /\ 2 * hint * limit.rate + limit.rate + 2 * (limit.interval % 1000)
                 > 2 * limit.interval

(* With authentication on, a request gets through exactly if it carries a  *)
(* listed token, after the scheme in any spelling or - unless the token    *)
(* itself begins like the scheme - bare.  An empty token admits nobody:    *)
(* what else is listed decides.  (Middleware, extractToken, isAllowed)     *)
ListedTokensOpen ==
  phase = "serving" =>
    \A header \in Headers :
      Admits(cfg.auth, header) <=>
        \/ ~cfg.auth.enabled
        \/ \E i \in DOMAIN cfg.auth.tokens :
             LET token == cfg.auth.tokens[i]
             IN  /\ token /= <<>>
                 /\ \/ \E s \in Scheme : header = <<s>> \o token
                    \/ header = token /\ token[1] \notin Scheme

(* No session is left behind: one is open exactly for every route, none    *)
(* for a backend that connected and was then skipped, and none at all once *)
(* run has returned.  (Dial's own Close, closeBackends)                    *)
NoSessionLeaks ==
  sessions = IF phase = "stopped" THEN {} ELSE {routes[k] : k \in DOMAIN routes}

(* Every backend's tools come back from the names the gateway lists them   *)
(* under - to the same backend, under the backend's own name - unless a    *)
(* strictly longer prefix fits that name too; then its backend, and no     *)
(* other, gets the call.  What a client still knows of a backend that is   *)
(* down leads nowhere, or to a backend whose prefix is a part of its, or   *)
(* goes on from it, under the rest of the very same name.                  *)
(* (listTools, matchRoute, validatePrefixes)                               *)
ListedNamesComeBack ==
  phase = "serving" =>
    \A i \in DOMAIN cfg.backends, n \in ToolNames :
      LET got  == MatchRoute(routes, FullName(i, n))
          mine == cfg.backends[i].prefix
          its  == cfg.backends[got.backend].prefix
      IN  \/ i \in Reachable /\ got = [backend |-> i, name |-> n]
          \/ i \notin Reachable /\ got = NoRoute
          \/ /\ got.backend \in Reachable
             /\ FullName(got.backend, got.name) = FullName(i, n)
             /\ \/ IsStrictPrefix(mine, its)
                \/ i \notin Reachable /\ IsStrictPrefix(its, mine)

(* "One down backend never blocks the others from being usable": a call    *)
(* that would reach a reachable backend were all of them up, reaches that  *)
(* backend, under the same name, whichever of the others failed to dial;   *)
(* and clients are told of what it can do, and of nothing that only the    *)
(* others can.  (dialBackends, main.go:96-101; MergeCapabilities)          *)
DownBackendBlocksNobody ==
  phase = "serving" =>
    /\ \A i \in DOMAIN cfg.backends, n \in ToolNames :
         LET allUp == MatchRoute([k \in DOMAIN cfg.backends |-> k], FullName(i, n))
         IN  allUp.backend \in Reachable => MatchRoute(routes, FullName(i, n)) = allUp
    /\ \A i \in Reachable : CapsOf[cfg.backends[i].id] \subseteq Advertised
    /\ \A cap \in Advertised \ {"logging"} :
         \E i \in Reachable : cap \in CapsOf[cfg.backends[i].id]

(* A configuration is rejected, or served in the end whichever backends    *)
(* refuse ("even zero" routes), if none is silent.  (run, dialBackends)    *)
ServedWithoutTheDown ==
  phase = "loading" ~> \/ phase \in {"rejected", "serving"}
                       \/ Answering({"silent"}) /= {}

(* What main.go:96-101 says of a backend that is not usable: it never      *)
(* blocks the others, the gateway starts with whatever it could reach.     *)
OthersAreServed == phase = "dialing" /\ Reachable /= {} ~> phase = "serving"

(* What config.go:331-335 says its checks achieve: two backends' tools     *)
(* never have the same name on the gateway's side.                         *)
NamesNeverCollide ==
  phase = "serving" =>
    \A k, l \in DOMAIN routes, n, m \in ToolNames :
      k /= l => FullName(routes[k], n) /= FullName(routes[l], m)
=============================================================================
