----------------------------- MODULE MCStartup -----------------------------
(***************************************************************************)
(* Small instance of Startup.  One section of the file varies at a time:   *)
(* backends whose prefixes extend one another, beside one that stands      *)
(* apart; or every combination of values in one of the other sections.     *)
(***************************************************************************)
EXTENDS Startup

CONSTANTS i1, i2, i3, MaxBackends

MCChars == {"a", "b"}
MCScheme == {"Bearer ", "BEARER "}
MCSymbols == MCScheme \cup {"k", "w"}
MCToolNames == {<<"a">>, <<"b">>, <<"b", "a">>, <<"a", "b">>}
MCPrefixes == {<<>>, <<"a">>, <<"a", "b">>, <<"b">>}
MCCapsOf == [id \in {i1, i2, i3} |->
               CASE id = i1 -> {"tools"}
                 [] id = i2 -> {"tools", "prompts"}
                 [] id = i3 -> {}]

(* "k": a token that is listed in some files, "w": one that never is; *)
(* a token may be empty, or begin like the scheme.                    *)
Tokens == {<<>>, <<"k">>, <<"k", "w">>, <<"Bearer ", "k">>}
MCHeaders == {h \in UNION {[1..n -> MCSymbols] : n \in 0..3} :
                h = <<>> \/ h[Len(h)] \notin MCScheme}

AnyValue  == {"unset", "given", "bad"}
Known     == {"unset", "given"}
SomeBackend(id, prefix) ==
  [id |-> id, prefix |-> prefix, transport |-> "unset", url |-> "given"]
SomePolicy ==
  [tool_pattern |-> "given", circuit_breaker |-> Absent, retries |-> Absent,
   rate_limit |-> Absent, validation |-> "unset",
   resilience |-> [f \in Resilience |-> "unset"]]

Plain ==
  [decodes  |-> TRUE,
   server   |-> [f \in ServerDefaults \cup {"listen"} |->
                   IF f = "listen" THEN "given" ELSE "unset"],
   auth     |-> [enabled |-> FALSE, header |-> "unset", tokens |-> <<>>],
   metrics  |-> [enabled |-> FALSE, port |-> "unset", path |-> "unset"],
   logging  |-> [f \in LoggingDefaults |-> "unset"],
   backends |-> <<SomeBackend(i1, <<>>)>>,
   policies |-> <<SomePolicy>>]

Empty == [Plain EXCEPT !.server = [f \in DOMAIN @ |-> "unset"],
                       !.backends = <<>>, !.policies = <<>>]

BackendLists ==
  UNION {[1..n -> {SomeBackend(id, prefix) :
                     id \in {i1, i2, i3, "unset"}, prefix \in MCPrefixes}]
         : n \in 0..MaxBackends}

PolicyVariants ==
  {[SomePolicy EXCEPT !.tool_pattern = p, !.validation = v, !.resilience = r] :
     p \in AnyValue, v \in Known, r \in [Resilience -> AnyValue]} \cup
  {[SomePolicy EXCEPT !.circuit_breaker = b] : b \in [CircuitBreaker -> AnyValue]} \cup
  {[SomePolicy EXCEPT !.retries = r] :
     r \in {x \in [RetriesDefaults -> AnyValue] : x["max_attempts"] \in Known}} \cup
  {[SomePolicy EXCEPT !.rate_limit = RateLimit(rate, interval)] :
     rate \in {-1, 0, 1, 300, 1000, 7000, 9000000},
     interval \in {-1, 0, 1, 1500, 2000, 1000000}}

MCFiles ==
  {Empty, [Plain EXCEPT !.decodes = FALSE]} \cup
  {[Plain EXCEPT !.backends = b] : b \in BackendLists} \cup
  {[Plain EXCEPT !.backends[1].transport = t, !.backends[1].url = u] :
     t \in AnyValue, u \in AnyValue} \cup
  {[Plain EXCEPT !.server = s] : s \in [DOMAIN Plain.server -> AnyValue]} \cup
  {[Plain EXCEPT !.auth = [enabled |-> e, header |-> h, tokens |-> t]] :
     e \in BOOLEAN, h \in Known, t \in UNION {[1..n -> Tokens] : n \in 0..2}} \cup
  {[Plain EXCEPT !.metrics = [enabled |-> e, port |-> p, path |-> q]] :
     e \in BOOLEAN, p \in AnyValue, q \in AnyValue} \cup
  {[Plain EXCEPT !.logging = s] : s \in [LoggingDefaults -> AnyValue]} \cup
  {[Plain EXCEPT !.policies = <<p>>] : p \in PolicyVariants}
=============================================================================
