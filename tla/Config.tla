------------------------------- MODULE Config -------------------------------
(***************************************************************************)
(* What becomes of a configuration file: the sections of mcp-resile.yaml,  *)
(* the defaults and the checks of internal/config/config.go, and the       *)
(* retry_after_ms computed from a rate limit (internal/proxy/errors.go).   *)
(*                                                                         *)
(* A section is a function from its fields' names to values.  A value is   *)
(*   "unset"    Go's zero value: left out, or 0 or "" on purpose           *)
(*   "given"    something the field is meant for                           *)
(*   "bad"      something its check refuses: negative, out of range, an    *)
(*              unknown word, a malformed URL or glob                      *)
(*   "default"  what applyDefaults put there.                              *)
(* Ids and prefixes, tokens, and a limit's rate and interval have values   *)
(* of their own.  An optional block that is left out has no fields.        *)
(* Left out: the wording of errors, and which of several is reported.      *)
(***************************************************************************)
EXTENDS Integers, Sequences

Absent == <<>>
Present(block) == DOMAIN block /= {}

(* Fields that applyDefaults fills in. *)
ServerDefaults  == {"transport", "read_timeout", "write_timeout",
                    "max_request_bytes", "max_response_bytes"}
MetricsDefaults == {"port", "path"}
LoggingDefaults == {"level", "format"}
BackendDefaults == {"transport"}
RetriesDefaults == {"max_attempts", "base_delay", "max_delay", "backoff"}

(* The blocks of a policy, whatever the values in them. *)
CircuitBreaker == {"failure_rate", "window_duration", "reset_timeout"}
Resilience     == {"min_deadline_threshold", "timeout"}
RateLimit(rate, interval) == [rate |-> rate, interval |-> interval]

Fill(section, fields) ==
  [f \in DOMAIN section |->
     IF f \in fields /\ section[f] = "unset" THEN "default" ELSE section[f]]

Written == {"unset", "given", "bad"}

(* A decoded file: every section is there, if need be empty; max_attempts  *)
(* is unsigned, and any name of a header will do.                          *)
IsFile(file, Chars, Symbols) ==
  /\ DOMAIN file = {"decodes", "server", "auth", "metrics", "logging",
                    "backends", "policies"}
  /\ file.server \in [ServerDefaults \cup {"listen"} -> Written]
  /\ file.auth \in [enabled : BOOLEAN, header : Written \ {"bad"},
                    tokens : Seq(Seq(Symbols))]
  /\ file.metrics \in [enabled : BOOLEAN, port : Written, path : Written]
  /\ file.logging \in [LoggingDefaults -> Written]
  /\ Len(file.backends) \in Nat /\ DOMAIN file.backends = 1..Len(file.backends)
  /\ \A i \in DOMAIN file.backends :
       LET backend == file.backends[i]
       IN  /\ DOMAIN backend = {"id", "prefix", "transport", "url"}
           /\ backend.prefix \in Seq(Chars)
           /\ backend.transport \in Written /\ backend.url \in Written
  /\ \A i \in DOMAIN file.policies :
       LET policy == file.policies[i]
       IN  /\ DOMAIN policy = {"tool_pattern", "circuit_breaker", "retries",
                               "rate_limit", "validation", "resilience"}
           /\ Present(policy.circuit_breaker) =>
                policy.circuit_breaker \in [CircuitBreaker -> Written]
           /\ Present(policy.retries) =>
                policy.retries \in {block \in [RetriesDefaults -> Written] :
                                      block["max_attempts"] /= "bad"}
           /\ Present(policy.rate_limit) =>
                policy.rate_limit \in [rate : Int, interval : Int]
           /\ policy.resilience \in [Resilience -> Written]

-----------------------------------------------------------------------------
(* Config.applyDefaults *)

FillRetries_NoBackoff(block) == Fill(block, RetriesDefaults \ {"backoff"})
FillRetries_CheckedOnly(block) == Fill(block, {"base_delay", "max_delay", "backoff"})

FillRetries(block) == Fill(block, RetriesDefaults)

FillPolicy(policy) == [policy EXCEPT !.retries = FillRetries(policy.retries)]

ApplyDefaults(cfg) ==
  [cfg EXCEPT
     !.server   = Fill(@, ServerDefaults),
     !.auth     = IF @.enabled THEN Fill(@, {"header"}) ELSE @,
     !.metrics  = IF @.enabled THEN Fill(@, MetricsDefaults) ELSE @,
     !.logging  = Fill(@, LoggingDefaults),
     !.backends = [i \in DOMAIN @ |-> Fill(@[i], BackendDefaults)],
     !.policies = [i \in DOMAIN @ |-> FillPolicy(@[i])]]

-----------------------------------------------------------------------------
(* The struct tags, as checker.CheckStruct applies them: required, or a    *)
(* range or a list of words that the zero value is not in.                 *)
MustBeSet == ServerDefaults \cup LoggingDefaults \cup BackendDefaults \cup
             {"listen", "id", "url", "tool_pattern", "backoff"}

(* url, starts-with, oneof, gte, lte; tool_pattern's glob, the header and  *)
(* max_attempts have no tag. *)
MustBeGood == ServerDefaults \cup LoggingDefaults \cup BackendDefaults \cup
              MetricsDefaults \cup CircuitBreaker \cup
              {"url", "base_delay", "max_delay", "backoff",
               "min_deadline_threshold"}

CheckFields(section) ==
  \A f \in DOMAIN section :
    /\ f \in MustBeSet => section[f] /= "unset"
    /\ f \in MustBeGood => section[f] /= "bad"

CheckRateLimit(limit) == Present(limit) => limit.rate > 0 /\ limit.interval > 0

CheckPolicy(policy) ==
  /\ CheckFields([tool_pattern |-> policy.tool_pattern])
  /\ CheckFields(policy.circuit_breaker)
  /\ CheckFields(policy.retries)
  /\ CheckRateLimit(policy.rate_limit)
  /\ CheckFields(policy.resilience)

CheckStruct(cfg) ==
  /\ CheckFields(cfg.server) /\ CheckFields(cfg.metrics) /\ CheckFields(cfg.logging)
  /\ cfg.backends /= <<>>
  /\ \A i \in DOMAIN cfg.backends : CheckFields(cfg.backends[i])
  /\ \A i \in DOMAIN cfg.policies : CheckPolicy(cfg.policies[i])

-----------------------------------------------------------------------------
(* The checks that look at more than one field. *)

ValidateAuth(auth) == auth.enabled => auth.tokens /= <<>>

ValidateBackendIDs(list) ==
  \A i, j \in DOMAIN list : list[i].id = list[j].id => i = j

ValidatePrefixes(list) ==
  Len(list) >= 2 =>
    /\ \A i \in DOMAIN list : list[i].prefix /= <<>>
    /\ \A i, j \in DOMAIN list : list[i].prefix = list[j].prefix => i = j

(* A well-formed glob, and neither of the fields that are not supported.   *)
ValidatePolicies(list) ==
  \A i \in DOMAIN list :
    /\ list[i].tool_pattern /= "bad"
    /\ list[i].resilience.timeout = "unset"
    /\ list[i].validation = "unset"

(* Load and Parse: the file can be read and decoded, every key in it is    *)
(* known and every value of its field's type; the defaults come before the *)
(* checks.                                                                 *)
Accepts(cfg) ==
  LET filled == ApplyDefaults(cfg)
  IN  /\ cfg.decodes
      /\ CheckStruct(filled)
      /\ ValidateAuth(filled.auth)
      /\ ValidateBackendIDs(filled.backends) /\ ValidatePrefixes(filled.backends)
      /\ ValidatePolicies(filled.policies)

-----------------------------------------------------------------------------
RetryAfterMillis_Truncated(limit) ==
  IF ~Present(limit) THEN 0
  ELSE (1000 * (limit.interval \div 1000)) \div limit.rate

(* retryAfterMillis: interval / rate in milliseconds, rounded; Milliseconds*)
(* truncates the interval first.  The interval is in microseconds, the     *)
(* rate in thousandths.                                                    *)
RetryAfterMillis(limit) ==
  IF ~Present(limit) \/ limit.rate <= 0 THEN 0
  ELSE (2000 * (limit.interval \div 1000) + limit.rate) \div (2 * limit.rate)
=============================================================================
