# mcp-resile in TLA+

mcp-resile is a gateway between MCP clients and MCP backends: it merges the
tools of several backends under prefixes, sends each `tools/call` to the right
one and wraps it in the resilience blocks of a policy (rate limit, circuit
breaker, retries, deadline threshold).  These modules model the gateway's own
logic.  The libraries below it are the environment: `resile` (limiter, breaker,
retry loop) and the MCP go-sdk (sessions, transport) appear as nondeterministic
actions, as the code here uses them.

    cd tla
    tlc -workers 2 -config dispatch_pair.cfg MCDispatch.tla   # any run below
    tlapm DispatchProofs.tla                                  # any *Proofs module

## 1. The system

| component | state | operations | talks to |
|---|---|---|---|
| dispatch (`internal/proxy/proxy.go`, `errors.go`, `retry.go`) | none of its own; one goroutine per request | `listTools`, `callTool`, `dispatchTool`, option building, `mapResilienceError`, `outcomeForError` | everything below |
| policies (`internal/policy`) | one limiter and one breaker per policy, shared by every tool its pattern matches, on every backend | `NewResolver`, `Resolve` | dispatch |
| notifications (`internal/proxy/notifications.go`) | counter and map of progress tokens under one lock, cleanup timers, the attached server | `Attach`, `TrackProgress` and its cleanup, `HandleProgress`, `HandleLog` | called by dispatch and, from their own goroutines, by the backend sessions |
| schema firewall (`internal/proxy/schema.go`) | the cache `byName` under an RWMutex | `refresh`, `resolveTool`, `validateArguments` | filled by every `tools/call` and `tools/list` |
| response clamping (`internal/proxy/response.go`) | none | `clampResponse`, `truncateUTF8` | dispatch |
| routing and startup (`cmd/mcp-resile`, `matchRoute`, `MergeCapabilities`) | the routes, fixed after startup | `run`, `dialBackends`, `closeBackends`, `matchRoute` | configuration, egress |
| configuration (`internal/config`) | none | `Load`, `Parse`: decoding, `applyDefaults`, the checks | startup |
| egress (`internal/egress`) | the SDK session of a backend | `Dial`, `ListTools`, `CallTool`, `Close` | backends |
| metrics (`internal/metrics`) | counters, one gauge, a watcher goroutine per breaker | `RecordRequest`, the instrumenter's hooks, `WatchCircuitBreaker` | dispatch, resile |
| authentication (`internal/auth`) | the list of tokens, never changed | `Middleware` | ingress |
| ingress, logging, version | none | constructors, formatting, a constant | - |

**What is hard here.**  Requests run concurrently and share a limiter and a
breaker per policy, one schema cache, one token map and the counters.  A schema
is fetched outside the cache's lock and stored later, tool by tool.  A progress
notification and the response it belongs to travel apart; the token mapping has
to outlive the call, but not for ever.  A retry must not repeat what has been
done, nor be charged to the limiter again.  Errors are rewritten on their way
out, and classified.  Backends may be down, fail half-way or stay silent at
startup.  A breaker's state reaches its gauge through a bounded channel and a
goroutine of its own.  Defaults are filled in before the checks, and not every
field has a check.

**What makes it correct.**

- dispatch: a tool is run at most as often as its policy allows and again only
  after a transient failure; invalid arguments get no further than the firewall; every
  call is answered, and counted, once.
- policies: tokens are neither lost nor made up; a breaker opens on failures of
  its own policy.
- notifications: progress is sent to the client that made the call, under that
  client's own token; nothing that came in time goes unsent; a log message is
  sent to every client that is there; no mapping stays.
- schema firewall: what was listed or fetched is enforced, and never replaced
  for good by something older.
- clamping: the longest prefix of whole runes within the budget; the rest of a
  result as it was.
- routing and startup: each listed name leads back to its backend and tool; a
  backend that is down changes nothing for the others; no session is left open.
- configuration: what is omitted is no error; what is accepted can be worked
  with, by everyone who reads it.
- authentication: exactly the listed tokens open the gate.
- metrics: the counters equal what the calls did; a gauge may lag but shows a
  state its breaker was in, no further back than its channel accounts for, and
  catches up.

PROJECT.json lists each hazard at the line where it bites, with the properties
that cover it.

## 2. The modules

    ErrorMapping         errors, their classification            errors.go retry.go
      CallContract       what one client may rely on             (abstract)
      Dispatch           tools/call, concurrent                  proxy.go policy.go
        MCDispatch, DispatchProofs, ContractProofs, CountingProofs
    ProgressContract     what clients are promised of progress   (abstract)
      NotificationRouter tokens, cleanup, log broadcast          notifications.go
        MCNotificationRouter, NotificationRouterProofs
    SchemaCache          lookups, listings, changing backends    schema.go
        MCSchemaCache, SchemaCacheProofs
    Config               defaults and checks of the file         config.go
    Auth                 one header against a list               auth.go
      Startup            loading, dialing, routing, stopping     main.go proxy.go
        MCStartup, StartupProofs
    CircuitWatch         breakers, their channels and gauges     metrics.go policy.go
        MCCircuitWatch, CircuitWatchProofs
    Clamp                cutting a result                        response.go
        MCClamp, ClampProofs

### ErrorMapping
An error is what `errors.Is`/`errors.As` see: a kind, and a code for a
`*jsonrpc.Error`.  `MapResilienceError`, `OutcomeForError`, `IsTransientError`
and `LogLevel` are the functions of the same names.  A deadline counts as
transient, because `context.DeadlineExceeded` implements `net.Error`;
`Repeatable` are the transient failures without it, after which a call may
really run its tool again.  A backend may answer with any code, the gateway's
own among them (`OwnCodes`): it may be such a gateway itself.

### Dispatch
A call's `pc` follows `callTool`/`dispatchTool` and `resile.Do` inside it:

| action | code |
|---|---|
| `FallThrough`, `Arrive` | `callTool`'s `matchRoute` and its early return |
| `ResolveHit`, `ResolveMiss`, `ListReply`, `ListFail` | `resolveTool`; a failed listing lets the call go on unvalidated |
| `Validate` (within those) | `validateArguments` |
| `RefreshRoute` | one iteration of `listTools`, for some client's own `tools/list` |
| `Admit`, `Shed` | the limiter, outside the retry loop; `OnRateLimitExceeded` |
| `Abort`, `Refuse`, `Send` | before an attempt: deadline threshold, breaker |
| `Reply`, `BackoffOver` | the end of an attempt, the retry decision, the breaker's count |
| `Cut`, `CutEarly` | the context ends between two attempts, before the first, or ahead of the limiter |
| `AfterAttempt` (within `Reply`, `Refuse`) | the instrumenter's hook that counts retries |
| `Return` | `mapResilienceError`, then `outcomeForError` and `RecordRequest` on the *mapped* error |
| `Refill`, `ResetTimeout`, `WindowSlides`, `Tick` | time, as resile and the context see it |
| `GoAway` | the client cancels the call or leaves, from its arrival on |

Left open, both ways allowed: which half-open success closes the breaker,
whether a half-open breaker refuses a particular call, how long a backoff is,
when outcomes leave the window, whether a refusal by the breaker is an attempt
to the instrumenter, and where resile notices that the context has ended: a call
whose client left while its schema was looked up goes on into `resile.Do`
(proxy.go:200, 225), which may return before the limiter, before the first
attempt, or after it.  `BreakerWraps` says whether the breaker counts
attempts or whole calls, which the repository does not tell; the runs use both.
A call's schema and backend are constants here; SchemaCache lets them change.

### CallContract
The promise to one client: the retry budget is fixed when the call is accepted;
one run of the tool is over before the next begins, and only a transient failure
is followed by one; there is one answer, and no run after it.  Which answers fit
depends on how the runs ended: a final result or error is passed on as it is, a
transient failure only when the budget is used up; "circuit open", a timeout or
a cancellation may end a call before a run or between two; "rate limited" and
"invalid params" come from the gateway only if the tool never ran - otherwise
they are the backend's own last word.  `Dispatch!Contract` maps `pc` to the
call's phase, attempts to runs and the last of `results` to `last`.

### NotificationRouter
`TrackProgress`, `Done`/`Cleanup`, `Lookup`/`Forward` (the two halves of
`HandleProgress`, inside and after the lock), `HandleLog`/`Tell` (the look at the
server and its sessions, and one turn of the loop over them), and
`Attach`/`ListenAndServe` of `run`.  `NotifyProgress` and `session.Log` may fail
whether or not the client is still there; the code writes that to its own log
and goes on.  A report whose sending failed is in `dropped`; whom a log message
is `owed` to, and who is still ahead in the loop, is in `log`, where a client has
been tried once, successfully or not.  Time is in ticks: `progressCleanupDelay`
is `CleanupDelay`, and a notification is under way for at most `MaxGap` ticks.
`MaxGap < CleanupDelay` is the assumption the code's comment makes
(notifications.go:13-21).  `AfterFunc` may fire late.

### ProgressContract
The promise to the clients, without tokens, timers, lookups or delays: a report
made while its call runs is owed: one attempt is made to send it, to the session
that made the call and under the token that session chose, and if this fails
nobody hears it; a report made after the end of its call may become owed or be
forgotten.
`NotificationRouter!Contract` maps a notification that was sent in time, on the
wire or in a handler, to an owed report, and a late one on the wire to a stray
one.  `Lookup` moves an owed report from the wire to a handler, which the
contract does not see, or adopts or forgets a stray one; `Forward` delivers or
fails; ticks, timers, logs and the start of the gateway are invisible.

### SchemaCache
Lookups and listings are goroutines that ask, are answered, and store tool by
tool; backends change schemas in between (`Advertise`).  A schema is the number
of the change that brought it; `since` and `before` are history variables for
the properties, which speak of workers that are done and of listings that failed
at a later route alike.  `FirstPage` are the tools `egress.ListTools` sees at all.

### Config, Auth
A section of the file is a function from field names to `"unset"`, `"given"`,
`"bad"` or, after `ApplyDefaults`, `"default"`; `Fill` is one `if x == 0` of
`applyDefaults`.  `CheckStruct` applies the struct tags (`MustBeSet`,
`MustBeGood`: a field in neither is not checked), `ValidateAuth`,
`ValidateBackendIDs`, `ValidatePrefixes` and `ValidatePolicies` are the
functions of those names, and `Accepts` puts them in `Parse`'s order: decoding,
defaults, checks.  `IsFile` says what can come out of decoding.
`RetryAfterMillis` is errors.go's arithmetic.  `Auth!Admits` is `Middleware`'s
decision for a header, which is a sequence of symbols; some of these are
spellings of `"Bearer "`.

### Startup
Prefixes and names are character sequences, since one may begin with another.
Variables: the configuration `cfg`, the fate of dialing each backend (`answer`,
drawn when the file is accepted), `phase`, the position `next` to dial, the
`routes` dialed and the open `sessions`.

| action | code |
|---|---|
| `Load` | `config.Load`; `run`'s early return |
| `Dial`, `Skip` | one iteration of `dialBackends`; a `"refused"` backend connects, fails to set the logging level, and is closed again by `egress.Dial` |
| `Serve` | `run` after `dialBackends`, with however many routes |
| `Stop` | `ListenAndServe` returns, then the deferred `closeBackends` |

A silent backend has no step: `egress.Dial` is called without a deadline.
`Advertised` is `MergeCapabilities`, `MatchRoute` is `matchRoute`.

### CircuitWatch
`Watch` is one iteration of `run`'s loop over `Resolver.Policies` with
`WatchCircuitBreaker` up to its goroutine, `Consume` one iteration of that
goroutine's loop, `Drive` a change of the breaker of the policy that `Governs` a
call.  `past` holds all states of each breaker, for the properties.  The channel
belongs to resile: it is assumed to hold `Room` events, to drop what it has no
room for (counted in `lost`), and to keep the order.  How far the gauge may be
behind its breaker (`Behind`) is told by the events that wait and those that were
lost.  Dispatch says why breakers
change state, CircuitWatch what becomes of the news.

### Clamp
Texts are bytes that know what UTF-8 says of them; one `Block` step is one
iteration of `clampResponse`'s loop.  `AllText` is the text of a result's blocks
joined, `Others` its blocks that are no text, both for the properties.

## 3. What is checked

| run | module | instance | what it shows |
|---|---|---|---|
| `dispatch_paths` | MCDispatch | 1 call, 5 tools, both policies, every attempt result, a deadline that closes in, a client that may leave, a breaker that wraps the call | `AttemptDiscipline`; `KeepsContract`: Dispatch implements CallContract |
| `dispatch_pair` | MCDispatch | 2 calls of 2 tools of one backend under policies `p` and `q`, both with breakers that wrap the attempt, one token and one refill, deadlines that pass | `RateConservation`, `FirewallHolds`, `BreakerIsolation`, `MetricsAgree`, `StepsRunOut`, `EveryCallAnswered` |
| `router` | MCNotificationRouter | 2 calls of 2 clients that chose the same token, 1 call without, 1 log message | `RightClient`, `NothingLost`, `NoOrphans`, `LogsHeard`, `NothingLeaks`, `EveryReportIsSent`; `KeepsPromise`: the router implements ProgressContract |
| `schema_racing` | MCSchemaCache | 2 lookups, 1 listing of 2 routes, 1 change | `ListingTakesEffect`, `ListedIsPrimed`, `FetchIsEnforced` |
| `startup` | MCStartup | every list of up to 3 backends, 4 prefixes, each up, down, refused or silent; every combination of values in each other section of the file | `OmittingIsNoError`, `ServedConfigIsUsable`, `RetryHintIsHonest`, `ListedTokensOpen`, `NoSessionLeaks`, `ListedNamesComeBack`, `DownBackendBlocksNobody`, `ServedWithoutTheDown` |
| `circuit_watch` | MCCircuitWatch | 4 policies, two with the same tool_pattern, 3 breakers of up to 5 changes, channels with room for 2 events | `GaugeNeverLies`, `TransitionsAddUp`, `GaugeCatchesUp` |
| `clamp` | MCClamp | every result of up to 4 blocks, limits -1..6 | `LongestTextInBudget`, `OthersUntouched` |

`TypeOK` is checked once per state machine (in `dispatch_pair`,
`router`, `schema_racing`, `startup`, `circuit_watch`).

**Where the code does not do what it says.**  Each of these runs checks one
sentence of the repository, and TLC finds it violated:

| run | sentence | what happens |
|---|---|---|
| `outcome_label` | errors.go:98: outcome values correspond 1:1 to `mapResilienceError`'s cases; proxy.go:161: a recovered panic is logged at error | `callTool` classifies the error after it was mapped: `circuit_open`, `rate_limited`, `timeout` and `internal_error` are never counted, and panics are logged at warn |
| `stale_schema` | schema.go:42-44: nothing is cached for a tool without a schema | a schema that is withdrawn stays in the cache, and is enforced |
| `colliding_names` | config.go:332-333: gateway-side names never collide | prefixes `a` and `ab` are accepted: `a`+`bx` = `ab`+`x` |
| `silent_backend` | main.go:98-100: one down backend never blocks the others | a backend that accepts the connection and does not answer `initialize` blocks `run` for good |
| `clamped_error` | response.go:17: `isError` is never set by clamping | it is set to false, so a clamped tool error becomes a success |

More that the code visibly does, and the models with it, without a run of its
own:

- Schema resolution comes before the limiter and the breaker, so a call that is
  shed may have cost the backend a `tools/list` (proxy.go:123 says excess calls
  never reach it).
- A tool without a schema that compiles misses the cache on every call and lists
  its backend each time (schema.go:65-67 speaks of once).
- `ListTools` follows no cursor, so tools beyond a backend's first page are
  neither listed nor validated.
- `auth.tokens: [""]` is accepted, and locks everybody out: an empty token is
  listed but never admitted (`ListedTokensOpen` says what then still opens).
- `max_request_bytes` is defaulted and checked, and read by nobody.
- config.go:214-216 says that the metrics path is defaulted regardless of
  `enabled`; lines 422-429 do so only if it is set.  Nothing depends on it,
  because the path is only used, and its check only needed, then.
- The gateway advertises the prompts and resources of its backends, but only
  routes tools.
- `retry_after_ms` is computed from an interval cut to whole milliseconds: for
  an interval that is none, the hint is too short by that cut, shared out over
  the tokens (`RetryHintIsHonest` bounds it on both sides).
- A backend's own error is passed on unchanged: a client may be told -33001 or
  -32602 after its tool ran, if that is what the backend said (errors.go:84-85).
- A progress report or a log message whose sending fails is gone, connected
  client or not; only the gateway's own log tells (notifications.go:112-114,
  129-131).
- A call that has no deadline, to a backend that never answers, is never
  answered: nothing in the gateway bounds an attempt.
- A call to a backend that was down at startup goes to another one if the name
  fits that one's prefix (`ListedNamesComeBack` says that it is then the very
  name of a tool there might be).

### Bounds, and why they are enough
- `dispatch_paths`: a retry budget of 2 has a first, a last and a forbidden
  attempt; the five tools are all combinations of route, policy and schema the
  code branches on.
- `dispatch_pair`: interference is between two calls, over one shared object:
  a bucket with one token is exhausted by one call and overdrawn by the next;
  `MinCalls` = 2 lets two outcomes of one call, or one of each, trip the
  breaker.  Calls may name the same tool or two tools of one backend under
  different policies, so they share a limiter, a breaker and a listing, or only
  the listing.  A "short" deadline may never pass, so it covers calls without
  one.
- `MaxRefills` bounds time for a limiter, `MaxChanges` the redeployments of
  backends, `MaxProgress` one call's notifications, `MaxEvents` the states a
  breaker enters, `MaxBackends` and `MaxBlocks` the length of a list.
- Router: `MaxGap` = 1 and `CleanupDelay` = 2 are the smallest with the
  required inequality, and one tick less loses a notification.  Two calls let a
  token be forgotten, and its late notifications arrive, while another is live.
  A log message may come before, during and after the start, and two clients may
  leave or come in the middle of its loop; log messages do not touch one another.
- `schema_racing`: two lookups and a listing are the two kinds of writers, and
  a second of the first; one change gives an old and a new schema.
- `startup`: three backends allow a prefix that extends another, a third that
  stands apart, and any of them missing.  One section of the file varies at a
  time, the others are plain: no check or default of `Parse` relates two
  sections.  Headers have up to three symbols, so the scheme can be there twice,
  before a token that itself begins like it.
- `circuit_watch`: five changes with room for two overflow a channel, drain it
  and overflow it again; the shadowed second policy with the same pattern would
  spoil the first one's series if anything could move its breaker.
- Clamp: runes of one to three bytes, limits before, in and after each.

### Fairness
`EveryCallAnswered` assumes weak fairness of each call's steps: the Go scheduler
runs a runnable goroutine, a backend asked answers in the end or its connection
breaks, a backoff ends.  Nothing in the gateway bounds how long a backend may
take, so without that assumption the property is false.  What the gateway itself
contributes is `StepsRunOut`, which needs no fairness: a call has only so many
steps to take, and no step of anybody else gives it more.  Refills, reset timeouts
and deadlines are *not* fair: a call is answered even if the limiter and the
breaker never recover.  The router's properties assume that calls end, time
passes, due timers fire and handlers run.  Startup assumes that `run` goes on
wherever it can, thus that a dial which is not silent returns; not that the
server ever stops.  CircuitWatch assumes that a watcher's goroutine with an
event to read runs; not that calls come.

Runs have `CHECK_DEADLOCK FALSE` where everything is done after a while
(SchemaCache, Startup, CircuitWatch, Clamp).  In Dispatch a client may always
list tools, and in NotificationRouter time may pass or a notification arrive, so
TLC's deadlock check is on there but would find nothing that the liveness
properties do not.

## 4. What is proved

For every value of the constants under the named assumptions of each module
(any number of calls, tools, policies, clients, backends, any files):

| theorem | property | argument |
|---|---|---|
| `DispatchProofs!TypeCorrect` | `TypeOK` | inductive as it stands; one lemma per action |
| `DispatchProofs!RetriesDisciplined` | `AttemptDiscipline` | `RetryInv`: while a call may still attempt, it has attempts left and has seen only transient failures, or its own deadline, which lets it wait for no answer again (`TransientEnds`) |
| `DispatchProofs!RateIsConserved` | `RateConservation` | `PaidInv` (a limited call past the limiter is in `served`, one before it is not) makes each admission a new element, so `Conserved`, the cardinality equation, is preserved |
| `DispatchProofs!FirewallIsSound` | `FirewallHolds` | inductive given `TypeOK`: a call is screened by its own steps (`SelfScreened`), nobody else's touch it (`OthersKeep`) |
| `ContractProofs!DispatchKeepsContract` | `KeepsContract` | the refinement: `CauseInv` (an error without an attempt is the gateway's own or the context's; one after an attempt is what that ended with, or what ended the call between two) with `RetryInv`; one lemma per action that the contract sees, one for all it does not |
| `CountingProofs!BreakersAreIsolated` | `BreakerIsolation` | `IsolationInv`: a window holds no more outcomes than its policy's calls had, and a bad one only if one of them went badly |
| `CountingProofs!BooksBalance` | `MetricsAgree` | `RequestsAdd`, `RejectionsAdd`, `RetriesAdd`: cardinalities of sets that a step enlarges by one call, or one attempt, or not |
| `DispatchProofs!CallsWindDown` | `StepsRunOut` | `Fuel`, a stage plus three per attempt left, with `RetryInv`: a call's own steps (`StageEffect`) lower it, other steps leave all it is made of alone |
| `NotificationRouterProofs!TypeCorrect` | `TypeOK` | part of the module's `IInv` |
| `NotificationRouterProofs!ProgressReachesRightClient` | `RightClient` | `UniqueInv` (no two calls ever have one token: the counter only grows) and `TargetInv` (a mapping is its call's) |
| `NotificationRouterProofs!GraceSuffices` | `NothingLost` | `WireInv`: while a notification sent in time is under way, its mapping is there, and if a timer runs for it, age plus time left is at least `CleanupDelay` |
| `NotificationRouterProofs!NothingIsOrphaned` | `NoOrphans` | inductive given `IInv`: a token is new when it is mapped, and `Done` starts a timer for every call that has one |
| `NotificationRouterProofs!PromiseIsKept` | `KeepsPromise` | the refinement: `OnceInv` (a report is in one place at a time), `AskedInv` (only connected sessions have calls, only calls that asked have tokens) and `IInv`, which says that a lookup which finds nothing is a late one; one lemma per action the contract sees |
| `NotificationRouterProofs!LogsAreHeard` | `LogsHeard` | `LogInv`: no session before serving, no serving before `Attach`; whom a message is owed to is still ahead in the loop |
| `SchemaCacheProofs!TypeCorrect` | `TypeOK` | part of `IInv` |
| `SchemaCacheProofs!ListingsTakeEffect` | `ListingTakesEffect` | `IInv`: what a worker was told was advertised since it began (`Told`); what it has stored stays, or is replaced by a racing worker's (`Taken`) |
| `SchemaCacheProofs!ListingPrimes`, `FetchesAreEnforced` | `ListedIsPrimed`, `FetchIsEnforced` | from the same `IInv`, for any worker |
| `CircuitWatchProofs!TypeCorrect` | `TypeOK` | inductive |
| `CircuitWatchProofs!GaugeIsTrue`, `TransitionsCounted` | `GaugeNeverLies`, `TransitionsAddUp` | `WInv`: each event that waits is a state as far back as the events behind it tell, but for lost ones (`Waiting`, `BehindMoves`); a shadowed policy's breaker never moves (`Idle`), because the first match wins |
| `StartupProofs!TypeCorrect`, `SessionsAreClosed` | `TypeOK`, `NoSessionLeaks` | `SInv`: routes are the reachable backends before `next`, in order (`Increasing`, `Dialed`); an accepted file is one of `Files` with its defaults (`Complete`), and `DefaultsAreStable` |
| `StartupProofs!NamesComeBack`, `DownBlocksNobody` | `ListedNamesComeBack`, `DownBackendBlocksNobody` | what `matchRoute` chooses (`BestIsBest`, `Matched`), and that of two prefixes of one name the shorter begins the longer, and equal ones are one backend's (`PrefixesDiffer`) |
| `StartupProofs!HintIsHonest` | `RetryHintIsHonest` | `CheckRateLimit` and the arithmetic of rounding division |
| `StartupProofs!OnlyListedTokensOpen` | `ListedTokensOpen` | by cases on the header's first symbol |
| `StartupProofs!ServedIsUsable`, `OmittingIsHarmless` | `ServedConfigIsUsable`, `OmittingIsNoError` | section by section: what must be set may be left out only where a default fills it in |
| `ClampProofs!CutIsLongest` | `LongestTextInBudget` | `CInv`: so far the text kept is all there was and the budget is what it leaves, or it is already cut, and the next rune would not have fitted (`Budgeted`); `TruncateLongest`, from what whole runes are (`RuneStarts`, `RuneEnds`) |
| `ClampProofs!OthersStay` | `OthersUntouched` | `CInv`: the blocks so far without their texts are those of the result's beginning; `OthersAppend` |

Most of these properties are not inductive: a state in which, say, a waiting
call has already used up its budget satisfies `AttemptDiscipline` and has a
successor that does not.  The strengthenings rule these out.

Assumptions used: the constants' types; `IsFiniteSet(Calls)` for cardinalities;
`MaxGap < CleanupDelay` for `GraceSuffices`; of the files, `FilesAssumption`
(they have the shape of a decoded file); of headers, that none ends in the
scheme, since a header's value has no space at its end; of texts, that they are
valid UTF-8, which strings decoded from JSON are.

`AllText`, the community modules' `FlattenSeq` below it, and `Others` are
recursive functions.  ClampProofs proves that they exist for every length and
what one more block does to them, by induction over the number of blocks.  The
library's induction theorems take an operator as a parameter, which the provers
here cannot instantiate; `AllNumbers` says the same of a *set* of numbers, and
follows from `WFMin` and `NatLessThanWellFounded`, which need no such parameter.

**Only model-checked:** liveness (`EveryCallAnswered`, `NothingLeaks`,
`EveryReportIsSent`, `ServedWithoutTheDown`, `GaugeCatchesUp`), which needs
ENABLED.  The part of it that is safety is proved where it carries the argument:
`StepsRunOut` for `EveryCallAnswered`, `NoOrphans` for `NothingLeaks`,
`NothingLost` and `KeepsPromise` for `EveryReportIsSent`, `GaugeNeverLies` (with
nothing left in the channel) for `GaugeCatchesUp`.  The properties of
the runs that find a violation are false, and have no theorem.

## 5. What is not modelled

- What a schema says, payloads, error messages and data, log lines: nothing the
  properties distinguish.
- Glob matching of `tool_pattern` (`PolicyOf` and `Matches` are constants; a
  malformed glob is a `"bad"` value) and the decoding of YAML (one bit).
- The latency histogram, the exposition format, the metrics listener (its
  failure is logged and changes nothing else).
- A panic outside `resile.Do` (schema validation): `net/http`'s business.
- Ingress, logging, version: constructors, formatting, a constant.  No state,
  and no decision that another component depends on.
- resile and the MCP SDK themselves.

## 6. Plan

Done, in this order: ErrorMapping, Dispatch with CallContract,
NotificationRouter, SchemaCache, Startup, Clamp; CircuitWatch; Config and Auth
below Startup; the proofs above, those about Clamp and the router's refinement
of ProgressContract last.

What could come next:

1. Dispatch composed with SchemaCache: the firewall while schemas change.  Each
   half is checked, and proved, on its own; the two share only the cache.
2. An abstract specification of the schema cache, a register per tool that only
   moves to schemas advertised since its last reader began, which SchemaCache
   would implement.
