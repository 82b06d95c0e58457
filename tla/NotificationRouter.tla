------------------------- MODULE NotificationRouter -------------------------
(***************************************************************************)
(* Backend notifications on their way to the gateway's clients:            *)
(* internal/proxy/notifications.go, with the part of cmd/mcp-resile's run  *)
(* that orders dialing, Attach and serving.                                *)
(*                                                                         *)
(* TrackProgress swaps a client's progress token for a synthetic one; the  *)
(* backend's notifications carry the synthetic one and travel apart from   *)
(* the call's response, so they may overtake one another and outlive the   *)
(* call; HandleProgress looks the token up under the lock and forwards     *)
(* outside it.  The cleanup runs progressCleanupDelay after the call.      *)
(*                                                                         *)
(* Time is counted in ticks: a timer counts down to 0 and may then fire    *)
(* (AfterFunc promises no more), a notification reaches its handler within *)
(* MaxGap ticks ("any such in-flight gap", notifications.go:20-21).        *)
(* NotifyProgress and Log may fail, for a client that is still there too;  *)
(* the gateway only writes that to its own log.  Left out: what a          *)
(* notification says, and whether a client's log level lets it through.    *)
(***************************************************************************)
EXTENDS Integers, FiniteSets, Functions

CONSTANTS
  Calls,          \* the tools/call requests
  Sessions,       \* the client sessions
  ClientTokens,   \* progress tokens clients choose, each for itself
  NoToken,        \* a call that asks for no progress
  SessionOf,      \* [Calls -> Sessions]
  TokenOf,        \* [Calls -> ClientTokens \cup {NoToken}]
  CleanupDelay,   \* progressCleanupDelay, in ticks
  MaxGap,         \* longest a notification is under way, in ticks
  MaxProgress,    \* bound on the notifications of one call
  Logs            \* the log messages of the backends

ASSUME CallsAssumption ==
  /\ SessionOf \in [Calls -> Sessions]
  /\ TokenOf \in [Calls -> ClientTokens \cup {NoToken}]
  /\ NoToken \notin ClientTokens

(* "This delay is comfortably longer than any such in-flight gap."         *)
ASSUME DelayAssumption ==
  /\ CleanupDelay \in Nat /\ MaxGap \in Nat /\ MaxProgress \in Nat
  /\ MaxGap < CleanupDelay

VARIABLES
  attached,   \* the router's server is set
  serving,    \* the ingress server accepts connections
  session,    \* session[s]: "new", "connected" or "closed"
  pc,         \* pc[c]: "idle", "running", "answered", "abandoned"
  next,       \* the router's counter
  inFlight,   \* synthetic token -> [session, originalToken]
  timers,     \* synthetic token -> ticks until its cleanup is due
  synthetic,  \* synthetic[c]: the token forwarded for the call, 0 for none
  sent,       \* sent[c]: notifications the backend sent for it
  network,    \* notifications under way to the gateway
  handlers,   \* HandleProgress calls between lookup and forward
  delivered,  \* notifications clients received
  dropped,    \* notifications whose NotifyProgress failed
  lost,       \* notifications HandleProgress found no target for
  log         \* log[l]: has it come, to whom is it owed, who is still ahead
              \* in HandleLog's loop

vars == <<attached, serving, session, pc, next, inFlight, timers, synthetic, sent,
          network, handlers, delivered, dropped, lost, log>>
callVars == <<pc, next, inFlight, timers, synthetic>>
wireVars == <<sent, network, handlers, delivered, dropped, lost>>
mainVars == <<attached, serving, session, log>>

Target(c) == [session |-> SessionOf[c], originalToken |-> TokenOf[c]]

Init ==
  /\ attached = FALSE /\ serving = FALSE
  /\ session = [s \in Sessions |-> "new"]
  /\ pc = [c \in Calls |-> "idle"]
  /\ next = 0
  /\ inFlight = [t \in {} |-> 0] /\ timers = [t \in {} |-> 0]
  /\ synthetic = [c \in Calls |-> 0]
  /\ sent = [c \in Calls |-> 0]
  /\ network = {} /\ handlers = {} /\ delivered = {} /\ dropped = {} /\ lost = {}
  /\ log = [l \in Logs |-> [arrived |-> FALSE, owed |-> {}, pending |-> {}]]

-----------------------------------------------------------------------------
(* run: the backends are dialed, and may log, before the ingress server    *)
(* exists.                                                                 *)

Attach ==
  /\ ~attached
  /\ attached' = TRUE
  /\ UNCHANGED <<serving, session, log, callVars, wireVars>>

ListenAndServe ==
  /\ attached /\ ~serving
  /\ serving' = TRUE
  /\ UNCHANGED <<attached, session, log, callVars, wireVars>>

Connect(s) ==
  /\ serving /\ session[s] = "new"
  /\ session' = [session EXCEPT ![s] = "connected"]
  /\ UNCHANGED <<attached, serving, log, callVars, wireVars>>

Disconnect(s) ==
  /\ session[s] = "connected"
  /\ session' = [session EXCEPT ![s] = "closed"]
  /\ UNCHANGED <<attached, serving, log, callVars, wireVars>>

Listeners == {s \in Sessions : session[s] = "connected"}

(* A backend's log message, which everybody there should be sent: with no  *)
(* server yet HandleLog gives up, else it has the sessions of this moment  *)
(* to go through.                                                          *)
HandleLog(l) ==
  /\ ~log[l].arrived
  /\ log' = [log EXCEPT ![l] =
               [arrived |-> TRUE, owed |-> Listeners,
                pending |-> IF attached THEN Listeners ELSE {}]]
  /\ UNCHANGED <<attached, serving, session, callVars, wireVars>>

Tell_StopsAtError(l, s) ==
  /\ s \in log[l].pending
  /\ \E rest \in {log[l].pending \ {s}, {}} :
       log' = [log EXCEPT ![l].owed = @ \ {s}, ![l].pending = rest]
  /\ UNCHANGED <<attached, serving, session, callVars, wireVars>>

(* One turn of its loop: session.Log is tried once; it may fail, as it does *)
(* for a client that left meanwhile, and the loop goes on either way.      *)
Tell(l, s) ==
  /\ s \in log[l].pending
  /\ log' = [log EXCEPT ![l].owed = @ \ {s}, ![l].pending = @ \ {s}]
  /\ UNCHANGED <<attached, serving, session, callVars, wireVars>>

-----------------------------------------------------------------------------
(* TrackProgress and the cleanup it returns. *)

FreshToken_Reused == Cardinality(DOMAIN inFlight) + 1

FreshToken == next + 1

Put(f, t, v) == [u \in DOMAIN f \cup {t} |-> IF u = t THEN v ELSE f[u]]

TrackProgress(c) ==
  /\ pc[c] = "idle" /\ SessionOf[c] \in Listeners
  /\ pc' = [pc EXCEPT ![c] = "running"]
  /\ IF TokenOf[c] = NoToken THEN UNCHANGED <<next, inFlight, synthetic>>
     ELSE /\ next' = FreshToken
          /\ synthetic' = [synthetic EXCEPT ![c] = FreshToken]
          /\ inFlight' = Put(inFlight, FreshToken, Target(c))
  /\ UNCHANGED <<timers, wireVars, mainVars>>

CleanupAfter_Now == 0

CleanupAfter == CleanupDelay

Done_OnAnswerOnly(c, how) ==
  /\ pc[c] = "running"
  /\ pc' = [pc EXCEPT ![c] = how]
  /\ timers' = IF synthetic[c] = 0 \/ how = "abandoned" THEN timers
               ELSE Put(timers, synthetic[c], CleanupAfter)
  /\ UNCHANGED <<next, inFlight, synthetic, wireVars, mainVars>>

(* dispatchTool returns and its deferred done() starts the cleanup's       *)
(* timer: the backend answered, or the call was abandoned before that      *)
(* (the client left, its deadline passed, resile gave up).                 *)
Done(c, how) ==
  /\ pc[c] = "running"
  /\ pc' = [pc EXCEPT ![c] = how]
  /\ timers' = IF synthetic[c] = 0 THEN timers
               ELSE Put(timers, synthetic[c], CleanupAfter)
  /\ UNCHANGED <<next, inFlight, synthetic, wireVars, mainVars>>

Cleanup_KeepsTimer(t) ==
  /\ t \in DOMAIN timers /\ timers[t] = 0
  /\ inFlight' = Restrict(inFlight, DOMAIN inFlight \ {t})
  /\ UNCHANGED <<timers, pc, next, synthetic, wireVars, mainVars>>

(* The AfterFunc goroutine, some time after it is due. *)
Cleanup(t) ==
  /\ t \in DOMAIN timers /\ timers[t] = 0
  /\ inFlight' = Restrict(inFlight, DOMAIN inFlight \ {t})
  /\ timers' = Restrict(timers, DOMAIN timers \ {t})
  /\ UNCHANGED <<pc, next, synthetic, wireVars, mainVars>>

-----------------------------------------------------------------------------
(* A backend reports progress while it works; one whose call was abandoned *)
(* may not have heard of that yet.                                         *)
Report(c) ==
  /\ pc[c] \in {"running", "abandoned"} /\ synthetic[c] /= 0
  /\ sent[c] < MaxProgress
  /\ sent' = [sent EXCEPT ![c] = @ + 1]
  /\ network' = network \cup
       {[call |-> c, n |-> sent'[c], token |-> synthetic[c], age |-> 0,
         late |-> pc[c] = "abandoned"]}
  /\ UNCHANGED <<handlers, delivered, dropped, lost, callVars, mainVars>>

(* HandleProgress, first half: the lookup under the lock. *)
Lookup(m) ==
  /\ m \in network
  /\ network' = network \ {m}
  /\ IF m.token \in DOMAIN inFlight
     THEN /\ handlers' = handlers \cup
                {[call |-> m.call, n |-> m.n, target |-> inFlight[m.token]]}
          /\ UNCHANGED lost
     ELSE lost' = lost \cup {m} /\ UNCHANGED handlers
  /\ UNCHANGED <<sent, delivered, dropped, callVars, mainVars>>

Forward_Broadcast(h) ==
  /\ h \in handlers
  /\ handlers' = handlers \ {h}
  /\ \/ /\ Listeners /= {} /\ UNCHANGED dropped
        /\ delivered' = delivered \cup
                          {[h EXCEPT !.target.session = s] : s \in Listeners}
     \/ dropped' = dropped \cup {h} /\ UNCHANGED delivered
  /\ UNCHANGED <<sent, network, lost, callVars, mainVars>>

(* Second half, outside the lock: the client's own token is restored and   *)
(* NotifyProgress called once.  It may fail, and does if the client left   *)
(* meanwhile; the notification is then gone.                               *)
Forward(h) ==
  /\ h \in handlers
  /\ handlers' = handlers \ {h}
  /\ \/ /\ h.target.session \in Listeners
        /\ delivered' = delivered \cup {h} /\ UNCHANGED dropped
     \/ dropped' = dropped \cup {h} /\ UNCHANGED delivered
  /\ UNCHANGED <<sent, network, lost, callVars, mainVars>>

(* A tick, unless a notification would be under way longer than MaxGap. *)
Tick ==
  /\ \A m \in network : m.age < MaxGap
  /\ network' = {[m EXCEPT !.age = @ + 1] : m \in network}
  /\ timers' = [t \in DOMAIN timers |-> IF timers[t] = 0 THEN 0
                                                         ELSE timers[t] - 1]
  /\ UNCHANGED <<pc, next, inFlight, synthetic, sent, handlers, delivered,
                 dropped, lost, mainVars>>

-----------------------------------------------------------------------------
End(c) == \E how \in {"answered", "abandoned"} : Done(c, how)

Next ==
  \/ Attach \/ ListenAndServe \/ Tick
  \/ \E l \in Logs : HandleLog(l)
  \/ \E l \in Logs, s \in Sessions : Tell(l, s)
  \/ \E s \in Sessions : Connect(s) \/ Disconnect(s)
  \/ \E c \in Calls : TrackProgress(c) \/ End(c) \/ Report(c)
  \/ \E t \in DOMAIN timers : Cleanup(t)
  \/ \E m \in network : Lookup(m)
  \/ \E h \in handlers : Forward(h)

Spec == Init /\ [][Next]_vars

(* Calls end (a backend answers or the client gives up), time passes, and  *)
(* a timer that is due fires; handlers run.                                *)
FairSpec ==
  /\ Spec
  /\ WF_vars(Tick)
  /\ \A c \in Calls : WF_vars(End(c))
  /\ WF_vars(\E t \in DOMAIN timers : Cleanup(t))
  /\ WF_vars(\E m \in network : Lookup(m))
  /\ WF_vars(\E h \in handlers : Forward(h))

-----------------------------------------------------------------------------
Targets == [session : Sessions, originalToken : ClientTokens]

LogStates == [arrived : BOOLEAN, owed : SUBSET Sessions, pending : SUBSET Sessions]

(* The calls that asked for progress. *)
Asking == {c \in Calls : TokenOf[c] /= NoToken}

(* Type correctness, with the timers a subset of the tokens tracked. *)
TypeOK ==
  /\ attached \in BOOLEAN /\ serving \in BOOLEAN
  /\ session \in [Sessions -> {"new", "connected", "closed"}]
  /\ pc \in [Calls -> {"idle", "running", "answered", "abandoned"}]
  /\ next \in Nat
  /\ DOMAIN inFlight \subseteq Nat \ {0}
  /\ inFlight \in [DOMAIN inFlight -> Targets]
  /\ DOMAIN timers \subseteq DOMAIN inFlight
  /\ timers \in [DOMAIN timers -> 0..CleanupDelay]
  /\ synthetic \in [Calls -> Nat]
  /\ sent \in [Calls -> 0..MaxProgress]
  /\ network \subseteq [call : Calls, n : 1..MaxProgress, token : Nat \ {0},
                        age : 0..MaxGap, late : BOOLEAN]
  /\ handlers \subseteq [call : Calls, n : 1..MaxProgress, target : Targets]
  /\ delivered \subseteq [call : Calls, n : 1..MaxProgress, target : Targets]
  /\ dropped \subseteq [call : Calls, n : 1..MaxProgress, target : Targets]
  /\ log \in [Logs -> LogStates]

(* Progress is sent to the client that made the call, under the token that *)
(* client chose, even when two clients chose the same one, when handlers   *)
(* run late and when earlier calls' tokens have been forgotten; an attempt *)
(* that failed was made to it as well.  (TrackProgress, HandleProgress)    *)
RightClient ==
  \A h \in handlers \cup delivered \cup dropped : h.target = Target(h.call)

(* The race progressCleanupDelay is there for: a notification the backend  *)
(* sent before it answered finds its target, however far the response      *)
(* overtook it.  (TrackProgress's cleanup, notifications.go:13-21)         *)
NothingLost == \A m \in lost : m.late

(* Every mapping is somebody's: its call still runs, or a timer will       *)
(* remove it.  (TrackProgress, dispatchTool's deferred done)               *)
NoOrphans ==
  \A t \in DOMAIN inFlight :
    t \in DOMAIN timers \/ \E c \in Calls : pc[c] = "running" /\ synthetic[c] = t

Handled(l) == log[l].arrived /\ log[l].pending = {}

(* When HandleLog is through with a log, it has tried to send it to every  *)
(* client that was there when it came: neither the gateway's start nor     *)
(* other clients that leave, connect or cannot be reached cost a client    *)
(* the message.  (Attach before ListenAndServe, HandleLog's early return   *)
(* and its loop)                                                           *)
LogsHeard == \A l \in Logs : Handled(l) => log[l].owed = {}

(* "Bounding memory for a long-running gateway": every mapping that was    *)
(* made is forgotten, however its call ended.  (TrackProgress)             *)
NothingLeaks ==
  \A c \in Asking : pc[c] = "running" ~> synthetic[c] \notin DOMAIN inFlight

(* Every notification sent before the answer is sent on to a client in     *)
(* the end, whether or not that succeeds: no cleanup, delay or other call  *)
(* makes the gateway swallow it.  (HandleProgress, the cleanup's delay)    *)
EveryReportIsSent ==
  \A c \in Asking, n \in 1..MaxProgress :
    (\E m \in network : m.call = c /\ m.n = n /\ ~m.late)
      ~> \E h \in delivered \cup dropped : h.call = c /\ h.n = n

(* The refinement mapping: what ProgressContract sees of the router. *)
Phase == [c \in Calls |-> CASE pc[c] = "idle" -> "new"
                             [] pc[c] = "running" -> "running"
                             [] OTHER -> "over"]

Owed == {<<m.call, m.n>> : m \in {l \in network : ~l.late}}
          \cup {<<h.call, h.n>> : h \in handlers}

Stray == {<<m.call, m.n>> : m \in {l \in network : l.late}}

Contract == INSTANCE ProgressContract WITH
  phase <- Phase, reports <- sent, owed <- Owed, stray <- Stray,
  heard <- delivered, failed <- dropped

(* The promise to the clients, ProgressContract, is kept by the router's   *)
(* tokens, its lookup and its cleanup together.                            *)
KeepsPromise == Contract!Spec
=============================================================================
