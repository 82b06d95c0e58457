---------------------------- MODULE SchemaCache ----------------------------
(***************************************************************************)
(* The schema cache behind the argument firewall: internal/proxy/schema.go *)
(* and listTools of internal/proxy/proxy.go.                               *)
(*                                                                         *)
(* Two kinds of goroutines fill it.  A lookup (resolveTool, for one        *)
(* tools/call) asks the tool's own backend after a miss; a listing         *)
(* (listTools, for a client's tools/list) asks every route in turn.  The   *)
(* backend answers with what it advertises at that moment; only then are   *)
(* its tools stored, one lock at a time, so a slower goroutine may store   *)
(* an older answer over a newer one.  Meanwhile the backends go on         *)
(* changing what they advertise.                                           *)
(*                                                                         *)
(* A schema is the number of the change that introduced it.  Left out:     *)
(* what a schema says; the order of the tools within one answer.  A        *)
(* backend answers with the first page of its tools only (egress.ListTools *)
(* passes no cursor, and nobody follows the next one).                     *)
(***************************************************************************)
EXTENDS Integers, Sequences

CONSTANTS
  Lookups,     \* resolveTool calls
  Listings,    \* listTools calls
  Backends,
  Tools,       \* prefixed tool names
  Routes,      \* Seq(Backends): the routes in the order they were dialed
  BackendOf,   \* [Tools -> Backends]
  Target,      \* [Lookups -> Tools]: the tool each call names
  FirstPage,   \* tools on the first page of their backend's answer
  MaxChanges   \* bound on the changes backends make to their schemas

ASSUME RoutesAssumption ==
  /\ Routes \in Seq(Backends)
  /\ BackendOf \in [Tools -> Backends]
  /\ Target \in [Lookups -> Tools]
  /\ FirstPage \subseteq Tools
  /\ Lookups \cap Listings = {}
  /\ MaxChanges \in Nat

Workers == Lookups \cup Listings

NoSchema  == -1   \* the tool has no inputSchema; nothing is cached for it
Malformed == -2   \* it has one that does not compile
Unlisted  == -3   \* the tool is not in the answer

Compilable(offer) == offer >= 0
Offers == {NoSchema, Malformed} \cup Nat

VARIABLES
  advertised,  \* advertised[t]: the inputSchema t's backend has for it now
  changes,     \* how often a backend changed one
  byName,      \* byName[t]: the schema in the cache, or NoSchema
  pc,          \* pc[w]: "idle", "asking", "storing", "done", "failed"
  todo,        \* todo[w]: the backends it has yet to hear from
  reply,       \* reply[w][t]: what the answers to w said of t
  pending,     \* pending[w]: tools of the last answer not yet stored
  found,       \* found[w]: what a lookup returned
  since,       \* since[w][t]: what t was advertised as since w began
  before       \* before[w]: workers that had finished or failed when w began

workVars  == <<pc, todo, reply, pending, found>>
ghostVars == <<since, before>>
vars == <<advertised, changes, byName, workVars, ghostVars>>

Init ==
  /\ advertised \in [Tools -> {0, NoSchema, Malformed}]
  /\ changes = 0
  /\ byName = [t \in Tools |-> NoSchema]
  /\ pc = [w \in Workers |-> "idle"]
  /\ todo = [w \in Workers |-> <<>>]
  /\ reply = [w \in Workers |-> [t \in Tools |-> Unlisted]]
  /\ pending = [w \in Workers |-> {}]
  /\ found = [w \in Workers |-> NoSchema]
  /\ since = [w \in Workers |-> [t \in Tools |-> {}]]
  /\ before = [w \in Workers |-> {}]

-----------------------------------------------------------------------------
(* A backend is redeployed with another schema for t, or with none. *)
Advertise(t, offer) ==
  /\ changes < MaxChanges
  /\ changes' = changes + 1
  /\ offer \in {changes', NoSchema, Malformed}
  /\ advertised' = [advertised EXCEPT ![t] = offer]
  /\ since' = [w \in Workers |->
                 IF pc[w] = "idle" THEN since[w]
                 ELSE [since[w] EXCEPT ![t] = @ \cup {offer}]]
  /\ UNCHANGED <<byName, workVars, before>>

Over(v) == pc[v] \in {"done", "failed"}

Began(w) ==
  /\ since' = [since EXCEPT ![w] = [t \in Tools |-> {advertised[t]}]]
  /\ before' = [before EXCEPT ![w] = {v \in Workers : Over(v)}]

-----------------------------------------------------------------------------
(* resolveTool: a first look under the read lock; a hit needs no more. *)

Hit(w) ==
  /\ pc[w] = "idle" /\ Compilable(byName[Target[w]])
  /\ pc' = [pc EXCEPT ![w] = "done"]
  /\ found' = [found EXCEPT ![w] = byName[Target[w]]]
  /\ Began(w)
  /\ UNCHANGED <<advertised, changes, byName, todo, reply, pending>>

Ask(w, backends) ==
  /\ pc[w] = "idle"
  /\ pc' = [pc EXCEPT ![w] = IF backends = <<>> THEN "done" ELSE "asking"]
  /\ todo' = [todo EXCEPT ![w] = backends]
  /\ Began(w)
  /\ UNCHANGED <<advertised, changes, byName, reply, pending, found>>

Miss(w) == ~Compilable(byName[Target[w]]) /\ Ask(w, <<BackendOf[Target[w]]>>)

(* listTools asks every route, whatever is cached. *)
StartListing(w) == Ask(w, Routes)

-----------------------------------------------------------------------------
(* Both: the answer of the backend at the head of todo[w]. *)

Answered(b) == {t \in FirstPage : BackendOf[t] = b}

ListReply(w) ==
  /\ pc[w] = "asking"
  /\ pc' = [pc EXCEPT ![w] = "storing"]
  /\ LET listed == Answered(Head(todo[w]))
     IN  /\ reply' = [reply EXCEPT ![w] =
                        [t \in Tools |-> IF t \in listed THEN advertised[t]
                                                         ELSE @[t]]]
         /\ pending' = [pending EXCEPT ![w] = listed]
  /\ UNCHANGED <<advertised, changes, byName, todo, found, ghostVars>>

(* One failed listing ends the whole of it: for a client's tools/list the  *)
(* other backends' tools are lost too, what was stored stays stored.       *)
ListFail(w) ==
  /\ pc[w] = "asking"
  /\ pc' = [pc EXCEPT ![w] = "failed"]
  /\ UNCHANGED <<advertised, changes, byName, todo, reply, pending, found, ghostVars>>

Stored_FirstWins(t, offer) ==
  IF Compilable(offer) /\ ~Compilable(byName[t]) THEN offer ELSE byName[t]

Stored_Unchecked(t, offer) == offer

(* refresh: what the cache holds for t afterwards. *)
Stored(t, offer) == IF Compilable(offer) THEN offer ELSE byName[t]

Remaining_StopsAtError(w, t) ==
  IF reply[w][t] = Malformed THEN {} ELSE pending[w] \ {t}

(* The error of refresh is dropped, the loop goes on. *)
Remaining(w, t) == pending[w] \ {t}

Refresh(w, t) ==
  /\ pc[w] = "storing" /\ t \in pending[w]
  /\ byName' = [byName EXCEPT ![t] = Stored(t, reply[w][t])]
  /\ pending' = [pending EXCEPT ![w] = Remaining(w, t)]
  /\ UNCHANGED <<advertised, changes, pc, todo, reply, found, ghostVars>>

NextRoute_FirstLook(w) ==
  /\ pc[w] = "storing" /\ pending[w] = {}
  /\ todo' = [todo EXCEPT ![w] = Tail(@)]
  /\ pc' = [pc EXCEPT ![w] = IF todo'[w] = <<>> THEN "done" ELSE "asking"]
  /\ UNCHANGED <<advertised, changes, byName, reply, pending, found, ghostVars>>

(* Everything stored: on to the next route, or, after the last, done - a   *)
(* lookup with a second look at the cache.                                 *)
NextRoute(w) ==
  /\ pc[w] = "storing" /\ pending[w] = {}
  /\ todo' = [todo EXCEPT ![w] = Tail(@)]
  /\ pc' = [pc EXCEPT ![w] = IF todo'[w] = <<>> THEN "done" ELSE "asking"]
  /\ found' = IF w \in Lookups
              THEN [found EXCEPT ![w] = byName[Target[w]]] ELSE found
  /\ UNCHANGED <<advertised, changes, byName, reply, pending, ghostVars>>

-----------------------------------------------------------------------------
Next ==
  \/ \E t \in Tools, offer \in 0..MaxChanges \cup {NoSchema, Malformed} :
       Advertise(t, offer)
  \/ \E w \in Lookups : Hit(w) \/ Miss(w)
  \/ \E w \in Listings : StartListing(w)
  \/ \E w \in Workers : ListReply(w) \/ ListFail(w) \/ NextRoute(w)
  \/ \E w \in Workers, t \in Tools : Refresh(w, t)

Spec == Init /\ [][Next]_vars

-----------------------------------------------------------------------------
(* What is asked of it. *)

(* Type correctness. *)
TypeOK ==
  /\ advertised \in [Tools -> Offers]
  /\ changes \in 0..MaxChanges
  /\ byName \in [Tools -> {NoSchema} \cup Nat]
  /\ pc \in [Workers -> {"idle", "asking", "storing", "done", "failed"}]
  /\ todo \in [Workers -> Seq(Backends)]
  /\ reply \in [Workers -> [Tools -> Offers \cup {Unlisted}]]
  /\ pending \in [Workers -> SUBSET Tools]
  /\ found \in [Workers -> {NoSchema} \cup Nat]
  /\ since \in [Workers -> [Tools -> SUBSET Offers]]
  /\ before \in [Workers -> SUBSET Workers]

(* What t was advertised as since w, or a worker still under way when w    *)
(* began, started.                                                         *)
Recent(w, t) == UNION {since[v][t] : v \in Workers \ before[w]}

(* A listing takes effect, and for good: once a worker that was told t's   *)
(* schema has finished - or has failed at a later route (listTools,        *)
(* proxy.go:94-96) -, the cache never again holds one that was already     *)
(* superseded when it, and every worker racing with it, began.  (refresh:  *)
(* "replacing any existing entry")                                         *)
ListingTakesEffect ==
  \A w \in Workers, t \in Tools :
    Over(w) /\ Compilable(reply[w][t]) => byName[t] \in Recent(w, t)

(* One round trip is enough: once a listing or another call's lookup has   *)
(* brought a tool's compilable schema, no later call of it asks the        *)
(* backend, however malformed its neighbours' schemas are, whoever else is *)
(* storing, and even if the listing then failed at another backend.  ("A   *)
(* tools/call that follows a client's own tools/list never pays a          *)
(* schema-compilation round trip", proxy.go:80-87; "amortizing the round   *)
(* trip across that backend's whole tool set", schema.go:66-67)            *)
ListedIsPrimed ==
  \A v \in Lookups, w \in Workers :
    w \in before[v] /\ Compilable(reply[w][Target[v]]) =>
      pc[v] = "done" /\ Compilable(found[v])

(* A call whose lookup just fetched its tool's compilable schema is        *)
(* validated, and against a schema no older than the slowest worker then   *)
(* under way.  (resolveTool's second get)                                  *)
FetchIsEnforced ==
  \A v \in Lookups :
    pc[v] = "done" /\ Compilable(reply[v][Target[v]]) =>
      found[v] \in Recent(v, Target[v]) /\ Compilable(found[v])

(* What schema.go:41-44 says of a tool without inputSchema: a later lookup *)
(* finds no schema to enforce.  (Here: a worker heard so while no other    *)
(* was under way, and the backend never went back on it.)                  *)
NoSchemaNothingEnforced ==
  \A w \in Workers, t \in Tools :
    /\ pc[w] = "done" /\ reply[w][t] = NoSchema
    /\ Recent(w, t) = {NoSchema}
    => byName[t] = NoSchema
=============================================================================
