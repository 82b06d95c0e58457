-------------------------- MODULE ProgressContract --------------------------
(***************************************************************************)
(* What the gateway promises to clients about the progress of their calls, *)
(* whatever tokens, timers and delays sit in between:                      *)
(*                                                                         *)
(*  - a report is heard at most once, by the session that made the call    *)
(*    and nobody else, under the token this session chose;                 *)
(*  - a report made while the call was running is owed: it is never just   *)
(*    forgotten.  One attempt is made to send it, to that session alone,   *)
(*    and if it fails nobody hears the report, nor is it sent again;       *)
(*  - a report made after the call ended may be forgotten, or become owed; *)
(*  - a call that asked for no progress hears of none.                     *)
(***************************************************************************)
EXTENDS Integers

CONSTANTS
  Calls,        \* the tools/call requests
  Sessions,     \* the client sessions
  NoToken,      \* a call that asks for no progress
  SessionOf,    \* SessionOf[c]: the session that makes call c
  TokenOf,      \* TokenOf[c]: the progress token it chose for c, or NoToken
  MaxProgress   \* bound on the reports of one call

VARIABLES
  session,   \* session[s]: "new", "connected" or "closed"
  phase,     \* phase[c]: "new", "running" or "over"
  reports,   \* reports[c]: reports made on the call
  owed,      \* reports <<c, n>> that have to be delivered
  stray,     \* reports <<c, n>> that may be
  heard,     \* what sessions heard: report and addressee
  failed     \* the reports whose sending failed, and their addressees

vars == <<session, phase, reports, owed, stray, heard, failed>>

Heard(r) == [call |-> r[1], n |-> r[2],
             target |-> [session |-> SessionOf[r[1]],
                         originalToken |-> TokenOf[r[1]]]]

Init ==
  /\ session = [s \in Sessions |-> "new"]
  /\ phase = [c \in Calls |-> "new"]
  /\ reports = [c \in Calls |-> 0]
  /\ owed = {} /\ stray = {} /\ heard = {} /\ failed = {}

Connect(s) ==
  /\ session[s] = "new"
  /\ session' = [session EXCEPT ![s] = "connected"]
  /\ UNCHANGED <<phase, reports, owed, stray, heard, failed>>

Disconnect(s) ==
  /\ session[s] = "connected"
  /\ session' = [session EXCEPT ![s] = "closed"]
  /\ UNCHANGED <<phase, reports, owed, stray, heard, failed>>

Start(c) ==
  /\ phase[c] = "new" /\ session[SessionOf[c]] = "connected"
  /\ phase' = [phase EXCEPT ![c] = "running"]
  /\ UNCHANGED <<session, reports, owed, stray, heard, failed>>

Finish(c) ==
  /\ phase[c] = "running"
  /\ phase' = [phase EXCEPT ![c] = "over"]
  /\ UNCHANGED <<session, reports, owed, stray, heard, failed>>

Report(c) ==
  /\ phase[c] /= "new" /\ TokenOf[c] /= NoToken
  /\ reports[c] < MaxProgress
  /\ reports' = [reports EXCEPT ![c] = @ + 1]
  /\ IF phase[c] = "running"
     THEN owed' = owed \cup {<<c, reports[c] + 1>>} /\ UNCHANGED stray
     ELSE stray' = stray \cup {<<c, reports[c] + 1>>} /\ UNCHANGED owed
  /\ UNCHANGED <<session, phase, heard, failed>>

Adopt(r) ==
  /\ r \in stray
  /\ stray' = stray \ {r} /\ owed' = owed \cup {r}
  /\ UNCHANGED <<session, phase, reports, heard, failed>>

Forget(r) ==
  /\ r \in stray
  /\ stray' = stray \ {r}
  /\ UNCHANGED <<session, phase, reports, owed, heard, failed>>

Unsent(r) == Heard(r) \notin heard \cup failed

Deliver(r) ==
  /\ r \in owed /\ session[SessionOf[r[1]]] = "connected" /\ Unsent(r)
  /\ heard' = heard \cup {Heard(r)} /\ owed' = owed \ {r}
  /\ UNCHANGED <<session, phase, reports, stray, failed>>

Fail(r) ==
  /\ r \in owed /\ Unsent(r)
  /\ failed' = failed \cup {Heard(r)} /\ owed' = owed \ {r}
  /\ UNCHANGED <<session, phase, reports, stray, heard>>

Next ==
  \/ \E s \in Sessions : Connect(s) \/ Disconnect(s)
  \/ \E c \in Calls : Start(c) \/ Finish(c) \/ Report(c)
  \/ \E r \in stray : Adopt(r) \/ Forget(r)
  \/ \E r \in owed : Deliver(r) \/ Fail(r)

Spec == Init /\ [][Next]_vars
=============================================================================
