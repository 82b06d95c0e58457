------------------------ MODULE MCNotificationRouter ------------------------
(***************************************************************************)
(* Small instance of NotificationRouter: two clients that chose the same   *)
(* progress token, one of them with a second call that has none, and one   *)
(* log message of a backend.                                               *)
(***************************************************************************)
EXTENDS NotificationRouter, TLC

CONSTANTS c1, c2, c3, s1, s2, k

MCSessionOf == [c \in Calls |-> IF c = c2 THEN s2 ELSE s1]
MCTokenOf   == [c \in Calls |-> IF c = c3 THEN NoToken ELSE k]
=============================================================================
