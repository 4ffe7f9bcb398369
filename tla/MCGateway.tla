----------------------------- MODULE MCGateway -----------------------------
(* Instances of Gateway small enough for TLC. *)
EXTENDS Gateway

CONSTANTS app1, app2, app3, user1, port1, call1

\* A persistent package, an application behind an address and an invoked
\* package, of which the first only is to know its visitors.
MCApps == {app1, app2, app3}
MCUpstream == {app2}
MCInvoked == {app3}
MCPassUser == {app1}
MCUsers == {user1}
MCPort == {port1}
MCCalls == {call1}
MCNone == {}
MCOnlyA == {app1}
=============================================================================
