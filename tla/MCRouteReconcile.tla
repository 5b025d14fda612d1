-------------------------- MODULE MCRouteReconcile --------------------------
(***************************************************************************)
(* Finite instances of RouteReconcile for TLC.                             *)
(***************************************************************************)
EXTENDS RouteReconcile

CONSTANTS office, host, home

\* The office LAN is itself an AllowedIPs prefix; the home LAN contains the prefix of
\* a single host.
TwoLans == [l \in Lans |-> IF l = office THEN {office} ELSE {host}]
=============================================================================
