--------------------------- MODULE MCDnsReconcile ---------------------------
(***************************************************************************)
(* Finite instances of DnsReconcile for TLC.                               *)
(***************************************************************************)
EXTENDS DnsReconcile

CONSTANTS wifi, lan, resolver, domain

\* A service on DHCP, and one with servers and search domains of its own.
TwoConfigs == {[dns |-> Unset, search |-> Unset], [dns |-> resolver, search |-> domain]}
=============================================================================
