------------------------ MODULE MCPrivilegedClient -------------------------
(***************************************************************************)
(* Finite instances of PrivilegedClient for TLC.                           *)
(***************************************************************************)
EXTENDS PrivilegedClient

CONSTANTS c1, c2

\* One long command and a short one.
MCRequests == [c \in Clients |-> IF c = c1 THEN 4 ELSE 1]
=============================================================================
