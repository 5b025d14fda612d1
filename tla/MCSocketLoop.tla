---------------------------- MODULE MCSocketLoop ----------------------------
(***************************************************************************)
(* Finite instances of SocketLoop for TLC.                                 *)
(***************************************************************************)
EXTENDS SocketLoop

CONSTANTS c1, c2, p1, p2

\* Every connection belongs to a process of its own.
OwnProcess == [c \in Clients |-> IF c = c1 THEN p1 ELSE p2]

\* c1 asks for work or a status; c2 sends anything that is not control.
WorkAsks == [c \in Clients |-> IF c = c1 THEN {"imm", "work"} ELSE {"imm", "work", "part"}]

\* Two commands take and release leases; the last asks the daemon to stop.
LeaseAsks == [c \in Clients |-> {"acquire", "release", "shutdown"}]
=============================================================================
