------------------------- MODULE MCConnectionDaemon -------------------------
(***************************************************************************)
(* Finite instances of ConnectionDaemon for TLC.                           *)
(***************************************************************************)
EXTENDS ConnectionDaemon, TLC

CONSTANTS i1, i2, w1, w2, daemon, stdio

\* Every worker belongs to the socket daemon.
DaemonOwns == [w \in Workers |-> daemon]

IdSymmetry == Permutations(Ids)
WorkerSymmetry == Permutations(Workers)
Symmetry == IdSymmetry \cup WorkerSymmetry
=============================================================================
