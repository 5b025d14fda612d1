----------------------------- MODULE MCServices -----------------------------
(***************************************************************************)
(* Finite instances of Services for TLC.                                   *)
(***************************************************************************)
EXTENDS Services

=============================================================================
