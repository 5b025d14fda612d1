------------------------- MODULE MCHelperLifecycle -------------------------
(***************************************************************************)
(* Finite instances of HelperLifecycle for TLC.                            *)
(***************************************************************************)
EXTENDS HelperLifecycle
=============================================================================
