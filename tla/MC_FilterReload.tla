-------------------------- MODULE MC_FilterReload --------------------------
(* Instances of FilterReload for TLC. *)
EXTENDS FilterReload

CONSTANTS f1, f2, w1
=============================================================================
