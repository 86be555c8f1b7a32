---------------------------- MODULE MCMscHandler ----------------------------
(***************************************************************************)
(* MscHandler for TLC: backends and keys are interchangeable.  Used for    *)
(* safety only.                                                            *)
(***************************************************************************)
EXTENDS MscHandler, TLC

Symmetry == Permutations(Backends) \cup Permutations(Keys)
=============================================================================
