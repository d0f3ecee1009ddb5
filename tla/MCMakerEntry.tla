---------------------------- MODULE MCMakerEntry ----------------------------
(* MakerEntry with its checking bounds, which are all in the cfg files. *)
EXTENDS MakerEntry, TLC
=============================================================================
