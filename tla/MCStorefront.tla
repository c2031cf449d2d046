---------------------------- MODULE MCStorefront -----------------------------
(***************************************************************************)
(* Storefront for TLC.  The replicas of ordering are alike, and no run of  *)
(* it checks liveness.                                                     *)
(***************************************************************************)
EXTENDS Storefront, TLC

Alike == Permutations(Replicas)
=============================================================================
