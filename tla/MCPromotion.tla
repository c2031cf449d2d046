---------------------------- MODULE MCPromotion -----------------------------
(***************************************************************************)
(* Promotion for TLC.  Connections and users are interchangeable; symmetry *)
(* is used by the runs that check safety only.                             *)
(***************************************************************************)
EXTENDS Promotion, TLC

Symmetry == Permutations(Users) \union Permutations(Sessions)
=============================================================================
