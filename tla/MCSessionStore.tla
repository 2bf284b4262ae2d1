------------------------------ MODULE MCSessionStore ------------------------------
(***************************************************************************)
(* A small instance of the two stores side by side: two sessions, so that  *)
(* an operation on one can disturb the other; two mappings, saved at       *)
(* different times; one owner hash and one token hash; a clock that runs   *)
(* past two lifetimes.                                                     *)
(***************************************************************************)
EXTENDS StoreConformance, TLC

SessionSymmetry == Permutations(Sessions)
=============================================================================
