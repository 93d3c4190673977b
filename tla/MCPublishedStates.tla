------------------------- MODULE MCPublishedStates --------------------------
(***************************************************************************)
(* PublishedStates for TLC: requests that are served at the same time are  *)
(* interchangeable.                                                        *)
(***************************************************************************)
EXTENDS PublishedStates, TLC

WebSymmetry == Permutations(Web)
=============================================================================
