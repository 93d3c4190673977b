-------------------------- MODULE MCAccessDecision --------------------------
(***************************************************************************)
(* AccessDecision for TLC.  The administrators' sessions are               *)
(* interchangeable; users and areas are not, because the area form inserts *)
(* its rows in an order that is chosen.                                    *)
(***************************************************************************)
EXTENDS AccessDecision

SessionSymmetry == Permutations(Session)
=============================================================================
