-------------------------------- MODULE MCFleet --------------------------------
(***************************************************************************)
(* Fleet for TLC: workers are interchangeable model values.                *)
(***************************************************************************)
EXTENDS Fleet, TLC

Symmetry == Permutations(Worker)
=============================================================================
