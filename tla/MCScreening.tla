---------------------------- MODULE MCScreening -----------------------------
(* Screening on small sets.                                                *)
EXTENDS Screening, TLC

Symmetry == Permutations(Runs)
=============================================================================
