-------------------------- MODULE MCDeckExtraction --------------------------
(* DeckExtraction on small sets.                                           *)
EXTENDS DeckExtraction, TLC

Symmetry == Permutations(Tasks)
=============================================================================
