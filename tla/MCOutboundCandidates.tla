------------------------ MODULE MCOutboundCandidates ------------------------
(* OutboundCandidates on small sets.                                       *)
EXTENDS OutboundCandidates, TLC

Symmetry == Permutations(Candidates) \cup Permutations(Decks)
            \cup Permutations(Submitters) \cup Permutations(Runs)
=============================================================================
