------------------------------ MODULE MCIntake ------------------------------
(* Intake on small sets: the members of ImportKeys and ImportRequests are  *)
(* focused artifacts, the others applications.                             *)
EXTENDS Intake, TLC

CONSTANTS ImportKeys, ImportRequests

MCKindOf == [x \in Keys \cup Requests |->
  IF x \in ImportKeys \cup ImportRequests THEN "focused_artifact"
                                          ELSE "application"]

Symmetry == Permutations(Applications) \cup Permutations(Submitters)
            \cup Permutations(Extractors) \cup Permutations(Results)
=============================================================================
