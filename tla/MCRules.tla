-------------------------------- MODULE MCRules --------------------------------
(* The program's pure rules, its desk operations, its throttle and the pages  *)
(* it keeps, for the model checker.  They share nothing, so each is explored  *)
(* with the others at rest.                                                   *)
EXTENDS QueryCases, AssessmentCases, EvidenceCases, BoundaryCases, Desk, RateLimiter,
        PageLibrary

vars == <<case, deskVars, limiterVars, libraryVars>>

RulesInit == Init /\ DeskInit /\ LimiterInit /\ LibraryInit

DeskRests == commands = 0
LibraryRests == requests = 0
LimiterRests == now = 0 /\ \A k \in Keys : admitted[k] = <<>>

NextRule == NextQuery \/ NextAssessment \/ NextEvidence \/ NextBoundary

Next ==
  \/ /\ DeskRests /\ LimiterRests /\ LibraryRests
     /\ NextRule /\ UNCHANGED <<deskVars, limiterVars, libraryVars>>
  \/ /\ Fresh /\ LimiterRests /\ LibraryRests
     /\ DeskNext /\ UNCHANGED <<case, limiterVars, libraryVars>>
  \/ /\ Fresh /\ DeskRests /\ LibraryRests
     /\ LimiterNext /\ UNCHANGED <<case, deskVars, libraryVars>>
  \/ /\ Fresh /\ DeskRests /\ LimiterRests
     /\ LibraryNext /\ UNCHANGED <<case, deskVars, limiterVars>>

Spec == RulesInit /\ [][Next]_vars
=============================================================================
