\* Every run used and every Decision made, the Opportunity rests.
CHECK_DEADLOCK FALSE
SPECIFICATION FairSpec
CONSTANTS
  Runs = {r1, r2}
  Decks = {gaps, complete}
  Supported = {complete}
  None = None
  MaxDecisions = 2
INVARIANTS
  RunsMatchHistory
  CaseMatchesHistory
  AdvanceNeedsReadiness
PROPERTIES
  QueuedRunEnds
