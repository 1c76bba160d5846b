\* Every run used and every Decision made, the Opportunity rests.
CHECK_DEADLOCK FALSE
SPECIFICATION Spec
CONSTANTS
  Runs = {r1, r2}
  Decks = {complete}
  Supported = {complete}
  None = None
  MaxDecisions = 1
INVARIANTS
  LatestMemoIsNewest
