\* A run that ended rests.
CHECK_DEADLOCK FALSE
SPECIFICATION FairSpec
CONSTANTS
  Searches <- MCSearches
  Keys = {k1, k2}
  None = None
INVARIANTS
  StopIsExplained
  PagesLastToTheEnd
  OutcomeIsHonest
  SnapshotsFollowRun
PROPERTIES
  RunEnds
