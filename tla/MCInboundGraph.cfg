\* A graph that ended rests.
CHECK_DEADLOCK FALSE
SPECIFICATION FairSpec
CONSTANTS
  Limits <- MCLimits
  None = None
INVARIANTS
  BudgetCountsCalls
  AnswerIsWhole
  StageTimeoutsSuffice
PROPERTIES
  GraphEnds
