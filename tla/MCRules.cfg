\* A case is final, and the desk and the clock stop at their bounds.
SPECIFICATION Spec
CONSTANTS
  MaxTokens = 3
  Applications = {"a"}
  MaxAttempts = 2
  MaxCommands = 5
  Keys = {"intake", "status"}
  Limit = 2
  Window = 4
  MaxTime = 6
  Calls = {1, 2}
  Contents = {"deck", "page"}
  Pdfs = {"deck"}
  CacheTtl = 1
  MaxClock = 2
  MaxRequests = 3
CHECK_DEADLOCK FALSE
INVARIANTS
  QueriesAreFair
  AssessmentsAreFair
  EvidenceIsGrounded
  BoundaryIsGuarded
  RetriesAreBounded
  LimiterIsExact
  PagesAreKeptOnce
PROPERTIES
  DeskNeverRewrites
